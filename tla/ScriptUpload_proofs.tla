------------------------- MODULE ScriptUpload_proofs -------------------------
(* ScriptUpload keeps its invariant, for any texts, commands, failures and *)
(* late requests; and the chunks of a text are the text.                   *)
EXTENDS ScriptUpload, Minimum, FiniteSetTheorems, TLAPS

-----------------------------------------------------------------------------
(* The bytes of texts and of their prefixes. *)

LEMMA FirstFact ==
    ASSUME NEW n \in Nat
    PROVE  IsFiniteSet(1..n) /\ Cardinality(1..n) = n
  <1>1. 1 \in Int /\ n \in Int OBVIOUS
  <1>2. IsFiniteSet(1..n) /\ Cardinality(1..n) = IF 1 > n THEN 0 ELSE n - 1 + 1
    BY <1>1, FS_Interval
  <1> QED BY <1>2

LEMMA BytesFact ==
    ASSUME NEW text \in Seq(Chars)
    PROVE  IsFiniteSet(BytesOf(text)) /\ Bytes(text) \in Nat
  <1>1. Len(text) \in Nat OBVIOUS
  <1>2. IsFiniteSet(1..Len(text)) /\ IsFiniteSet(1..4) BY <1>1, FirstFact
  <1>3. IsFiniteSet((1..Len(text)) \X (1..4)) BY <1>2, FS_Product
  <1>4. BytesOf(text) \in SUBSET ((1..Len(text)) \X (1..4)) BY DEF BytesOf
  <1>5. IsFiniteSet(BytesOf(text)) BY <1>3, <1>4, FS_Subset
  <1> QED BY <1>5, FS_CardinalityType DEF Bytes

\* What is cut out of a text.
LEMMA SliceFact ==
    ASSUME NEW text \in Seq(Chars), NEW m \in 1..(Len(text) + 1), NEW n \in 0..Len(text),
           m <= n + 1
    PROVE  /\ SubSeq(text, m, n) \in Seq(Chars) /\ Len(SubSeq(text, m, n)) = n - m + 1
           /\ \A i \in 1..(n - m + 1) : SubSeq(text, m, n)[i] = text[m + i - 1]
  OBVIOUS

LEMMA PrefixLess ==
    ASSUME NEW text \in Seq(Chars), NEW m \in 0..Len(text), NEW n \in 0..Len(text), m < n
    PROVE  Bytes(SubSeq(text, 1, m)) < Bytes(SubSeq(text, 1, n))
  <1> DEFINE a == SubSeq(text, 1, m)
             b == SubSeq(text, 1, n)
  <1>1. /\ a \in Seq(Chars) /\ b \in Seq(Chars) /\ Len(a) = m /\ Len(b) = n
        /\ \A i \in 1..m : a[i] = text[i]
        /\ \A i \in 1..n : b[i] = text[i]
    BY SliceFact
  <1>2. n \in 1..Len(text) /\ text[n] \in Chars OBVIOUS
  <1> HIDE DEF a, b
  <1>3. BytesOf(a) \in SUBSET BytesOf(b) BY <1>1 DEF BytesOf
  <1>4. <<n, 1>> \in BytesOf(b)
    <2>0. Size[text[n]] \in 1..4 BY <1>2, UploadAssumption
    <2>1. b[n] = text[n] /\ 1 <= Size[text[n]] BY <1>1, <1>2, <2>0
    <2>2. <<n, 1>> \in (1..Len(b)) \X (1..4) BY <1>1, <1>2
    <2> QED BY <2>1, <2>2 DEF BytesOf
  <1>5. <<n, 1>> \notin BytesOf(a) BY <1>1 DEF BytesOf
  <1>6. IsFiniteSet(BytesOf(b)) /\ Bytes(b) \in Nat /\ Bytes(a) \in Nat BY <1>1, BytesFact
  <1>7. Bytes(a) <= Bytes(b) /\ Bytes(a) # Bytes(b)
    BY <1>3, <1>4, <1>5, <1>6, FS_Subset DEF Bytes
  <1> QED BY <1>6, <1>7 DEF a, b

\* From the offset that the bytes of a prefix take, the device returns the rest.
LEMMA FromFact ==
    ASSUME NEW text \in Seq(Chars), NEW n \in 0..Len(text)
    PROVE  From(text, Bytes(SubSeq(text, 1, n))) = SubSeq(text, n + 1, Len(text))
  <1> DEFINE offset == Bytes(SubSeq(text, 1, n))
             fit == {i \in DOMAIN text : Bytes(SubSeq(text, 1, i)) <= offset}
  <1>1. \A i \in 0..Len(text) : Bytes(SubSeq(text, 1, i)) \in Nat
    <2> TAKE i \in 0..Len(text)
    <2>1. SubSeq(text, 1, i) \in Seq(Chars) OBVIOUS
    <2> QED BY <2>1, BytesFact
  <1>2. \A i \in 1..Len(text) : i < n => Bytes(SubSeq(text, 1, i)) <= offset
    BY <1>1, PrefixLess
  <1>3. \A i \in 1..Len(text) : n < i => ~(Bytes(SubSeq(text, 1, i)) <= offset)
    BY <1>1, PrefixLess
  <1>4. n \in Nat /\ Len(text) \in Nat /\ DOMAIN text = 1..Len(text) OBVIOUS
  <1>5. offset <= offset BY <1>1
  <1> HIDE DEF offset
  <1>6. \A i \in 1..Len(text) : i = n => Bytes(SubSeq(text, 1, i)) <= offset
    BY <1>5 DEF offset
  <1>7. fit = 1..n BY <1>2, <1>3, <1>4, <1>6
  <1>8. Cardinality(fit) = n BY <1>4, <1>7, FirstFact
  <1>9. From(text, offset) = SubSeq(text, 1 + Cardinality(fit), Len(text)) BY DEF From
  <1> HIDE DEF fit
  <1>10. From(text, offset) = SubSeq(text, n + 1, Len(text)) BY <1>4, <1>8, <1>9
  <1> QED BY <1>10 DEF offset

\* Whatever the offset, what comes is a piece of the text.
LEMMA FittingFact ==
    ASSUME NEW text \in Seq(Chars), NEW limit
    PROVE  Cardinality({i \in DOMAIN text : Bytes(SubSeq(text, 1, i)) <= limit}) \in 0..Len(text)
  <1> DEFINE fit == {i \in DOMAIN text : Bytes(SubSeq(text, 1, i)) <= limit}
  <1>1. Len(text) \in Nat /\ fit \in SUBSET (1..Len(text)) OBVIOUS
  <1> HIDE DEF fit
  <1>2. IsFiniteSet(1..Len(text)) /\ Cardinality(1..Len(text)) = Len(text)
    BY <1>1, FirstFact
  <1>3. IsFiniteSet(fit) /\ Cardinality(fit) <= Len(text) BY <1>1, <1>2, FS_Subset
  <1>4. Cardinality(fit) \in Nat BY <1>3, FS_CardinalityType
  <1>5. Cardinality(fit) \in 0..Len(text) BY <1>1, <1>3, <1>4
  <1> QED BY <1>5 DEF fit

LEMMA FromType ==
    ASSUME NEW text \in Seq(Chars), NEW offset
    PROVE  From(text, offset) \in Seq(Chars)
  <1>1. PICK n \in 0..Len(text) : From(text, offset) = SubSeq(text, 1 + n, Len(text))
    BY FittingFact DEF From
  <1> QED BY <1>1

LEMMA PieceFact ==
    ASSUME NEW text \in Seq(Chars), NEW offset
    PROVE  \E m \in 0..Len(From(text, offset)) :
              Piece(text, offset) = SubSeq(From(text, offset), 1, m)
  <1> DEFINE rest == From(text, offset)
  <1>1. rest \in Seq(Chars) BY FromType
  <1>2. Piece(text, offset) =
          SubSeq(rest, 1, Cardinality({i \in DOMAIN rest :
                                         Bytes(SubSeq(rest, 1, i)) <= ReadLimit}))
    BY DEF Piece
  <1> HIDE DEF rest
  <1>3. Cardinality({i \in DOMAIN rest : Bytes(SubSeq(rest, 1, i)) <= ReadLimit}) \in 0..Len(rest)
    BY <1>1, FittingFact
  <1>4. \E m \in 0..Len(rest) : Piece(text, offset) = SubSeq(rest, 1, m) BY <1>2, <1>3
  <1> QED BY <1>4 DEF rest

LEMMA JoinedFact ==
    ASSUME NEW a \in Seq(Chars), NEW b \in Seq(Chars)
    PROVE  /\ Len(a \o b) = Len(a) + Len(b)
           /\ \A i \in 1..Len(a) : (a \o b)[i] = a[i]
           /\ \A i \in 1..Len(b) : (a \o b)[Len(a) + i] = b[i]
  OBVIOUS

\* A round of reading: what was read stays the beginning of a code that does not
\* change, and is all of it when nothing is left.
LEMMA ReadFact ==
    ASSUME NEW text \in Seq(Chars), NEW got \in Seq(Chars),
           NEW more, more = got \o Piece(text, Bytes(got))
    PROVE  /\ more \in Seq(Chars)
           /\ IsPrefix(got, text) =>
                 /\ IsPrefix(more, text)
                 /\ From(text, Bytes(more)) = << >> => more = text
  <1> DEFINE rest == From(text, Bytes(got))
  <1>1. PICK m \in 0..Len(rest) : Piece(text, Bytes(got)) = SubSeq(rest, 1, m) BY PieceFact
  <1>2. rest \in Seq(Chars) BY FromType
  <1>3. SubSeq(rest, 1, m) \in Seq(Chars) BY <1>2
  <1>4. more \in Seq(Chars) BY <1>1, <1>3
  <1>5. ASSUME IsPrefix(got, text)
        PROVE  /\ IsPrefix(more, text)
               /\ From(text, Bytes(more)) = << >> => more = text
    <2> DEFINE n == Len(got)
    <2>1. n \in 0..Len(text) /\ SubSeq(got, 1, n) = SubSeq(text, 1, n) BY <1>5 DEF IsPrefix
    <2>2. got = SubSeq(got, 1, n) OBVIOUS
    <2>3. got = SubSeq(text, 1, n) BY <2>1, <2>2
    <2>4. rest = SubSeq(text, n + 1, Len(text)) BY <2>1, <2>3, FromFact
    <2>5. Len(rest) = Len(text) - n /\ \A i \in 1..Len(rest) : rest[i] = text[n + i]
      BY <2>1, <2>4
    <2> HIDE DEF rest, n
    <2>6. SubSeq(rest, 1, m) \in Seq(Chars) /\ Len(SubSeq(rest, 1, m)) = m
          /\ \A i \in 1..m : SubSeq(rest, 1, m)[i] = rest[i]
      BY <1>2
    <2>7. /\ Len(more) = n + m /\ n + m \in 0..Len(text)
          /\ \A i \in 1..n : more[i] = got[i]
          /\ \A i \in 1..m : more[n + i] = text[n + i]
      <3> DEFINE b == SubSeq(rest, 1, m)
      <3>1. more = got \o b /\ b \in Seq(Chars) /\ Len(b) = m BY <1>1, <2>6
      <3> HIDE DEF b
      <3>2. /\ Len(got \o b) = Len(got) + Len(b)
            /\ \A i \in 1..Len(got) : (got \o b)[i] = got[i]
            /\ \A i \in 1..Len(b) : (got \o b)[Len(got) + i] = b[i]
        BY <3>1, JoinedFact, Zenon
      <3>3. /\ Len(more) = n + m
            /\ \A i \in 1..n : more[i] = got[i]
            /\ \A i \in 1..m : more[n + i] = b[i]
        BY <3>1, <3>2, Zenon DEF n
      <3>4. m \in Nat /\ n \in Nat /\ Len(text) \in Nat /\ m <= Len(rest)
        BY <2>1
      <3>5. n + m \in 0..Len(text) /\ \A i \in 1..m : i \in 1..Len(rest)
        BY <2>5, <3>4
      <3> QED BY <2>5, <2>6, <3>3, <3>5, Zenon DEF b
    <2>8. \A i \in 1..n : got[i] = text[i] BY <2>1, <2>3
    <2>9. \A i \in 1..(n + m) : more[i] = text[i]
      <3> SUFFICES ASSUME NEW i \in 1..(n + m) PROVE more[i] = text[i] OBVIOUS
      <3>1. CASE i <= n BY <2>1, <2>7, <2>8, <3>1
      <3>2. CASE i > n
        <4>1. i - n \in 1..m /\ n + (i - n) = i BY <2>1, <2>7, <3>2
        <4>2. more[n + (i - n)] = text[n + (i - n)] BY <2>7, <4>1
        <4> QED BY <4>1, <4>2
      <3>3. n \in Nat /\ i \in Nat BY <2>1, <2>7
      <3>4. i <= n \/ i > n BY <3>3
      <3> QED BY <3>1, <3>2, <3>4
    <2>10. more = SubSeq(text, 1, n + m) BY <1>4, <2>7, <2>9
    <2>11. IsPrefix(more, text) BY <1>4, <2>7, <2>10 DEF IsPrefix
    <2>12. From(text, Bytes(more)) = SubSeq(text, n + m + 1, Len(text))
      BY <2>7, <2>10, FromFact
    <2>13. ASSUME From(text, Bytes(more)) = << >> PROVE more = text
      <3>1. SubSeq(text, n + m + 1, Len(text)) = << >> BY <2>12, <2>13
      <3>2. Len(SubSeq(text, n + m + 1, Len(text))) = Len(text) - (n + m) BY <2>7
      <3>3. Len(<< >>) = 0 /\ Len(text) - (n + m) = 0 BY <3>1, <3>2
      <3>4. n + m = Len(text) BY <2>7, <3>3
      <3> QED BY <2>10, <3>4
    <2> QED BY <2>11, <2>13
  <1> QED BY <1>4, <1>5

LEMMA BytesAppend ==
    ASSUME NEW text \in Seq(Chars), NEW c \in Chars
    PROVE  Bytes(Append(text, c)) = Bytes(text) + Size[c]
  <1> DEFINE n == Len(text) + 1
             last == {n} \X (1..Size[c])
             all == Append(text, c)
  <1>1. /\ Size[c] \in 1..4 /\ n \in Nat /\ Len(text) \in Nat
        /\ \A i \in 1..Len(text) : Size[text[i]] \in 1..4
    BY UploadAssumption
  <1>2. /\ all \in Seq(Chars) /\ Len(all) = n /\ all[n] = c
        /\ \A i \in 1..Len(text) : all[i] = text[i]
    OBVIOUS
  <1> HIDE DEF all
  <1>3. BytesOf(all) = BytesOf(text) \cup last
    <2>1. ASSUME NEW i \in 1..n, NEW b \in 1..4
          PROVE  b <= Size[all[i]] <=> <<i, b>> \in BytesOf(text) \cup last
      <3>1. CASE i = n
        <4>1. <<i, b>> \notin BytesOf(text) BY <1>1, <3>1 DEF BytesOf
        <4>2. <<i, b>> \in last <=> b <= Size[c] BY <1>1, <3>1
        <4> QED BY <1>2, <3>1, <4>1, <4>2
      <3>2. CASE i # n
        <4>1. i \in 1..Len(text) BY <1>1, <3>2
        <4>2. <<i, b>> \notin last BY <3>2
        <4>3. <<i, b>> \in BytesOf(text) <=> b <= Size[text[i]] BY <4>1 DEF BytesOf
        <4> QED BY <1>2, <4>1, <4>2, <4>3
      <3> QED BY <3>1, <3>2
    <2>2. BytesOf(all) \subseteq (1..n) \X (1..4) /\ BytesOf(text) \subseteq (1..n) \X (1..4)
      BY <1>1, <1>2 DEF BytesOf
    <2>3. last \subseteq (1..n) \X (1..4) BY <1>1
    <2>4. \A i \in 1..n, b \in 1..4 : <<i, b>> \in BytesOf(all) <=> b <= Size[all[i]]
      BY <1>2 DEF BytesOf
    <2>5. \A at \in (1..n) \X (1..4) :
             at[1] \in 1..n /\ at[2] \in 1..4 /\ at = <<at[1], at[2]>>
      OBVIOUS
    <2>6. BytesOf(all) \subseteq (1..n) \X (1..4) BY <2>2
    <2> HIDE DEF n, last
    <2>7. ASSUME NEW at \in (1..n) \X (1..4)
          PROVE  at \in BytesOf(all) <=> at \in BytesOf(text) \cup last
      <3>1. PICK i \in 1..n, b \in 1..4 : at = <<i, b>> BY <2>5, <2>7
      <3>2. <<i, b>> \in BytesOf(all) <=> <<i, b>> \in BytesOf(text) \cup last
        BY <2>1, <2>4, Zenon
      <3> QED BY <3>1, <3>2, Zenon
    <2> QED BY <2>2, <2>3, <2>7
  <1>4. IsFiniteSet(last) /\ Cardinality(last) = Size[c]
    <2>1. IsFiniteSet({n}) /\ Cardinality({n}) = 1 BY FS_Singleton
    <2>2. IsFiniteSet(1..Size[c]) /\ Cardinality(1..Size[c]) = Size[c] BY <1>1, FirstFact
    <2>3. IsFiniteSet(last) /\ Cardinality(last) = 1 * Size[c]
      BY <2>1, <2>2, FS_Product, ZenonT(60)
    <2> HIDE DEF last
    <2> QED BY <1>1, <2>3
  <1>5. BytesOf(text) \cap last = {} BY <1>1 DEF BytesOf
  <1>6. IsFiniteSet(BytesOf(text)) /\ Bytes(text) \in Nat BY BytesFact
  <1> HIDE DEF last
  <1>7. Cardinality({}) = 0 BY FS_EmptySet
  <1>8. Cardinality(BytesOf(text) \cup last) = Cardinality(BytesOf(text)) + Size[c] - 0
    BY <1>4, <1>5, <1>6, <1>7, FS_Union
  <1>9. Bytes(all) = Bytes(text) + Size[c] BY <1>1, <1>3, <1>6, <1>8 DEF Bytes
  <1> QED BY <1>9 DEF all

LEMMA BytesEmpty == Bytes(<< >>) = 0
  <1>1. BytesOf(<< >>) = {} BY DEF BytesOf
  <1> QED BY <1>1, FS_EmptySet DEF Bytes

LEMMA SizeFact ==
    ASSUME NEW c \in Chars
    PROVE  Size[c] \in 1..4
  BY UploadAssumption

\* A prefix grows by a character.
LEMMA OneCharacter ==
    ASSUME NEW text \in Seq(Chars), NEW k \in 1..Len(text)
    PROVE  /\ SubSeq(text, 1, k - 1) \in Seq(Chars) /\ text[k] \in Chars
           /\ SubSeq(text, 1, k) = Append(SubSeq(text, 1, k - 1), text[k])
  OBVIOUS

\* The bytes of a prefix are those of a shorter one and of what follows it.
LEMMA BytesSplit ==
    ASSUME NEW text \in Seq(Chars), NEW n \in 0..Len(text), NEW rest \in Seq(Chars),
           rest = SubSeq(text, n + 1, Len(text)), NEW k \in 0..Len(rest)
    PROVE  Bytes(SubSeq(text, 1, n + k)) = Bytes(SubSeq(text, 1, n)) + Bytes(SubSeq(rest, 1, k))
  <1> DEFINE Good(i) == Bytes(SubSeq(text, 1, n + i)) =
                          Bytes(SubSeq(text, 1, n)) + Bytes(SubSeq(rest, 1, i))
             bad == {i \in 0..Len(rest) : ~Good(i)}
  <1>1. /\ n \in Nat /\ Len(text) \in Nat /\ Len(rest) \in Nat /\ n + Len(rest) = Len(text)
        /\ \A i \in 1..Len(rest) : rest[i] = text[n + i]
    OBVIOUS
  <1>2. Good(0)
    <2>1. SubSeq(rest, 1, 0) = << >> /\ SubSeq(text, 1, n) \in Seq(Chars) OBVIOUS
    <2>2. Bytes(SubSeq(text, 1, n)) \in Nat BY <2>1, BytesFact
    <2>3. Bytes(SubSeq(rest, 1, 0)) = 0 BY <2>1, BytesEmpty, Zenon
    <2>4. n + 0 = n OBVIOUS
    <2> QED BY <2>2, <2>3, <2>4
  <1>3. ASSUME NEW i \in 1..Len(rest), Good(i - 1) PROVE Good(i)
    <2>1. /\ SubSeq(rest, 1, i - 1) \in Seq(Chars) /\ rest[i] \in Chars
          /\ SubSeq(rest, 1, i) = Append(SubSeq(rest, 1, i - 1), rest[i])
      BY OneCharacter
    <2>2. n + i \in 1..Len(text) /\ n + i - 1 = n + (i - 1) BY <1>1
    <2>3. /\ SubSeq(text, 1, n + (i - 1)) \in Seq(Chars) /\ text[n + i] \in Chars
          /\ SubSeq(text, 1, n + i) = Append(SubSeq(text, 1, n + (i - 1)), text[n + i])
      BY <2>2, OneCharacter
    <2>4. SubSeq(text, 1, n) \in Seq(Chars) OBVIOUS
    <2>5. /\ Bytes(SubSeq(text, 1, n)) \in Nat /\ Bytes(SubSeq(rest, 1, i - 1)) \in Nat
          /\ Size[rest[i]] \in Nat /\ rest[i] = text[n + i]
      <3>1. Size[rest[i]] \in 1..4 BY <2>1, SizeFact
      <3>2. Bytes(SubSeq(text, 1, n)) \in Nat /\ Bytes(SubSeq(rest, 1, i - 1)) \in Nat
        BY <2>1, <2>4, BytesFact
      <3>3. rest[i] = text[n + i] BY <1>1, Zenon
      <3>4. \A b \in 1..4 : b \in Nat OBVIOUS
      <3> QED BY <3>1, <3>2, <3>3, <3>4, Zenon
    <2>6. Bytes(SubSeq(rest, 1, i)) = Bytes(SubSeq(rest, 1, i - 1)) + Size[rest[i]]
      BY <2>1, BytesAppend
    <2>7. Bytes(SubSeq(text, 1, n + i)) = Bytes(SubSeq(text, 1, n + (i - 1))) + Size[text[n + i]]
      BY <2>3, BytesAppend
    <2>8. Bytes(SubSeq(text, 1, n + (i - 1))) =
            Bytes(SubSeq(text, 1, n)) + Bytes(SubSeq(rest, 1, i - 1))
      BY <1>3, Zenon
    <2> DEFINE front == Bytes(SubSeq(text, 1, n))
               before == Bytes(SubSeq(rest, 1, i - 1))
               all == Bytes(SubSeq(text, 1, n + i))
               after == Bytes(SubSeq(rest, 1, i))
               more == Size[rest[i]]
    <2>9. front \in Nat /\ before \in Nat /\ more \in Nat BY <2>5
    <2>10. all = front + before + more BY <2>5, <2>7, <2>8, Zenon
    <2>11. after = before + more BY <2>6, Zenon
    <2> HIDE DEF front, before, all, after, more
    <2>12. all = front + after BY <2>9, <2>10, <2>11
    <2> QED BY <2>12, Zenon DEF front, all, after
  <1> HIDE DEF Good
  <1>4. bad = {}
    <2> SUFFICES ASSUME bad # {} PROVE FALSE OBVIOUS
    <2>1. bad \in SUBSET Nat BY <1>1
    <2>2. PICK i \in bad : \A l \in bad : i <= l BY <2>1, NatMin
    <2>3. i \in 0..Len(rest) /\ ~Good(i) /\ i # 0 BY <1>2, <2>2
    <2>4. i \in 1..Len(rest) /\ i - 1 \in 0..Len(rest) /\ ~(i <= i - 1) BY <1>1, <2>3
    <2>5. Good(i - 1) BY <2>2, <2>4
    <2> QED BY <1>3, <2>3, <2>4, <2>5
  <1> QED BY <1>4 DEF Good

\* A round that leaves something brings all that the device returns for one, but for
\* the bytes that a character would need which does not fit.
LEMMA HeadwayFact ==
    ASSUME NEW text \in Seq(Chars), NEW got \in Seq(Chars), IsPrefix(got, text),
           NEW more, more = got \o Piece(text, Bytes(got)), From(text, Bytes(more)) # << >>
    PROVE  /\ Bytes(got) \in Nat /\ Bytes(more) \in Nat
           /\ Bytes(got) + (ReadLimit - 3) <= Bytes(more) /\ Bytes(more) < Bytes(text)
  <1> DEFINE n == Len(got)
             N == Len(text)
             rest == From(text, Bytes(got))
             fit == {i \in DOMAIN rest : Bytes(SubSeq(rest, 1, i)) <= ReadLimit}
             m == Cardinality(fit)
             piece == SubSeq(rest, 1, m)
  <1>1. N \in Nat /\ n \in 0..N /\ got = SubSeq(text, 1, n)
    <2>1. n \in 0..N /\ SubSeq(got, 1, n) = SubSeq(text, 1, n) BY DEF IsPrefix
    <2>2. got = SubSeq(got, 1, n) /\ N \in Nat OBVIOUS
    <2> QED BY <2>1, <2>2
  <1>2. rest = SubSeq(text, n + 1, N) BY <1>1, FromFact
  <1>3. rest \in Seq(Chars) /\ Len(rest) = N - n BY <1>1, <1>2
  <1>4. m \in 0..Len(rest)
    <2> HIDE DEF rest
    <2> QED BY <1>3, FittingFact
  <1>5. Piece(text, Bytes(got)) = piece BY DEF Piece
  <1> HIDE DEF rest, m
  <1>6. piece \in Seq(Chars) /\ Len(piece) = m BY <1>3, <1>4
  <1>7. more \in Seq(Chars) /\ IsPrefix(more, text) BY ReadFact
  <1>8. Len(more) = n + m BY <1>5, <1>6
  <1>9. more = SubSeq(text, 1, n + m)
    <2>1. more = SubSeq(more, 1, Len(more)) BY <1>7
    <2> QED BY <1>7, <1>8, <2>1 DEF IsPrefix
  <1>10. n + m \in 0..N BY <1>1, <1>3, <1>4
  <1> HIDE DEF n, N, piece
  <1>11. n + m < N
    <2> SUFFICES ASSUME n + m = N PROVE FALSE BY <1>1, <1>10
    <2>1. From(text, Bytes(more)) = SubSeq(text, n + m + 1, N) BY <1>9, <1>10, FromFact DEF N
    <2>2. SubSeq(text, N + 1, N) = << >> BY <1>1
    <2> QED BY <2>1, <2>2
  <1>12. m + 1 \in 1..Len(rest) /\ m \in Nat BY <1>1, <1>3, <1>4, <1>11
  <1>13. \A i \in 0..Len(rest) : Bytes(SubSeq(rest, 1, i)) \in Nat
    <2> TAKE i \in 0..Len(rest)
    <2>1. SubSeq(rest, 1, i) \in Seq(Chars) BY <1>3
    <2> QED BY <2>1, BytesFact
  <1>14. ~(Bytes(SubSeq(rest, 1, m + 1)) <= ReadLimit)
    <2> SUFFICES ASSUME Bytes(SubSeq(rest, 1, m + 1)) <= ReadLimit PROVE FALSE OBVIOUS
    <2>1. \A i \in 1..Len(rest) :
             i < m + 1 => Bytes(SubSeq(rest, 1, i)) < Bytes(SubSeq(rest, 1, m + 1))
      BY <1>3, <1>12, PrefixLess
    <2>2. ReadLimit \in Nat BY UploadAssumption
    <2>3. 1..(m + 1) \in SUBSET fit BY <1>3, <1>12, <1>13, <2>1, <2>2
    <2>4. IsFiniteSet(fit)
      <3>1. fit \in SUBSET (1..Len(rest)) /\ Len(rest) \in Nat BY <1>3
      <3> QED BY <3>1, FirstFact, FS_Subset
    <2> HIDE DEF fit
    <2>5. Cardinality(1..(m + 1)) <= m BY <2>3, <2>4, FS_Subset DEF m
    <2>6. Cardinality(1..(m + 1)) = m + 1 BY <1>12, FirstFact
    <2> QED BY <1>12, <2>5, <2>6
  <1>15. Bytes(SubSeq(rest, 1, m + 1)) = Bytes(piece) + Size[rest[m + 1]]
         /\ Size[rest[m + 1]] \in 1..4
    <2>1. /\ SubSeq(rest, 1, m + 1) = Append(SubSeq(rest, 1, m + 1 - 1), rest[m + 1])
          /\ SubSeq(rest, 1, m + 1 - 1) \in Seq(Chars) /\ rest[m + 1] \in Chars
      BY <1>3, <1>12, OneCharacter
    <2>2. m + 1 - 1 = m BY <1>12
    <2>3. /\ SubSeq(rest, 1, m) \in Seq(Chars)
          /\ SubSeq(rest, 1, m + 1) = Append(SubSeq(rest, 1, m), rest[m + 1])
      BY <2>1, <2>2
    <2>4. Size[rest[m + 1]] \in 1..4 BY <2>1, SizeFact
    <2> QED BY <2>1, <2>3, <2>4, BytesAppend DEF piece
  <1>16. Bytes(more) = Bytes(got) + Bytes(piece)
    <2>1. n \in 0..Len(text) /\ rest = SubSeq(text, n + 1, Len(text)) BY <1>1, <1>2 DEF N
    <2>2. Bytes(SubSeq(text, 1, n + m)) = Bytes(SubSeq(text, 1, n)) + Bytes(SubSeq(rest, 1, m))
      BY <1>3, <1>4, <2>1, BytesSplit
    <2> QED BY <1>1, <1>9, <2>2 DEF piece
  <1>17. Bytes(got) \in Nat /\ Bytes(more) \in Nat /\ Bytes(piece) \in Nat
    BY <1>6, <1>7, BytesFact
  <1>18. Bytes(more) < Bytes(text)
    <2>1. text = SubSeq(text, 1, Len(text)) OBVIOUS
    <2>2. n + m \in 0..Len(text) /\ n + m < Len(text) /\ Len(text) \in 0..Len(text)
      BY <1>1, <1>10, <1>11 DEF N
    <2>3. Bytes(SubSeq(text, 1, n + m)) < Bytes(SubSeq(text, 1, Len(text)))
      BY <2>2, PrefixLess
    <2> QED BY <1>9, <2>1, <2>3
  <1>19. Bytes(piece) + 4 > ReadLimit /\ ReadLimit \in Nat
    <2>1. ReadLimit \in Nat BY UploadAssumption
    <2>2. Bytes(SubSeq(rest, 1, m + 1)) <= Bytes(piece) + 4 BY <1>15, <1>17
    <2>3. Bytes(SubSeq(rest, 1, m + 1)) \in Nat BY <1>15, <1>17
    <2> QED BY <1>14, <1>17, <2>1, <2>2, <2>3
  <1> QED BY <1>16, <1>17, <1>18, <1>19

-----------------------------------------------------------------------------
(* The chunks of a text. *)

\* The parts are what lies between the cuts of a text, none is empty and none too large.
Between(parts, cut, text) ==
    /\ cut \in Seq(Nat) /\ Len(cut) = Len(parts) + 1 /\ cut[1] = 0
    /\ \A k \in 1..Len(parts) :
          /\ cut[k] < cut[k + 1] /\ parts[k] = SubSeq(text, cut[k] + 1, cut[k + 1])
          /\ Bytes(parts[k]) <= ChunkLimit
Reach(cut) == cut[Len(cut)]

LEMMA ReachType ==
    ASSUME NEW parts \in Seq(Seq(Chars)), NEW cut, NEW text, Between(parts, cut, text)
    PROVE  Reach(cut) \in Nat
  <1>1. cut \in Seq(Nat) /\ Len(cut) = Len(parts) + 1 /\ Len(parts) \in Nat BY DEF Between
  <1> QED BY <1>1 DEF Reach

LEMMA AppendFact ==
    ASSUME NEW s \in Seq(Seq(Chars)), NEW e \in Seq(Chars)
    PROVE  /\ Append(s, e) \in Seq(Seq(Chars)) /\ Len(Append(s, e)) = Len(s) + 1
           /\ Append(s, e)[Len(s) + 1] = e
           /\ \A k \in 1..Len(s) : Append(s, e)[k] = s[k]
  OBVIOUS

\* One part more.
LEMMA OneMore ==
    ASSUME NEW text \in Seq(Chars), NEW parts \in Seq(Seq(Chars)), NEW cut \in Seq(Nat),
           NEW part \in Seq(Chars), NEW m \in Nat,
           Between(parts, cut, text),
           Reach(cut) \in Nat, Reach(cut) < m, part = SubSeq(text, Reach(cut) + 1, m),
           Bytes(part) \in Nat, Bytes(part) <= ChunkLimit
    PROVE  /\ Between(Append(parts, part), Append(cut, m), text)
           /\ Reach(Append(cut, m)) = m
  <1> DEFINE more == Append(parts, part)
             cut2 == Append(cut, m)
             L == Len(parts)
  <1>1. /\ cut \in Seq(Nat) /\ Len(cut) = L + 1 /\ cut[1] = 0 /\ L \in Nat
        /\ \A k \in 1..L : /\ cut[k] < cut[k + 1]
                           /\ parts[k] = SubSeq(text, cut[k] + 1, cut[k + 1])
                           /\ Bytes(parts[k]) <= ChunkLimit
    BY DEF Between
  <1>2. /\ Len(more) = L + 1 /\ more[L + 1] = part /\ \A k \in 1..L : more[k] = parts[k]
    <2>1. /\ Len(Append(parts, part)) = Len(parts) + 1
          /\ Append(parts, part)[Len(parts) + 1] = part
          /\ \A k \in 1..Len(parts) : Append(parts, part)[k] = parts[k]
      BY AppendFact, Zenon
    <2> QED BY <2>1, Zenon
  <1>3. /\ cut2 \in Seq(Nat) /\ Len(cut2) = L + 2 /\ cut2[L + 2] = m
        /\ \A k \in 1..(L + 1) : cut2[k] = cut[k]
    BY <1>1
  <1>4. Reach(cut) = cut[L + 1] BY <1>1 DEF Reach
  <1> HIDE DEF more, cut2, L
  <1>5. ASSUME NEW k \in 1..(L + 1)
        PROVE  /\ cut2[k] < cut2[k + 1]
               /\ more[k] = SubSeq(text, cut2[k] + 1, cut2[k + 1])
               /\ Bytes(more[k]) <= ChunkLimit
    <2>1. CASE k = L + 1
      <3>1. cut2[k] = Reach(cut) /\ cut2[k + 1] = m /\ more[k] = part
        BY <1>1, <1>2, <1>3, <1>4, <2>1
      <3> QED BY <3>1
    <2>2. CASE k # L + 1
      <3>1. k \in 1..L /\ k + 1 \in 1..(L + 1) BY <1>1, <2>2
      <3>2. cut2[k] = cut[k] /\ cut2[k + 1] = cut[k + 1] /\ more[k] = parts[k]
        BY <1>2, <1>3, <3>1
      <3> QED BY <1>1, <3>1, <3>2
    <2> QED BY <2>1, <2>2
  <1>6. cut2[1] = 0 BY <1>1, <1>3
  <1>7. Between(more, cut2, text)
    <2>1. Len(cut2) = Len(more) + 1 /\ 1..Len(more) = 1..(L + 1) BY <1>1, <1>2, <1>3
    <2>2. cut2 \in Seq(Nat) BY <1>3
    <2>3. \A k \in 1..Len(more) :
             /\ cut2[k] < cut2[k + 1]
             /\ more[k] = SubSeq(text, cut2[k] + 1, cut2[k + 1])
             /\ Bytes(more[k]) <= ChunkLimit
      BY <1>5, <2>1
    <2> QED BY <1>6, <2>1, <2>2, <2>3, Zenon DEF Between
  <1>8. Reach(cut2) = m BY <1>3 DEF Reach
  <1> QED BY <1>7, <1>8 DEF more, cut2

Collected == [done : Seq(Seq(Chars)), current : Seq(Chars), size : Nat]

LEMMA CollectType ==
    ASSUME NEW acc \in Collected, NEW c \in Chars
    PROVE  Collect(acc, c) \in Collected
  <1>1. Size[c] \in Nat BY UploadAssumption
  <1>2. acc.done \in Seq(Seq(Chars)) /\ acc.current \in Seq(Chars) /\ acc.size \in Nat
    BY DEF Collected
  <1>3. Append(acc.done, acc.current) \in Seq(Seq(Chars)) BY <1>2
  <1>4. Append(acc.current, c) \in Seq(Chars) /\ <<c>> \in Seq(Chars) BY <1>2
  <1>5. acc.size + Size[c] \in Nat BY <1>1, <1>2
  <1> QED BY <1>1, <1>2, <1>3, <1>4, <1>5 DEF Collect, Collected

LEMMA EmptyType == Empty \in Collected
  BY DEF Empty, Collected

\* The recursive function of Chunks exists.
LEMMA CollectedExist ==
    ASSUME NEW N \in Nat, NEW text, \A n \in 1..N : text[n] \in Chars
    PROVE  \E g \in [0..N -> Collected] :
              \A n \in 0..N : g[n] = IF n = 0 THEN Empty ELSE Collect(g[n - 1], text[n])
  <1> DEFINE Has(m) == \E g \in [0..m -> Collected] :
                 \A n \in 0..m : g[n] = IF n = 0 THEN Empty ELSE Collect(g[n - 1], text[n])
             bad == {m \in 0..N : ~Has(m)}
  <1>1. Has(0)
    <2> DEFINE g == [n \in 0..0 |-> Empty]
    <2>1. g \in [0..0 -> Collected] BY EmptyType
    <2>2. \A n \in 0..0 : n = 0 /\ g[n] = Empty OBVIOUS
    <2> HIDE DEF g
    <2> QED BY <2>1, <2>2
  <1>2. ASSUME NEW m \in 1..N, Has(m - 1) PROVE Has(m)
    <2>1. PICK g \in [0..(m - 1) -> Collected] :
             \A n \in 0..(m - 1) :
                g[n] = IF n = 0 THEN Empty ELSE Collect(g[n - 1], text[n])
      BY <1>2
    <2> DEFINE h == [n \in 0..m |-> IF n = m THEN Collect(g[m - 1], text[m]) ELSE g[n]]
    <2>2. Collect(g[m - 1], text[m]) \in Collected
      <3>1. m - 1 \in 0..(m - 1) OBVIOUS
      <3>2. g[m - 1] \in Collected BY <2>1, <3>1
      <3> QED BY <3>2, CollectType
    <2>3. h \in [0..m -> Collected] BY <2>2
    <2>4. \A n \in 0..m : h[n] = IF n = 0 THEN Empty ELSE Collect(h[n - 1], text[n])
      <3> SUFFICES ASSUME NEW n \in 0..m
                   PROVE  h[n] = IF n = 0 THEN Empty ELSE Collect(h[n - 1], text[n])
        OBVIOUS
      <3>1. CASE n = m
        <4>1. h[n] = Collect(g[m - 1], text[m]) /\ h[m - 1] = g[m - 1] /\ n # 0 BY <3>1
        <4> HIDE DEF h
        <4> QED BY <3>1, <4>1
      <3>2. CASE n # m /\ n # 0
        <4>1. h[n] = g[n] /\ h[n - 1] = g[n - 1] /\ n \in 0..(m - 1) BY <3>2
        <4> HIDE DEF h
        <4> QED BY <2>1, <3>2, <4>1
      <3>3. CASE n # m /\ n = 0
        <4>1. h[n] = g[n] /\ n \in 0..(m - 1) BY <3>3
        <4> HIDE DEF h
        <4> QED BY <2>1, <3>3, <4>1
      <3> QED BY <3>1, <3>2, <3>3
    <2> HIDE DEF h
    <2> QED BY <2>3, <2>4
  <1> HIDE DEF Has
  <1>3. bad = {}
    <2> SUFFICES ASSUME bad # {} PROVE FALSE OBVIOUS
    <2>1. bad \in SUBSET Nat OBVIOUS
    <2>2. PICK m \in bad : \A n \in bad : m <= n BY <2>1, NatMin
    <2>3. m \in 0..N /\ ~Has(m) BY <2>2
    <2>4. m # 0 BY <1>1, <2>3
    <2>5. m \in 1..N /\ m - 1 \in 0..N /\ ~(m <= m - 1) BY <2>3, <2>4
    <2>6. Has(m - 1) BY <2>2, <2>5
    <2> QED BY <1>2, <2>3, <2>5, <2>6
  <1>4. Has(N) BY <1>3
  <1> QED BY <1>4 DEF Has

\* What the function of Chunks is after each character, and so at the end.
CollectedUpTo(text, N) ==
    LET all[n \in 0..N] == IF n = 0 THEN Empty ELSE Collect(all[n - 1], text[n])
    IN  all

LEMMA CollectedUpToFact ==
    ASSUME NEW N \in Nat, NEW text, \A n \in 1..N : text[n] \in Chars
    PROVE  \A n \in 0..N :
              CollectedUpTo(text, N)[n] =
                 IF n = 0 THEN Empty ELSE Collect(CollectedUpTo(text, N)[n - 1], text[n])
  <1> DEFINE Step(g, n) == IF n = 0 THEN Empty ELSE Collect(g[n - 1], text[n])
             Is(g) == g = [n \in 0..N |-> Step(g, n)]
             all == CHOOSE g : Is(g)
  <1>1. PICK g \in [0..N -> Collected] :
           \A n \in 0..N : g[n] = IF n = 0 THEN Empty ELSE Collect(g[n - 1], text[n])
    BY CollectedExist
  <1>2. \A n \in 0..N : g[n] = Step(g, n) BY <1>1
  <1>3. Is(g)
    <2> HIDE DEF Step
    <2> QED BY <1>1, <1>2
  <1> HIDE DEF Is
  <1>4. Is(all) BY <1>3
  <1>5. CollectedUpTo(text, N) = all BY DEF CollectedUpTo, Is
  <1> HIDE DEF all
  <1>6. \A n \in 0..N : all[n] = Step(all, n)
    <2> HIDE DEF Step
    <2>1. all = [n \in 0..N |-> Step(all, n)] BY <1>4 DEF Is
    <2> DEFINE h == [n \in 0..N |-> Step(all, n)]
    <2>2. \A n \in 0..N : h[n] = Step(all, n) OBVIOUS
    <2> HIDE DEF h
    <2>3. all = h BY <2>1 DEF h
    <2> QED BY <2>2, <2>3
  <1> QED BY <1>5, <1>6

\* What is collected after n characters.
CollectedOf(acc, text, n) ==
    /\ acc.size = Bytes(acc.current) /\ acc.size <= ChunkLimit
    /\ \E cut \in Seq(Nat) :
          /\ Between(acc.done, cut, text)
          /\ Reach(cut) <= n /\ acc.current = SubSeq(text, Reach(cut) + 1, n)
          /\ n > 0 => Reach(cut) < n

LEMMA CollectStep ==
    ASSUME NEW text \in Seq(Chars), NEW n \in 1..Len(text), NEW acc \in Collected,
           CollectedOf(acc, text, n - 1)
    PROVE  CollectedOf(Collect(acc, text[n]), text, n)
  <1> DEFINE c == text[n]
             new == Collect(acc, c)
  <1>1. /\ Size[c] \in 1..4 /\ ChunkLimit \in Nat /\ ChunkLimit >= 4 /\ c \in Chars
    BY UploadAssumption
  <1>2. acc.done \in Seq(Seq(Chars)) /\ acc.current \in Seq(Chars) /\ acc.size \in Nat
    BY DEF Collected
  <1>3. PICK cut \in Seq(Nat) :
           /\ Between(acc.done, cut, text)
           /\ Reach(cut) <= n - 1 /\ acc.current = SubSeq(text, Reach(cut) + 1, n - 1)
           /\ n - 1 > 0 => Reach(cut) < n - 1
    BY DEF CollectedOf
  <1>4. acc.size = Bytes(acc.current) /\ acc.size <= ChunkLimit BY DEF CollectedOf
  <1>5. Reach(cut) \in 0..(n - 1)
    <2>1. Reach(cut) \in Nat BY <1>2, <1>3, ReachType
    <2> QED BY <1>3, <2>1
  <1>6. CASE acc.current # << >> /\ Overflows(acc.size, c)
    <2>1. new = [done |-> Append(acc.done, acc.current), current |-> <<c>>, size |-> Size[c]]
      BY <1>6 DEF Collect
    <2>2. new.done = Append(acc.done, acc.current) /\ new.current = <<c>> /\ new.size = Size[c]
      BY <2>1
    <2>3. Reach(cut) < n - 1
      <3>1. n - 1 # 0 BY <1>3, <1>5, <1>6
      <3> QED BY <1>3, <3>1
    <2> DEFINE cut2 == Append(cut, n - 1)
    <2>4. cut2 \in Seq(Nat) OBVIOUS
    <2>5. Between(Append(acc.done, acc.current), cut2, text) /\ Reach(cut2) = n - 1
      <3>1. n - 1 \in Nat OBVIOUS
      <3>2. Bytes(acc.current) <= ChunkLimit BY <1>4
      <3>3. Between(acc.done, cut, text) /\ acc.current = SubSeq(text, Reach(cut) + 1, n - 1)
        BY <1>3
      <3>4. acc.done \in Seq(Seq(Chars)) /\ acc.current \in Seq(Chars) BY <1>2
      <3>5. Bytes(acc.current) \in Nat /\ Reach(cut) \in Nat BY <1>2, <1>5, BytesFact
      <3> QED BY <2>3, <3>1, <3>2, <3>3, <3>4, <3>5, OneMore, ZenonT(60)
    <2> HIDE DEF cut2, new
    <2>6. <<c>> = SubSeq(text, Reach(cut2) + 1, n)
      <3>1. /\ SubSeq(text, n, n) \in Seq(Chars) /\ Len(SubSeq(text, n, n)) = n - n + 1
            /\ \A i \in 1..(n - n + 1) : SubSeq(text, n, n)[i] = text[n + i - 1]
        BY SliceFact
      <3> DEFINE s == SubSeq(text, n, n)
                 t == <<text[n]>>
      <3>2. s \in Seq(Chars) /\ Len(s) = 1 /\ s[1] = text[n] BY <3>1
      <3>3. t \in Seq(Chars) /\ Len(t) = 1 /\ t[1] = text[n] OBVIOUS
      <3> HIDE DEF s, t
      <3>4. Len(s) = Len(t) /\ \A i \in 1..Len(s) : s[i] = t[i] BY <3>2, <3>3
      <3>5. s = t BY <3>2, <3>3, <3>4
      <3>6. Reach(cut2) + 1 = n BY <2>5
      <3> QED BY <3>5, <3>6 DEF s, t
    <2>7. Bytes(<<c>>) = Size[c]
      <3>1. << >> \in Seq(Chars) /\ Append(<< >>, c) = <<c>> OBVIOUS
      <3>2. Bytes(Append(<< >>, c)) = Bytes(<< >>) + Size[c] BY <1>1, <3>1, BytesAppend
      <3> HIDE DEF c
      <3> QED BY <1>1, <3>1, <3>2, BytesEmpty
    <2>8. Reach(cut2) < n /\ Size[c] <= ChunkLimit BY <1>1, <2>5
    <2>9. CollectedOf(new, text, n)
      <3> HIDE DEF c
      <3>1. /\ new.current = SubSeq(text, Reach(cut2) + 1, n)
            /\ new.done = Append(acc.done, acc.current)
        BY <2>2, <2>6
      <3>2. new.size = Bytes(new.current) /\ new.size <= ChunkLimit BY <2>2, <2>7, <2>8
      <3>3. Between(new.done, cut2, text) /\ Reach(cut2) <= n /\ Reach(cut2) < n
        BY <2>5, <2>8, <3>1
      <3> QED BY <2>4, <3>1, <3>2, <3>3 DEF CollectedOf
    <2> QED BY <2>9 DEF new, c
  <1>7. CASE ~(acc.current # << >> /\ Overflows(acc.size, c))
    <2>1. new = [done |-> acc.done, current |-> Append(acc.current, c),
                 size |-> acc.size + Size[c]]
      BY <1>7 DEF Collect
    <2>2. /\ new.done = acc.done /\ new.current = Append(acc.current, c)
          /\ new.size = acc.size + Size[c]
      BY <2>1
    <2> HIDE DEF new
    <2>3. Append(acc.current, c) = SubSeq(text, Reach(cut) + 1, n)
      <3> DEFINE a == SubSeq(text, Reach(cut) + 1, n)
                 b == Append(acc.current, c)
                 m == Reach(cut)
      <3>1. /\ a \in Seq(Chars) /\ Len(a) = n - m
            /\ \A i \in 1..(n - m) : a[i] = text[m + i]
        BY <1>5, SliceFact
      <3>2. /\ Len(acc.current) = n - 1 - m
            /\ \A i \in 1..(n - 1 - m) : acc.current[i] = text[m + i]
        BY <1>3, <1>5, SliceFact, SMTT(30)
      <3>3. /\ b \in Seq(Chars) /\ Len(b) = n - m /\ b[n - m] = c
            /\ \A i \in 1..(n - 1 - m) : b[i] = acc.current[i]
        <4> HIDE DEF m, c
        <4>1. n - 1 - m \in Nat /\ (n - 1 - m) + 1 = n - m BY <1>5 DEF m
        <4>2. b \in Seq(Chars) /\ Len(b) = n - m BY <1>1, <1>2, <3>2, <4>1
        <4>3. b[Len(acc.current) + 1] = c BY <1>1, <1>2
        <4>4. \A i \in 1..Len(acc.current) : b[i] = acc.current[i] BY <1>1, <1>2
        <4> QED BY <3>2, <4>1, <4>2, <4>3, <4>4
      <3> HIDE DEF a, b
      <3>4. ASSUME NEW i \in 1..(n - m) PROVE a[i] = b[i]
        <4>1. CASE i = n - m
          <5>1. m + i = n BY <1>5, <4>1
          <5> QED BY <3>1, <3>3, <4>1, <5>1
        <4>2. CASE i # n - m
          <5>1. i \in 1..(n - 1 - m)
            <6> HIDE DEF m
            <6>1. m \in 0..(n - 1) BY <1>5 DEF m
            <6> QED BY <4>2, <6>1
          <5> QED BY <3>1, <3>2, <3>3, <5>1
        <4> QED BY <4>1, <4>2
      <3>5. Len(a) = Len(b) /\ \A i \in 1..Len(a) : a[i] = b[i] BY <3>1, <3>3, <3>4
      <3>6. a = b BY <3>1, <3>3, <3>5
      <3> QED BY <3>6 DEF a, b
    <2>4. Bytes(Append(acc.current, c)) = acc.size + Size[c]
      BY <1>1, <1>2, <1>4, BytesAppend
    <2>5. acc.size + Size[c] <= ChunkLimit
      <3>1. CASE acc.current = << >>
        <4>1. acc.size = 0 BY <1>4, <3>1, BytesEmpty
        <4> QED BY <1>1, <4>1
      <3>2. CASE ~Overflows(acc.size, c)
        BY <1>1, <1>2, <3>2 DEF Overflows
      <3> QED BY <1>7, <3>1, <3>2
    <2>6. Reach(cut) <= n /\ Reach(cut) < n BY <1>5
    <2>7. CollectedOf(new, text, n)
      BY <1>3, <2>2, <2>3, <2>4, <2>5, <2>6 DEF CollectedOf
    <2> QED BY <2>7 DEF new, c
  <1> QED BY <1>6, <1>7

LEMMA ChunksFact ==
    ASSUME NEW text \in Seq(Chars)
    PROVE  \E acc \in Collected :
              /\ Chunks(text) = Append(acc.done, acc.current)
              /\ CollectedOf(acc, text, Len(text))
  <1> DEFINE N == Len(text)
             all == CollectedUpTo(text, N)
  <1>1. N \in Nat /\ \A n \in 1..N : text[n] \in Chars OBVIOUS
  <1>2. Chunks(text) = Append(all[N].done, all[N].current) BY DEF Chunks, CollectedUpTo
  <1>3. \A n \in 0..N : all[n] = IF n = 0 THEN Empty ELSE Collect(all[n - 1], text[n])
    <2> HIDE DEF N
    <2> QED BY <1>1, CollectedUpToFact
  <1> HIDE DEF all, N
  <1> DEFINE Good(n) == all[n] \in Collected /\ CollectedOf(all[n], text, n)
             bad == {n \in 0..N : ~Good(n)}
  <1>4. Good(0)
    <2>1. all[0] = Empty BY <1>1, <1>3
    <2>2. CollectedOf(Empty, text, 0)
      <3> DEFINE cut == <<0>>
      <3>1. cut \in Seq(Nat) /\ Len(cut) = 1 /\ cut[1] = 0 OBVIOUS
      <3> HIDE DEF cut
      <3>2. Empty.current = << >> /\ Empty.size = 0 /\ Empty.done = << >>
        BY DEF Empty
      <3>3. Len(<< >>) = 0 OBVIOUS
      <3>4. Between(<< >>, cut, text) BY <3>1, <3>3 DEF Between
      <3>5. Reach(cut) = 0 BY <3>1 DEF Reach
      <3>6. SubSeq(text, 1, 0) = << >> OBVIOUS
      <3>7. Bytes(<< >>) = 0 /\ 0 <= ChunkLimit BY BytesEmpty, UploadAssumption
      <3> QED BY <3>1, <3>2, <3>4, <3>5, <3>6, <3>7 DEF CollectedOf
    <2> QED BY <2>1, <2>2, EmptyType
  <1>5. ASSUME NEW n \in 1..N, Good(n - 1) PROVE Good(n)
    <2>1. n # 0 /\ n \in 0..N BY <1>1
    <2>2. all[n] = Collect(all[n - 1], text[n]) BY <1>3, <2>1
    <2>3. all[n - 1] \in Collected /\ CollectedOf(all[n - 1], text, n - 1) BY <1>5
    <2>4. Collect(all[n - 1], text[n]) \in Collected BY <1>1, <2>3, CollectType
    <2>5. CollectedOf(Collect(all[n - 1], text[n]), text, n) BY <2>3, CollectStep DEF N
    <2> QED BY <2>2, <2>4, <2>5
  <1> HIDE DEF Good
  <1>6. bad = {}
    <2> SUFFICES ASSUME bad # {} PROVE FALSE OBVIOUS
    <2>1. bad \in SUBSET Nat BY <1>1
    <2>2. PICK m \in bad : \A n \in bad : m <= n BY <2>1, NatMin
    <2>3. m \in 0..N /\ ~Good(m) BY <2>2
    <2>4. m # 0 BY <1>4, <2>3
    <2>5. m \in 1..N /\ m - 1 \in 0..N /\ ~(m <= m - 1) BY <1>1, <2>3, <2>4
    <2>6. Good(m - 1) BY <2>2, <2>5
    <2> QED BY <1>5, <2>3, <2>5, <2>6
  <1>7. Good(N) BY <1>1, <1>6
  <1>8. all[N] \in Collected /\ CollectedOf(all[N], text, N) BY <1>7 DEF Good
  <1> QED BY <1>2, <1>8 DEF N

LEMMA ChunksType ==
    ASSUME NEW text \in Seq(Chars)
    PROVE  Chunks(text) \in Seq(Seq(Chars)) /\ Chunks(text) # << >>
  <1>1. PICK acc \in Collected : Chunks(text) = Append(acc.done, acc.current) BY ChunksFact
  <1>2. acc.done \in Seq(Seq(Chars)) /\ acc.current \in Seq(Chars) BY DEF Collected
  <1> QED BY <1>1, <1>2

\* The chunks of a text are the text, cut: none is lost, repeated or out of order, and
\* none is empty or larger than the limit (_utf8_chunks, scripts.py 99-118).
THEOREM ChunksAreWhole ==
    ASSUME NEW text \in Seq(Chars), text # << >>
    PROVE  \E cut : Between(Chunks(text), cut, text) /\ Reach(cut) = Len(text)
  <1> DEFINE N == Len(text)
  <1>1. PICK acc \in Collected : Chunks(text) = Append(acc.done, acc.current)
                                 /\ CollectedOf(acc, text, N)
    BY ChunksFact
  <1>2. acc.done \in Seq(Seq(Chars)) /\ acc.current \in Seq(Chars) BY DEF Collected
  <1>3. N \in Nat /\ N > 0 OBVIOUS
  <1>4. PICK cut \in Seq(Nat) :
           /\ Between(acc.done, cut, text)
           /\ acc.current = SubSeq(text, Reach(cut) + 1, N)
           /\ N > 0 => Reach(cut) < N
    BY <1>1 DEF CollectedOf
  <1>5. Bytes(acc.current) <= ChunkLimit BY <1>1 DEF CollectedOf
  <1>6. N \in Nat /\ Reach(cut) < N /\ acc.current = SubSeq(text, Reach(cut) + 1, N)
        /\ Between(acc.done, cut, text)
    BY <1>3, <1>4
  <1> HIDE DEF N
  <1>7. /\ Between(Append(acc.done, acc.current), Append(cut, N), text)
        /\ Reach(Append(cut, N)) = N
    <2>1. Bytes(acc.current) \in Nat /\ Reach(cut) \in Nat
      BY <1>2, <1>4, BytesFact, ReachType
    <2> QED BY <1>2, <1>5, <1>6, <2>1, OneMore, ZenonT(60)
  <1> QED BY <1>1, <1>7 DEF N

-----------------------------------------------------------------------------
(* What the actions do, in the form that the invariants need. *)

Others(j) ==
    /\ job' \in [Jobs -> JobType] /\ \A i \in Jobs : i # j => job'[i] = job[i]

LEMMA BecomesFact ==
    ASSUME job \in [Jobs -> JobType], NEW j \in Jobs, NEW r \in JobType, 
           job' = [job EXCEPT ![j] = r]
    PROVE  Others(j) /\ job'[j] = r
  BY DEF Others

LEMMA ActiveFact ==
    ASSUME NEW j \in Jobs, job[j].pc \notin {"idle", "ok", "failed"}
    PROVE  ~Quiet
  BY DEF Quiet, Active, Ended

LEMMA QuietFact ==
    ASSUME Quiet
    PROVE  late = {} /\ \A j \in Jobs : job[j].pc \in {"idle", "ok", "failed"}
  BY DEF Quiet, Active, Ended

\* What the history of a step says when something was under way.
Since ==
    /\ calm' = calm /\ stray' \in BOOLEAN /\ spoilt' \in BOOLEAN /\ discarded' \in BOOLEAN
    /\ stray => stray'
    /\ spoilt => spoilt'
    /\ discarded => discarded'
    /\ met' \subseteq Jobs

LEMMA IdleType == Idle \in JobType
  <1>1. << >> \in Seq(Chars) /\ << >> \in Seq(Seq(Chars)) OBVIOUS
  <1>2. 0 \in 0..MaxReads BY UploadAssumption
  <1> QED BY <1>1, <1>2 DEF Idle, JobType, Phases

LEMMA SavedFact ==
    ASSUME TypeOK, NEW j \in Jobs, Saved(j)
    PROVE  /\ Others(j) /\ Since /\ job[j].pc = "save"
           /\ job'[j].pc = (IF job[j].does = "delete" THEN "ok" ELSE "status")
           /\ job'[j] = [job[j] EXCEPT !.pc = job'[j].pc]
           /\ UNCHANGED <<code, running, late, backups>>
           /\ \E k \in DOMAIN saving : disk' = saving[k].list
  <1> DEFINE pc == IF job[j].does = "delete" THEN "ok" ELSE "status"
             r == [job[j] EXCEPT !.pc = pc]
  <1>1. job \in [Jobs -> JobType] /\ job[j] \in JobType BY DEF TypeOK
  <1>2. job[j].pc = "save" BY DEF Saved
  <1>3. pc \in Phases BY DEF Phases, Ended
  <1> HIDE DEF pc
  <1>4. r \in JobType /\ r.pc = pc BY <1>1, <1>3 DEF JobType
  <1>5. job' = [job EXCEPT ![j] = r] BY DEF Saved, Becomes, pc
  <1> HIDE DEF r
  <1>6. Others(j) /\ job'[j] = r BY <1>1, <1>4, <1>5, BecomesFact
  <1>7. ~Quiet BY <1>2, ActiveFact
  <1>8. Since BY <1>7 DEF Saved, Remember, Since, TypeOK
  <1>9. /\ UNCHANGED <<code, running, late, backups>>
        /\ \E k \in DOMAIN saving : disk' = saving[k].list
    BY DEF Saved, device
  <1> QED BY <1>2, <1>4, <1>6, <1>8, <1>9 DEF pc, r

LEMMA StatusFact ==
    ASSUME TypeOK, NEW j \in Jobs, Status(j)
    PROVE  /\ Others(j) /\ Since /\ job[j].pc = "status"
           /\ job'[j] = [job[j] EXCEPT !.was = running, !.pc = IF running THEN "stop" ELSE "put"]
           /\ UNCHANGED <<code, running, late, backups, disk>>
  <1> DEFINE pc == IF running THEN "stop" ELSE "put"
             r == [job[j] EXCEPT !.was = running, !.pc = pc]
  <1>1. job \in [Jobs -> JobType] /\ job[j] \in JobType /\ running \in BOOLEAN BY DEF TypeOK
  <1>2. job[j].pc = "status" BY DEF Status
  <1>3. pc \in Phases
    <2>1. "stop" \in Phases /\ "put" \in Phases BY DEF Phases
    <2>2. CASE running BY <2>1, <2>2, Zenon
    <2>3. CASE ~running BY <2>1, <2>3, Zenon
    <2> QED BY <2>2, <2>3
  <1> HIDE DEF pc
  <1>4. r \in JobType BY <1>1, <1>3 DEF JobType
  <1>5. job' = [job EXCEPT ![j] = r] BY DEF Status, Becomes, pc
  <1> HIDE DEF r
  <1>6. Others(j) /\ job'[j] = r BY <1>1, <1>4, <1>5, BecomesFact
  <1>7. ~Quiet BY <1>2, ActiveFact
  <1>8. Since BY <1>7 DEF Status, Remember, Since, TypeOK
  <1>9. UNCHANGED <<code, running, late, backups, disk>> BY DEF Status, device, repository
  <1> QED BY <1>2, <1>6, <1>8, <1>9 DEF pc, r

\* The history of a step that may be the first after a calm.
Began ==
    /\ calm' = (IF Quiet THEN [code |-> code, running |-> running] ELSE calm)
    /\ stray' \in BOOLEAN /\ spoilt' \in BOOLEAN /\ discarded' \in BOOLEAN
    /\ ~Quiet /\ stray => stray'
    /\ ~Quiet /\ spoilt => spoilt'
    /\ ~Quiet /\ discarded => discarded'
    /\ met' \subseteq Jobs

LEMMA BeginFact ==
    ASSUME TypeOK, JobsInv, NEW j \in Jobs, NEW new \in JobType, NEW STATE isStray,
           isStray \in BOOLEAN,
           Begin(j, new, isStray)
    PROVE  /\ Others(j) /\ Began /\ job[j] = Idle /\ job'[j] = new
           /\ isStray => stray'
           /\ UNCHANGED <<code, running, late, backups, disk>>
  <1>1. job \in [Jobs -> JobType] BY DEF TypeOK
  <1>2. job[j].pc = "idle" BY DEF Begin
  <1>3. job' = [job EXCEPT ![j] = new] BY DEF Begin, Becomes
  <1>4. Others(j) /\ job'[j] = new BY <1>1, <1>3, BecomesFact
  <1>5. Active \cup {j} \in SUBSET Jobs /\ {} \in SUBSET Jobs BY DEF Active
  <1>6. Began
    <2>1. met' \subseteq Jobs BY <1>5 DEF Begin, Remember, TypeOK
    <2>2. /\ calm' = (IF Quiet THEN [code |-> code, running |-> running] ELSE calm)
          /\ stray' = ((~Quiet /\ stray) \/ isStray)
          /\ spoilt' = ((~Quiet /\ spoilt) \/ FALSE)
          /\ discarded' = ((~Quiet /\ discarded) \/ FALSE)
      BY DEF Begin, Remember
    <2> QED BY <2>1, <2>2, Zenon DEF Began
  <1>7. isStray => stray' BY DEF Begin, Remember
  <1>8. UNCHANGED <<code, running, late, backups, disk>> BY DEF Begin, device, repository
  <1>9. job[j] = Idle BY <1>2 DEF JobsInv, JobInv
  <1> QED BY <1>4, <1>6, <1>7, <1>8, <1>9

LEMMA UploadFact ==
    ASSUME TypeOK, JobsInv, NEW j \in Jobs, NEW text \in Texts, Upload(j, text)
    PROVE  /\ Others(j) /\ Began /\ job[j] = Idle
           /\ job'[j] = [Idle EXCEPT !.does = "upload", !.pc = "read", !.text = text,
                                     !.todo = Chunks(text)]
           /\ Chunks(text) # << >>
           /\ UNCHANGED <<code, running, late, backups, disk>>
  <1> DEFINE r == [Idle EXCEPT !.does = "upload", !.pc = "read", !.text = text,
                               !.todo = Chunks(text)]
  <1>1. text \in Seq(Chars) BY UploadAssumption
  <1>2. Chunks(text) \in Seq(Seq(Chars)) /\ Chunks(text) # << >> BY <1>1, ChunksType
  <1>3. "read" \in Phases BY DEF Phases
  <1>4. r \in JobType BY <1>1, <1>2, <1>3, IdleType DEF JobType
  <1>5. Begin(j, r, FALSE) BY DEF Upload
  <1> HIDE DEF r
  <1>6. /\ Others(j) /\ Began /\ job[j] = Idle /\ job'[j] = r
        /\ UNCHANGED <<code, running, late, backups, disk>>
    BY <1>4, <1>5, BeginFact
  <1> QED BY <1>2, <1>6 DEF r

LEMMA ControlFact ==
    ASSUME TypeOK, JobsInv, NEW j \in Jobs, NEW does \in {"start", "stop", "restart"},
           Control(j, does)
    PROVE  /\ Others(j) /\ Began /\ job[j] = Idle /\ stray'
           /\ job'[j] = [Idle EXCEPT !.does = does,
                                     !.pc = IF does = "start" THEN "start" ELSE "stop"]
           /\ UNCHANGED <<code, running, late, backups, disk>>
  <1> DEFINE r == [Idle EXCEPT !.does = does,
                               !.pc = IF does = "start" THEN "start" ELSE "stop"]
  <1>1. (IF does = "start" THEN "start" ELSE "stop") \in Phases BY DEF Phases
  <1>2. r \in JobType BY <1>1, IdleType DEF JobType
  <1>3. Begin(j, r, TRUE) BY DEF Control
  <1> HIDE DEF r
  <1>4. /\ Others(j) /\ Began /\ job[j] = Idle /\ job'[j] = r /\ stray'
        /\ UNCHANGED <<code, running, late, backups, disk>>
    BY <1>2, <1>3, BeginFact
  <1> QED BY <1>4 DEF r

LEMMA RemoveFact ==
    ASSUME NEW S, NEW s \in Seq(S), NEW k \in 1..Len(s)
    PROVE  RemoveAt(s, k) \in Seq(S) /\ Len(RemoveAt(s, k)) = Len(s) - 1
  <1>1. SubSeq(s, 1, k - 1) \in Seq(S) /\ Len(SubSeq(s, 1, k - 1)) = k - 1 OBVIOUS
  <1>2. SubSeq(s, k + 1, Len(s)) \in Seq(S) /\ Len(SubSeq(s, k + 1, Len(s))) = Len(s) - k
    OBVIOUS
  <1> DEFINE a == SubSeq(s, 1, k - 1)
             b == SubSeq(s, k + 1, Len(s))
  <1>3. RemoveAt(s, k) = a \o b BY DEF RemoveAt
  <1> HIDE DEF a, b
  <1>4. a \in Seq(S) /\ b \in Seq(S) /\ Len(a) = k - 1 /\ Len(b) = Len(s) - k
    BY <1>1, <1>2 DEF a, b
  <1>5. a \o b \in Seq(S) /\ Len(a \o b) = Len(a) + Len(b) BY <1>4
  <1> QED BY <1>3, <1>4, <1>5

LEMMA DeleteFact ==
    ASSUME TypeOK, JobsInv, NEW j \in Jobs, NEW id \in Jobs, Delete(j, id)
    PROVE  /\ Others(j) /\ Began /\ job[j] = Idle /\ discarded'
           /\ job'[j] = [Idle EXCEPT !.does = "delete", !.pc = "save"]
           /\ UNCHANGED <<code, running, late, disk>>
           /\ backups' \in Seq(Backups) /\ Len(backups') <= MaxBackups
  <1> DEFINE r == [Idle EXCEPT !.does = "delete", !.pc = "save"]
  <1>1. "save" \in Phases BY DEF Phases
  <1>2. r \in JobType BY <1>1, IdleType DEF JobType
  <1>3. job' = [job EXCEPT ![j] = r] BY DEF Delete, Becomes
  <1> HIDE DEF r
  <1>4. job \in [Jobs -> JobType] BY DEF TypeOK
  <1>5. Others(j) /\ job'[j] = r BY <1>2, <1>3, <1>4, BecomesFact
  <1>6. backups' \in Seq(Backups) /\ Len(backups') <= MaxBackups
    <2>1. PICK k \in DOMAIN backups : backups' = RemoveAt(backups, k) BY DEF Delete
    <2>2. backups \in Seq(Backups) /\ Len(backups) \in Nat /\ k \in 1..Len(backups)
          /\ Len(backups) <= MaxBackups
      BY <2>1 DEF TypeOK
    <2>3. RemoveAt(backups, k) \in Seq(Backups)
          /\ Len(RemoveAt(backups, k)) = Len(backups) - 1
      BY <2>2, RemoveFact
    <2> QED BY <2>1, <2>2, <2>3, UploadAssumption
  <1>7. Began /\ discarded'
    <2>1. met' \subseteq Jobs BY DEF Delete, Remember, TypeOK
    <2>2. /\ calm' = (IF Quiet THEN [code |-> code, running |-> running] ELSE calm)
          /\ stray' = ((~Quiet /\ stray) \/ FALSE)
          /\ spoilt' = ((~Quiet /\ spoilt) \/ FALSE)
          /\ discarded' = ((~Quiet /\ discarded) \/ TRUE)
      BY DEF Delete, Remember
    <2> QED BY <2>1, <2>2, Zenon DEF Began
  <1>8. UNCHANGED <<code, running, late, disk>> BY DEF Delete, device
  <1>9. job[j] = Idle BY DEF Delete, JobsInv, JobInv
  <1> QED BY <1>5, <1>6, <1>7, <1>8, <1>9 DEF r

LEMMA JobsFact == ASSUME NEW j \in Jobs PROVE MaxBackups >= 1
  <1>1. Cardinality(Jobs) \in Nat /\ MaxBackups \in Nat /\ Cardinality(Jobs) <= MaxBackups
    BY UploadAssumption, FS_CardinalityType
  <1>2. Cardinality(Jobs) # 0 BY UploadAssumption, FS_EmptySet
  <1> QED BY <1>1, <1>2

\* A backup is put behind the others, and at most the oldest one goes for it.
LEMMA AddedFact ==
    ASSUME backups \in Seq(Backups), Len(backups) <= MaxBackups, MaxBackups >= 1,
           NEW b \in Backups
    PROVE  /\ Added(b) \in Seq(Backups) /\ Len(Added(b)) <= MaxBackups
           /\ \E d \in {0, 1} :
                 /\ d = 1 => Len(backups) = MaxBackups
                 /\ Len(Added(b)) = Len(backups) + 1 - d
                 /\ \A k \in 1..Len(backups) : k - d >= 1 => Added(b)[k - d] = backups[k]
                 /\ Added(b)[Len(backups) + 1 - d] = b
  <1> DEFINE all == Append(backups, b)
             n == Len(backups)
             d == IF n + 1 > MaxBackups THEN 1 ELSE 0
  <1>1. n \in Nat /\ MaxBackups \in Nat /\ n <= MaxBackups BY UploadAssumption
  <1>2. /\ all \in Seq(Backups) /\ Len(all) = n + 1 /\ all[n + 1] = b
        /\ \A k \in 1..n : all[k] = backups[k]
    OBVIOUS
  <1> HIDE DEF all, n
  <1>3. d \in {0, 1} /\ (d = 1 => n = MaxBackups) /\ n + 1 - d <= MaxBackups BY <1>1
  <1>4. (IF Len(all) > MaxBackups THEN Len(all) - MaxBackups ELSE 0) = d BY <1>1, <1>2
  <1>5. Added(b) = SubSeq(all, 1 + d, n + 1)
    <2> HIDE DEF d
    <2> QED BY <1>2, <1>4 DEF Added, all
  <1> HIDE DEF d
  <1>6. SubSeq(all, 1 + d, n + 1) \in Seq(Backups)
        /\ Len(SubSeq(all, 1 + d, n + 1)) = n + 1 - d
        /\ \A i \in 1..(n + 1 - d) : SubSeq(all, 1 + d, n + 1)[i] = all[d + i]
    BY <1>1, <1>2, <1>3
  <1>7. ASSUME NEW k \in 1..n, k - d >= 1 PROVE Added(b)[k - d] = backups[k]
    <2>1. k - d \in 1..(n + 1 - d) /\ d + (k - d) = k BY <1>1, <1>3, <1>7
    <2>2. Added(b)[k - d] = all[d + (k - d)] BY <1>5, <1>6, <2>1
    <2> QED BY <1>2, <2>1, <2>2
  <1>8. Added(b)[n + 1 - d] = b
    <2>1. n + 1 - d \in 1..(n + 1 - d) /\ d + (n + 1 - d) = n + 1 BY <1>1, <1>3
    <2>2. Added(b)[n + 1 - d] = all[d + (n + 1 - d)] BY <1>5, <1>6, <2>1
    <2> QED BY <1>2, <2>1, <2>2
  <1>9. Added(b) \in Seq(Backups) /\ Len(Added(b)) = n + 1 - d BY <1>5, <1>6
  <1> QED BY <1>1, <1>3, <1>7, <1>8, <1>9 DEF n

\* One round of reading goes on, gives up, or ends; after it the code is backed up, or
\* compared with what was to be written.
ReadsOn(j, more) ==
    /\ job'[j] = [job[j] EXCEPT !.got = more, !.reads = @ + 1] /\ backups' = backups
ReadsInVain(j) ==
    /\ job'[j] = [job[j] EXCEPT !.pc = "failed"] /\ job[j].pc = "read" /\ backups' = backups
ReadToBackUp(j, more) ==
    /\ job[j].pc = "read" /\ From(code, Bytes(more)) = << >>
    /\ job'[j] = [job[j] EXCEPT !.pc = "save", !.got = << >>, !.reads = 0]
    /\ backups' = Added([id |-> j, code |-> more])
ReadToVerify(j, more) ==
    /\ job[j].pc = "verify" /\ backups' = backups
    /\ \E err \in BOOLEAN, pc \in {"start", "ok", "failed"} :
          /\ job'[j] = [job[j] EXCEPT !.err = err, !.pc = pc]
          /\ job[j].was <=> pc = "start"
    /\ ~spoilt' => more = job[j].text /\ From(code, Bytes(more)) = << >>

LEMMA FinallyFact ==
    ASSUME job \in [Jobs -> JobType], NEW j \in Jobs, NEW STATE err, err \in BOOLEAN,
           Finally(j, err)
    PROVE  /\ Others(j)
           /\ \E e \in BOOLEAN, pc \in {"start", "ok", "failed"} :
                 /\ job'[j] = [job[j] EXCEPT !.err = e, !.pc = pc]
                 /\ job[j].was <=> pc = "start"
  <1> DEFINE pc == IF MustStart(j) THEN "start" ELSE IF err THEN "failed" ELSE "ok"
             r == [job[j] EXCEPT !.err = err, !.pc = pc]
  <1>1. job[j] \in JobType /\ job[j].was \in BOOLEAN BY DEF JobType
  <1>2. pc \in {"start", "ok", "failed"} /\ (job[j].was <=> pc = "start")
    <2>1. CASE MustStart(j) BY <2>1, <1>1 DEF MustStart
    <2>2. CASE ~MustStart(j) /\ err BY <2>2, <1>1 DEF MustStart
    <2>3. CASE ~MustStart(j) /\ ~err BY <2>3, <1>1 DEF MustStart
    <2> QED BY <2>1, <2>2, <2>3
  <1>3. job' = [job EXCEPT ![j] = r] BY DEF Finally, Becomes
  <1> HIDE DEF pc
  <1>4. pc \in Phases BY <1>2 DEF Phases, Ended
  <1>5. r \in JobType BY <1>1, <1>4 DEF JobType
  <1> HIDE DEF r
  <1>6. Others(j) /\ job'[j] = r BY <1>3, <1>5, BecomesFact
  <1>7. job'[j] = [job[j] EXCEPT !.err = err, !.pc = pc] BY <1>6 DEF r
  <1>8. \E e \in BOOLEAN, p \in {"start", "ok", "failed"} :
           /\ job'[j] = [job[j] EXCEPT !.err = e, !.pc = p]
           /\ job[j].was <=> p = "start"
    <2>1. pc \in {"start", "ok", "failed"} BY <1>2
    <2> USE <2>1
    <2> WITNESS err \in BOOLEAN, pc \in {"start", "ok", "failed"}
    <2> QED BY <1>2, <1>7
  <1> QED BY <1>6, <1>8

LEMMA ReadEffect ==
    ASSUME TypeOK, NEW j \in Jobs, Read(j)
    PROVE  LET more == job[j].got \o Piece(code, Bytes(job[j].got))
           IN  /\ Others(j) /\ Since /\ job[j].pc \in {"read", "verify"}
               /\ UNCHANGED <<code, running, late, disk>>
               /\ more \in Seq(Chars)
               /\ \/ ReadsOn(j, more) \/ ReadsInVain(j) \/ ReadToBackUp(j, more)
                  \/ ReadToVerify(j, more)
  <1> DEFINE got == job[j].got
             more == got \o Piece(code, Bytes(got))
             left == From(code, Bytes(more)) # << >>
  <1>1. job \in [Jobs -> JobType] /\ job[j] \in JobType /\ code \in Seq(Chars) BY DEF TypeOK
  <1>2. got \in Seq(Chars) BY <1>1 DEF JobType
  <1> HIDE DEF got
  <1>3. more \in Seq(Chars) BY <1>1, <1>2, ReadFact
  <1>4. job[j].pc \in {"read", "verify"} BY DEF Read
  <1>5. ~Quiet BY <1>4, ActiveFact
  <1>6. UNCHANGED <<code, running, late, disk>> BY DEF Read, device
  <1> HIDE DEF more
  <1>7. CASE /\ job[j].reads + 1 < MaxReads
             /\ Becomes(j, [job[j] EXCEPT !.got = more, !.reads = @ + 1])
             /\ Remember(FALSE, FALSE, FALSE, {}) /\ UNCHANGED backups
    <2> DEFINE r == [job[j] EXCEPT !.got = more, !.reads = @ + 1]
    <2>1. job[j].reads + 1 \in 0..MaxReads
      <3>1. job[j].reads \in Nat /\ MaxReads \in Nat BY <1>1, UploadAssumption DEF JobType
      <3> QED BY <1>7, <3>1
    <2>2. r \in JobType BY <1>1, <1>3, <2>1 DEF JobType
    <2>3. job' = [job EXCEPT ![j] = r] BY <1>7 DEF Becomes
    <2> HIDE DEF r
    <2>4. Others(j) /\ job'[j] = r BY <1>1, <2>2, <2>3, BecomesFact
    <2>5. ReadsOn(j, more) BY <1>7, <2>4 DEF ReadsOn, r
    <2>6. Since BY <1>5, <1>7 DEF Remember, Since, TypeOK
    <2> QED BY <1>3, <1>4, <1>6, <2>4, <2>5, <2>6 DEF more, got
  <1>8. CASE /\ job[j].pc # "verify" /\ Becomes(j, [job[j] EXCEPT !.pc = "failed"])
             /\ Remember(FALSE, job[j].pc = "verify", FALSE, {}) /\ UNCHANGED backups
    <2> DEFINE r == [job[j] EXCEPT !.pc = "failed"]
    <2>1. "failed" \in Phases BY DEF Phases, Ended
    <2>2. r \in JobType BY <1>1, <2>1 DEF JobType
    <2>3. job' = [job EXCEPT ![j] = r] BY <1>8 DEF Becomes
    <2> HIDE DEF r
    <2>4. Others(j) /\ job'[j] = r BY <1>1, <2>2, <2>3, BecomesFact
    <2>5. ReadsInVain(j) BY <1>4, <1>8, <2>4 DEF ReadsInVain, r
    <2>6. Since BY <1>5, <1>8 DEF Remember, Since, TypeOK
    <2> QED BY <1>3, <1>4, <1>6, <2>4, <2>5, <2>6 DEF more, got
  <1>9. CASE /\ job[j].pc = "verify" /\ Finally(j, TRUE)
             /\ Remember(FALSE, job[j].pc = "verify", FALSE, {}) /\ UNCHANGED backups
    <2>1. Others(j) /\ \E e \in BOOLEAN, pc \in {"start", "ok", "failed"} :
                          /\ job'[j] = [job[j] EXCEPT !.err = e, !.pc = pc]
                          /\ job[j].was <=> pc = "start"
      BY <1>1, <1>9, FinallyFact, Zenon
    <2>2. spoilt' BY <1>9 DEF Remember
    <2>3. ReadToVerify(j, more) BY <1>9, <2>1, <2>2 DEF ReadToVerify
    <2>4. Since BY <1>5, <1>9 DEF Remember, Since, TypeOK
    <2> QED BY <1>3, <1>4, <1>6, <2>1, <2>3, <2>4 DEF more, got
  <1>10. CASE /\ ~left /\ job[j].pc = "read"
              /\ backups' = Added([id |-> j, code |-> more])
              /\ Becomes(j, [job[j] EXCEPT !.pc = "save", !.got = << >>, !.reads = 0])
              /\ Remember(FALSE, FALSE, FALSE, {})
    <2> DEFINE r == [job[j] EXCEPT !.pc = "save", !.got = << >>, !.reads = 0]
    <2>1. "save" \in Phases /\ << >> \in Seq(Chars) /\ 0 \in 0..MaxReads
      BY UploadAssumption DEF Phases
    <2>2. r \in JobType BY <1>1, <2>1 DEF JobType
    <2>3. job' = [job EXCEPT ![j] = r] BY <1>10 DEF Becomes
    <2> HIDE DEF r
    <2>4. Others(j) /\ job'[j] = r BY <1>1, <2>2, <2>3, BecomesFact
    <2>5. ReadToBackUp(j, more) BY <1>10, <2>4 DEF ReadToBackUp, r
    <2>6. Since BY <1>5, <1>10 DEF Remember, Since, TypeOK
    <2> QED BY <1>3, <1>4, <1>6, <2>4, <2>5, <2>6 DEF more, got
  <1>11. CASE /\ ~left /\ job[j].pc = "verify"
              /\ Finally(j, ~Matches(j, more))
              /\ Remember(FALSE, ~Matches(j, more), FALSE, {}) /\ UNCHANGED backups
    <2>1. Others(j) /\ \E e \in BOOLEAN, pc \in {"start", "ok", "failed"} :
                          /\ job'[j] = [job[j] EXCEPT !.err = e, !.pc = pc]
                          /\ job[j].was <=> pc = "start"
      <3>1. (~Matches(j, more)) \in BOOLEAN OBVIOUS
      <3> QED BY <1>1, <1>11, <3>1, FinallyFact, Zenon
    <2>2. ~Matches(j, more) => spoilt' BY <1>11 DEF Remember
    <2>3. ReadToVerify(j, more) BY <1>11, <2>1, <2>2 DEF ReadToVerify, Matches
    <2>4. Since BY <1>5, <1>11 DEF Remember, Since, TypeOK
    <2> QED BY <1>3, <1>4, <1>6, <2>1, <2>3, <2>4 DEF more, got
  <1> QED
    <2>1. \/ /\ left /\ job[j].reads + 1 < MaxReads
             /\ Becomes(j, [job[j] EXCEPT !.got = more, !.reads = @ + 1])
             /\ Remember(FALSE, FALSE, FALSE, {}) /\ UNCHANGED backups
          \/ /\ left /\ job[j].reads + 1 = MaxReads
             /\ IF job[j].pc = "verify" THEN Finally(j, TRUE)
                ELSE Becomes(j, [job[j] EXCEPT !.pc = "failed"])
             /\ Remember(FALSE, job[j].pc = "verify", FALSE, {}) /\ UNCHANGED backups
          \/ /\ ~left /\ job[j].pc = "read"
             /\ backups' = Added([id |-> j, code |-> more])
             /\ Becomes(j, [job[j] EXCEPT !.pc = "save", !.got = << >>, !.reads = 0])
             /\ Remember(FALSE, FALSE, FALSE, {})
          \/ /\ ~left /\ job[j].pc = "verify"
             /\ Finally(j, ~Matches(j, more))
             /\ Remember(FALSE, ~Matches(j, more), FALSE, {}) /\ UNCHANGED backups
      BY Zenon DEF Read, more, got
    <2> HIDE DEF left
    <2> QED BY <1>7, <1>8, <1>9, <1>10, <1>11, <2>1, Zenon DEF left

\* A call on the script: what it asks for, and what its execution does.
LEMMA RequestFact ==
    ASSUME TypeOK, JobsInv, NEW j \in Jobs, job[j].pc \in {"stop", "put", "start"}
    PROVE  /\ Request(j) \in Commands
           /\ Request(j).op = job[j].pc
           /\ job[j].pc = "put" => Request(j).text \in Seq(Chars)
  <1>1. job[j] \in JobType BY DEF TypeOK
  <1>2. job[j].todo \in Seq(Seq(Chars)) BY <1>1 DEF JobType
  <1>3. CASE job[j].pc = "put"
    <2>1. job[j].todo # << >>
      <3>1. JobInv(j) BY DEF JobsInv
      <3> QED BY <1>3, <3>1 DEF JobInv
    <2>2. Head(job[j].todo) \in Seq(Chars) BY <1>2, <2>1
    <2>3. (job[j].todo # Chunks(job[j].text)) \in BOOLEAN OBVIOUS
    <2>4. Request(j) = [op |-> "put", text |-> Head(job[j].todo),
                        append |-> job[j].todo # Chunks(job[j].text)]
      BY <1>3 DEF Request
    <2> QED BY <1>3, <2>2, <2>3, <2>4 DEF Commands
  <1>4. CASE job[j].pc # "put"
    <2>1. Request(j) = [op |-> job[j].pc] BY <1>4 DEF Request
    <2> QED BY <1>4, <2>1 DEF Commands
  <1> QED BY <1>3, <1>4

LEMMA ExecuteFact ==
    ASSUME TypeOK, NEW cmd \in Commands, Execute(cmd)
    PROVE  /\ code' \in Seq(Chars) /\ running' \in BOOLEAN
           /\ cmd.op = "put" => running' = running
           /\ cmd.op # "put" => code' = code
           /\ cmd.op = "stop" => ~running'
           /\ cmd.op = "start" => running'
  <1>1. code \in Seq(Chars) /\ running \in BOOLEAN BY DEF TypeOK
  <1>2. CASE cmd.op = "put"
    <2>1. cmd.text \in Seq(Chars) BY <1>2 DEF Commands
    <2>2. code' = (IF cmd.append THEN code \o cmd.text ELSE cmd.text) /\ running' = running
      BY <1>2 DEF Execute
    <2>3. code \o cmd.text \in Seq(Chars) BY <1>1, <2>1
    <2> QED BY <1>1, <1>2, <2>1, <2>2, <2>3
  <1>3. CASE cmd.op # "put"
    <2>1. running' = (cmd.op = "start") /\ code' = code BY <1>3 DEF Execute
    <2> QED BY <1>1, <1>3, <2>1
  <1> QED BY <1>2, <1>3

\* The job after its call was answered.
Answer(j) ==
    LET o == job[j]  n == job'[j] IN
    \/ /\ o.pc = "stop"
       /\ \E pc \in {"put", "start", "ok"} :
             /\ n = [o EXCEPT !.pc = pc]
             /\ o.does = "upload" <=> pc = "put"
             /\ pc = "start" => o.does = "restart"
    \/ /\ o.pc = "put"
       /\ \E pc \in {"put", "verify"} :
             /\ n = [o EXCEPT !.todo = Tail(@), !.pc = pc]
             /\ pc = "put" => n.todo # << >>
    \/ /\ o.pc = "start"
       /\ \E pc \in {"ok", "failed"} :
             /\ n = [o EXCEPT !.pc = pc]
             /\ pc = "failed" => o.err

LEMMA AnsweredFact ==
    ASSUME TypeOK, JobsInv, NEW j \in Jobs, Answered(j)
    PROVE  /\ Others(j) /\ Since /\ Answer(j) /\ Execute(Request(j))
           /\ UNCHANGED <<late, backups, disk>>
  <1>1. job \in [Jobs -> JobType] /\ job[j] \in JobType BY DEF TypeOK
  <1>2. job[j].pc \in {"stop", "put", "start"} BY DEF Answered
  <1>3. ~Quiet BY <1>2, ActiveFact
  <1>4. Since BY <1>3 DEF Answered, Remember, Since, TypeOK
  <1>5. Execute(Request(j)) /\ UNCHANGED <<late, backups, disk>> BY DEF Answered, repository
  <1>6. CASE job[j].pc = "stop"
    <2> DEFINE pc == CASE job[j].does = "upload" -> "put"
                       [] job[j].does = "restart" -> "start"
                       [] OTHER -> "ok"
               r == [job[j] EXCEPT !.pc = pc]
    <2>1. /\ pc \in {"put", "start", "ok"}
          /\ job[j].does = "upload" <=> pc = "put"
          /\ pc = "start" => job[j].does = "restart"
      OBVIOUS
    <2>2. job' = [job EXCEPT ![j] = r] BY <1>6 DEF Answered, Becomes
    <2> HIDE DEF pc
    <2>3. pc \in Phases BY <2>1 DEF Phases, Ended
    <2>4. r \in JobType BY <1>1, <2>3 DEF JobType
    <2> HIDE DEF r
    <2>5. Others(j) /\ job'[j] = r BY <1>1, <2>2, <2>4, BecomesFact
    <2>6. Answer(j) BY <1>6, <2>1, <2>5 DEF Answer, r
    <2> QED BY <1>4, <1>5, <2>5, <2>6
  <1>7. CASE job[j].pc = "put"
    <2> DEFINE todo == job[j].todo
               pc == IF Len(todo) = 1 THEN "verify" ELSE "put"
               r == [job[j] EXCEPT !.todo = Tail(@), !.pc = pc]
    <2>1. todo \in Seq(Seq(Chars)) /\ todo # << >>
      <3>1. JobInv(j) BY DEF JobsInv
      <3> QED BY <1>1, <1>7, <3>1 DEF JobInv, JobType
    <2>2. job' = [job EXCEPT ![j] = r] BY <1>7 DEF Answered, Becomes
    <2> HIDE DEF todo
    <2>3. Tail(todo) \in Seq(Seq(Chars)) /\ Len(Tail(todo)) = Len(todo) - 1 /\ Len(todo) \in Nat
      BY <2>1
    <2>4. pc \in {"put", "verify"} /\ (pc = "put" => Tail(todo) # << >>)
      <3>1. CASE Len(todo) = 1 BY <3>1
      <3>2. CASE Len(todo) # 1
        <4>1. Len(Tail(todo)) # 0 BY <2>3, <3>2
        <4>2. Len(<< >>) = 0 OBVIOUS
        <4>3. Tail(todo) # << >> BY <4>1, <4>2
        <4> QED BY <3>2, <4>3
      <3> QED BY <3>1, <3>2
    <2> HIDE DEF pc
    <2>5. pc \in Phases BY <2>4 DEF Phases
    <2>6. r \in JobType /\ r.todo = Tail(todo) BY <1>1, <2>3, <2>5 DEF JobType, todo
    <2>7. r = [job[j] EXCEPT !.todo = Tail(@), !.pc = pc] OBVIOUS
    <2> HIDE DEF r
    <2>8. Others(j) /\ job'[j] = r BY <1>1, <2>2, <2>6, BecomesFact
    <2>9. Answer(j) BY <1>7, <2>4, <2>6, <2>7, <2>8 DEF Answer
    <2> QED BY <1>4, <1>5, <2>8, <2>9
  <1>8. CASE job[j].pc = "start"
    <2> DEFINE pc == IF job[j].err THEN "failed" ELSE "ok"
               r == [job[j] EXCEPT !.pc = pc]
    <2>1. pc \in {"ok", "failed"} /\ (pc = "failed" => job[j].err) OBVIOUS
    <2>2. job' = [job EXCEPT ![j] = r] BY <1>8 DEF Answered, Becomes
    <2> HIDE DEF pc
    <2>3. pc \in Phases BY <2>1 DEF Phases, Ended
    <2>4. r \in JobType BY <1>1, <2>3 DEF JobType
    <2> HIDE DEF r
    <2>5. Others(j) /\ job'[j] = r BY <1>1, <2>2, <2>4, BecomesFact
    <2>6. Answer(j) BY <1>8, <2>1, <2>5 DEF Answer, r
    <2> QED BY <1>4, <1>5, <2>5, <2>6
  <1> QED BY <1>2, <1>6, <1>7, <1>8

\* Whatever is answered, a job keeps its command and text, and does not fail by it.
LEMMA AnswerKeeps ==
    ASSUME TypeOK, NEW j \in Jobs, Answer(j)
    PROVE  /\ job'[j].does = job[j].does /\ job'[j].text = job[j].text
           /\ job'[j].pc \in {"put", "start", "ok", "verify", "failed"}
           /\ ~job[j].err => ~job'[j].err /\ job'[j].pc # "failed"
  <1> DEFINE o == job[j]
             n == job'[j]
             Same == n.does = o.does /\ n.text = o.text /\ n.err = o.err
  <1>1. o \in JobType BY DEF TypeOK
  <1>2. \/ \E pc \in {"put", "start", "ok"} : n = [o EXCEPT !.pc = pc]
        \/ \E pc \in {"put", "verify"} : n = [o EXCEPT !.todo = Tail(@), !.pc = pc]
        \/ \E pc \in {"ok", "failed"} :
              n = [o EXCEPT !.pc = pc] /\ (pc = "failed" => o.err)
    BY Zenon DEF Answer
  <1> HIDE DEF o, n
  <1>3. ASSUME NEW pc, n = [o EXCEPT !.pc = pc] PROVE Same /\ n.pc = pc
    BY <1>1, <1>3 DEF JobType
  <1>4. ASSUME NEW pc, n = [o EXCEPT !.todo = Tail(@), !.pc = pc] PROVE Same /\ n.pc = pc
    BY <1>1, <1>4 DEF JobType
  <1>5. /\ Same /\ n.pc \in {"put", "start", "ok", "verify", "failed"}
        /\ n.pc = "failed" => o.err
    BY <1>2, <1>3, <1>4
  <1> QED BY <1>5, Zenon DEF o, n

\* The job after its call failed, and what is left of the call.
LEMMA CallFailsFact ==
    ASSUME TypeOK, JobsInv, NEW j \in Jobs, CallFails(j)
    PROVE  /\ Others(j) /\ Since
           /\ job[j].pc \in {"read", "status", "stop", "put", "verify", "start"}
           /\ \E e \in BOOLEAN, pc \in {"start", "ok", "failed"} :
                 /\ job'[j] = [job[j] EXCEPT !.err = e, !.pc = pc]
                 /\ pc = "start" => job[j].was
                 /\ job[j].pc \in {"put", "verify"} /\ job[j].was => pc = "start"
           /\ job[j].pc \in {"stop", "start"} => stray'
           /\ job[j].pc \in {"put", "verify"} => spoilt'
           /\ UNCHANGED <<code, running, backups, disk>>
           /\ \/ late' = late
              \/ late' = late \cup {Request(j)} /\ job[j].pc \in {"stop", "put", "start"}
  <1>1. job \in [Jobs -> JobType] /\ job[j] \in JobType BY DEF TypeOK
  <1>2. job[j].pc \in {"read", "status", "stop", "put", "verify", "start"} BY DEF CallFails
  <1>3. ~Quiet BY <1>2, ActiveFact
  <1>4. Since BY <1>3 DEF CallFails, Remember, Since, TypeOK
  <1>5. /\ job[j].pc \in {"stop", "start"} => stray'
        /\ job[j].pc \in {"put", "verify"} => spoilt'
    BY Zenon DEF CallFails, Remember
  <1>6. /\ UNCHANGED <<code, running, backups, disk>>
        /\ \/ late' = late
           \/ late' = late \cup {Request(j)} /\ job[j].pc \in {"stop", "put", "start"}
    BY DEF CallFails, repository
  <1>7. CASE job[j].pc \in {"put", "verify"}
    <2>1. Finally(j, TRUE) BY <1>7 DEF CallFails
    <2>2. /\ Others(j)
          /\ \E e \in BOOLEAN, pc \in {"start", "ok", "failed"} :
                /\ job'[j] = [job[j] EXCEPT !.err = e, !.pc = pc]
                /\ job[j].was <=> pc = "start"
      BY <1>1, <2>1, FinallyFact, Zenon
    <2>3. \E e \in BOOLEAN, pc \in {"start", "ok", "failed"} :
             /\ job'[j] = [job[j] EXCEPT !.err = e, !.pc = pc]
             /\ pc = "start" => job[j].was
             /\ job[j].pc \in {"put", "verify"} /\ job[j].was => pc = "start"
      BY <2>2
    <2> QED BY <1>2, <1>4, <1>5, <1>6, <2>2, <2>3
  <1>8. CASE job[j].pc \notin {"put", "verify"}
    <2> DEFINE r == [job[j] EXCEPT !.pc = "failed"]
    <2>1. "failed" \in Phases BY DEF Phases, Ended
    <2>2. r \in JobType BY <1>1, <2>1 DEF JobType
    <2>3. job' = [job EXCEPT ![j] = r] BY <1>8 DEF CallFails, Becomes
    <2>4. job[j].err \in BOOLEAN /\ r = [job[j] EXCEPT !.err = job[j].err, !.pc = "failed"]
      BY <1>1 DEF JobType
    <2> HIDE DEF r
    <2>5. Others(j) /\ job'[j] = r BY <1>1, <2>2, <2>3, BecomesFact
    <2>6. \E e \in BOOLEAN, pc \in {"start", "ok", "failed"} :
             /\ job'[j] = [job[j] EXCEPT !.err = e, !.pc = pc]
             /\ pc = "start" => job[j].was
             /\ job[j].pc \in {"put", "verify"} /\ job[j].was => pc = "start"
      BY <1>8, <2>4, <2>5
    <2> QED BY <1>2, <1>4, <1>5, <1>6, <2>5, <2>6
  <1> QED BY <1>7, <1>8, Zenon

LEMMA LateFact ==
    ASSUME TypeOK, NEW cmd \in late, LateExecutes(cmd) \/ LateLost(cmd)
    PROVE  /\ Since /\ late' = late \ {cmd} /\ UNCHANGED <<backups, disk, job>>
           /\ Execute(cmd) \/ UNCHANGED <<code, running>>
  <1>1. ~Quiet BY DEF Quiet
  <1>2. Active \in SUBSET Jobs BY DEF Active
  <1>3. CASE LateExecutes(cmd)
    BY <1>1, <1>2, <1>3 DEF LateExecutes, Remember, Since, TypeOK, repository
  <1>4. CASE LateLost(cmd)
    BY <1>1, <1>4 DEF LateLost, Remember, Since, TypeOK, repository
  <1> QED BY <1>3, <1>4

LEMMA RestartFact ==
    ASSUME TypeOK, Restart
    PROVE  /\ Since /\ stray' /\ spoilt' /\ backups' = disk'
           /\ disk' = disk \/ \E k \in DOMAIN saving : disk' = saving[k].list
           /\ UNCHANGED <<code, running, late>>
           /\ job' \in [Jobs -> JobType]
           /\ \A j \in Jobs :
                 \/ job[j].pc \in {"idle", "ok", "failed"} /\ job'[j] = job[j]
                 \/ /\ job[j].pc \notin {"idle", "ok", "failed"}
                    /\ job'[j] = [job[j] EXCEPT !.pc = "failed"]
  <1>1. ~Quiet BY DEF Restart, Quiet
  <1>2. Active \in SUBSET Jobs BY DEF Active
  <1>3. Since /\ stray' /\ spoilt'
    <2>1. /\ calm' = (IF Quiet THEN [code |-> code, running |-> running] ELSE calm)
          /\ stray' = ((~Quiet /\ stray) \/ TRUE)
          /\ spoilt' = ((~Quiet /\ spoilt) \/ TRUE)
          /\ discarded' = ((~Quiet /\ discarded) \/ FALSE)
      BY DEF Restart, Remember
    <2>2. met' \subseteq Jobs BY <1>2 DEF Restart, Remember, TypeOK
    <2> QED BY <1>1, <2>1, <2>2, Zenon DEF Since
  <1>4. /\ backups' = disk' /\ UNCHANGED <<code, running, late>>
        /\ disk' = disk \/ \E k \in DOMAIN saving : disk' = saving[k].list
    BY DEF Restart, device
  <1>5. \A j \in Jobs : job[j] \in JobType BY DEF TypeOK
  <1>6. "failed" \in Phases BY DEF Phases, Ended
  <1>7. \A j \in Jobs : [job[j] EXCEPT !.pc = "failed"] \in JobType
    BY <1>5, <1>6 DEF JobType
  <1>8. job' = [j \in Jobs |-> IF j \in Active THEN [job[j] EXCEPT !.pc = "failed"]
                               ELSE job[j]]
    BY DEF Restart
  <1>9. job' \in [Jobs -> JobType]
    <2> HIDE DEF JobType
    <2> QED BY <1>5, <1>7, <1>8
  <1>10. \A j \in Jobs : j \in Active <=> job[j].pc \notin {"idle", "ok", "failed"}
    BY DEF Active, Ended
  <1>11. \A j \in Jobs :
            \/ job[j].pc \in {"idle", "ok", "failed"} /\ job'[j] = job[j]
            \/ /\ job[j].pc \notin {"idle", "ok", "failed"}
               /\ job'[j] = [job[j] EXCEPT !.pc = "failed"]
    BY <1>8, <1>10
  <1> QED BY <1>3, <1>4, <1>9, <1>11

\* What becomes of the saves under way: nothing, one more is asked for, the first one
\* ends, or Home Assistant stops.
Waits == \A i \in Jobs : job[i].pc = "save" => job'[i].pc = "save"
SavesOn == saving' = saving /\ Waits
Asked(j) ==
    /\ job[j].pc # "save" /\ job'[j].pc = "save" /\ Waits
    /\ saving' = Append(saving, [by |-> j, list |-> backups'])
    /\ discarded' \/ job'[j].does = "upload"
Written(j) ==
    saving # << >> /\ Head(saving).by = j /\ saving' = Tail(saving) /\ Others(j)

LEMMA WaitsFact ==
    ASSUME NEW j \in Jobs, Others(j), job[j].pc # "save"
    PROVE  Waits
  BY DEF Waits, Others

LEMMA SavingEffect ==
    ASSUME TypeOK, JobsInv, [Next]_vars
    PROVE  \/ SavesOn \/ saving' = << >>
           \/ \E j \in Jobs : Asked(j) \/ Written(j)
  <1> DEFINE Goal == \/ SavesOn \/ saving' = << >>
                     \/ \E j \in Jobs : Asked(j) \/ Written(j)
  <1> SUFFICES Goal OBVIOUS
  <1>t. \A j \in Jobs : job[j] \in JobType BY DEF TypeOK
  <1>i. \A j \in Jobs : JobInv(j) BY DEF JobsInv
  <1>1. ASSUME NEW j \in Jobs, NEW text \in Texts, Upload(j, text) PROVE Goal
    <2>1. Others(j) /\ job[j] = Idle BY <1>1, UploadFact
    <2>2. saving' = saving BY <1>1 DEF Upload, Begin, repository
    <2>3. job[j].pc # "save" BY <2>1 DEF Idle
    <2> QED BY <2>1, <2>2, <2>3, WaitsFact DEF SavesOn
  <1>2. ASSUME NEW j \in Jobs, NEW does \in {"start", "stop", "restart"}, Control(j, does)
        PROVE  Goal
    <2>1. Others(j) /\ job[j] = Idle BY <1>2, ControlFact
    <2>2. saving' = saving BY <1>2 DEF Control, Begin, repository
    <2>3. job[j].pc # "save" BY <2>1 DEF Idle
    <2> QED BY <2>1, <2>2, <2>3, WaitsFact DEF SavesOn
  <1>3. ASSUME NEW j \in Jobs, NEW id \in Jobs, Delete(j, id) PROVE Goal
    <2>1. /\ Others(j) /\ job[j] = Idle /\ discarded'
          /\ job'[j] = [Idle EXCEPT !.does = "delete", !.pc = "save"]
      BY <1>3, DeleteFact
    <2>2. saving' = Append(saving, [by |-> j, list |-> backups']) BY <1>3 DEF Delete, Asks
    <2>3. job[j].pc # "save" /\ job'[j].pc = "save" BY <2>1 DEF Idle
    <2>4. Asked(j) BY <2>1, <2>2, <2>3, WaitsFact DEF Asked
    <2> QED BY <2>4
  <1>4. ASSUME NEW j \in Jobs, Saved(j) PROVE Goal
    <2>1. Others(j) BY <1>4, SavedFact
    <2>2. saving # << >> /\ Head(saving).by = j /\ saving' = Tail(saving) BY <1>4 DEF Saved
    <2>3. Written(j) BY <2>1, <2>2 DEF Written
    <2> QED BY <2>3
  <1>5. ASSUME NEW j \in Jobs, Read(j) PROVE Goal
    <2> DEFINE more == job[j].got \o Piece(code, Bytes(job[j].got))
    <2>1. /\ Others(j) /\ job[j].pc \in {"read", "verify"}
          /\ \/ ReadsOn(j, more) \/ ReadsInVain(j) \/ ReadToBackUp(j, more)
             \/ ReadToVerify(j, more)
      BY <1>5, ReadEffect
    <2> HIDE DEF more
    <2>2. Waits BY <2>1, WaitsFact
    <2>3. saving' = saving
          \/ /\ saving' = Append(saving, [by |-> j, list |-> backups'])
             /\ job[j].pc = "read" /\ job' = [job EXCEPT ![j] =
                                    [job[j] EXCEPT !.pc = "save", !.got = << >>, !.reads = 0]]
      BY <1>5, Zenon DEF Read, Asks, Becomes
    <2>4. CASE saving' = saving BY <2>2, <2>4 DEF SavesOn
    <2>5. CASE /\ saving' = Append(saving, [by |-> j, list |-> backups'])
               /\ job[j].pc = "read" /\ job' = [job EXCEPT ![j] =
                                    [job[j] EXCEPT !.pc = "save", !.got = << >>, !.reads = 0]]
      <3>1. job'[j] = [job[j] EXCEPT !.pc = "save", !.got = << >>, !.reads = 0]
        BY <2>5 DEF TypeOK
      <3>2. job'[j].pc = "save" /\ job'[j].does = job[j].does BY <1>t, <3>1 DEF JobType
      <3>3. job[j].does = "upload" BY <1>i, <2>5 DEF JobInv
      <3>4. Asked(j) BY <2>2, <2>5, <3>2, <3>3 DEF Asked
      <3> QED BY <3>4
    <2> QED BY <2>3, <2>4, <2>5
  <1>6. ASSUME NEW j \in Jobs, Status(j) PROVE Goal
    <2>1. Others(j) /\ job[j].pc = "status" BY <1>6, StatusFact
    <2>2. saving' = saving BY <1>6 DEF Status, repository
    <2> QED BY <2>1, <2>2, WaitsFact DEF SavesOn
  <1>7. ASSUME NEW j \in Jobs, Answered(j) PROVE Goal
    <2>1. Others(j) BY <1>7, AnsweredFact
    <2>2. saving' = saving /\ job[j].pc # "save" BY <1>7 DEF Answered, repository
    <2> QED BY <2>1, <2>2, WaitsFact DEF SavesOn
  <1>8. ASSUME NEW j \in Jobs, CallFails(j) PROVE Goal
    <2>1. Others(j) BY <1>8, CallFailsFact
    <2>2. saving' = saving /\ job[j].pc # "save" BY <1>8 DEF CallFails, repository
    <2> QED BY <2>1, <2>2, WaitsFact DEF SavesOn
  <1>9. ASSUME NEW cmd \in late, LateExecutes(cmd) \/ LateLost(cmd) PROVE Goal
    BY <1>9 DEF LateExecutes, LateLost, repository, SavesOn, Waits
  <1>10. CASE Restart
    BY <1>10 DEF Restart
  <1>11. CASE UNCHANGED vars
    BY <1>11 DEF vars, repository, SavesOn, Waits
  <1> HIDE DEF Goal
  <1> QED
    BY <1>1, <1>2, <1>3, <1>4, <1>5, <1>6, <1>7, <1>8, <1>9, <1>10, <1>11, Zenon DEF Next

-----------------------------------------------------------------------------
(* Types. *)

\* What is on its way to the file.
SavingType ==
    saving \in Seq(Saves) /\ \A k \in DOMAIN saving : Len(saving[k].list) <= MaxBackups

LEMMA SavingFact ==
    ASSUME SavingType, NEW k \in DOMAIN saving
    PROVE  /\ k \in 1..Len(saving) /\ Len(saving) \in Nat /\ saving[k].by \in Jobs
           /\ saving[k].list \in Seq(Backups) /\ Len(saving[k].list) <= MaxBackups
  <1>1. saving \in Seq(Saves) /\ k \in 1..Len(saving) /\ Len(saving) \in Nat BY DEF SavingType
  <1>2. saving[k] \in Saves BY <1>1
  <1> HIDE DEF Saves
  <1>3. saving[k].by \in Jobs /\ saving[k].list \in Seq(Backups) BY <1>2 DEF Saves
  <1> QED BY <1>1, <1>3 DEF SavingType

LEMMA InitType == Init => TypeOK
  <1> SUFFICES ASSUME Init PROVE TypeOK OBVIOUS
  <1> DEFINE start == [k \in 1..MaxBackups |-> [id |-> Earlier, code |-> << >>]]
  <1>1. code \in Seq(Chars) /\ running \in BOOLEAN /\ late \subseteq Commands
    BY UploadAssumption DEF Init
  <1>2. start \in Seq(Backups) /\ Len(start) <= MaxBackups
    <2>1. << >> \in Seq(Chars) OBVIOUS
    <2>2. [id |-> Earlier, code |-> << >>] \in Backups BY <2>1 DEF Backups
    <2>3. MaxBackups \in Nat BY UploadAssumption
    <2>4. start \in [1..MaxBackups -> Backups] BY <2>2
    <2> HIDE DEF start
    <2>5. start \in Seq(Backups) BY <2>3, <2>4
    <2>6. Len(start) = MaxBackups BY <2>3, <2>4, <2>5
    <2> QED BY <2>3, <2>5, <2>6
  <1>3. backups = start /\ disk = start BY DEF Init
  <1>7. saving \in Seq(Saves) /\ \A k \in DOMAIN saving : Len(saving[k].list) <= MaxBackups
    <2>1. saving = << >> BY DEF Init
    <2> QED BY <2>1
  <1>4. job \in [Jobs -> JobType] BY IdleType DEF Init
  <1>5. calm \in [code : Seq(Chars), running : BOOLEAN] BY <1>1 DEF Init
  <1>6. /\ stray \in BOOLEAN /\ spoilt \in BOOLEAN /\ discarded \in BOOLEAN
        /\ met \subseteq Jobs
    BY DEF Init
  <1> HIDE DEF start
  <1> QED BY <1>1, <1>2, <1>3, <1>4, <1>5, <1>6, <1>7 DEF TypeOK

LEMMA SinceType ==
    ASSUME TypeOK, Since
    PROVE  /\ calm' \in [code : Seq(Chars), running : BOOLEAN]
           /\ stray' \in BOOLEAN /\ spoilt' \in BOOLEAN /\ discarded' \in BOOLEAN
           /\ met' \subseteq Jobs
  BY DEF Since, TypeOK

LEMMA BeganType ==
    ASSUME TypeOK, Began
    PROVE  /\ calm' \in [code : Seq(Chars), running : BOOLEAN]
           /\ stray' \in BOOLEAN /\ spoilt' \in BOOLEAN /\ discarded' \in BOOLEAN
           /\ met' \subseteq Jobs
  BY DEF Began, TypeOK

\* All but what is on its way to the file.
Rest ==
    /\ code \in Seq(Chars) /\ running \in BOOLEAN /\ late \subseteq Commands
    /\ backups \in Seq(Backups) /\ disk \in Seq(Backups)
    /\ Len(backups) <= MaxBackups /\ Len(disk) <= MaxBackups
    /\ job \in [Jobs -> JobType]
    /\ calm \in [code : Seq(Chars), running : BOOLEAN]
    /\ stray \in BOOLEAN /\ spoilt \in BOOLEAN /\ discarded \in BOOLEAN
    /\ met \subseteq Jobs

LEMMA TypeParts == TypeOK <=> Rest /\ SavingType
  BY DEF TypeOK, Rest, SavingType

LEMMA RestStep ==
    ASSUME TypeOK, JobsInv, [Next]_vars
    PROVE  Rest'
  <1> DEFINE Hist == /\ calm' \in [code : Seq(Chars), running : BOOLEAN]
                     /\ stray' \in BOOLEAN /\ spoilt' \in BOOLEAN /\ discarded' \in BOOLEAN
                     /\ met' \subseteq Jobs
             Device == code' \in Seq(Chars) /\ running' \in BOOLEAN /\ late' \subseteq Commands
             Repo == /\ backups' \in Seq(Backups) /\ disk' \in Seq(Backups)
                     /\ Len(backups') <= MaxBackups /\ Len(disk') <= MaxBackups
  <1>0. ASSUME Hist, Device, Repo, job' \in [Jobs -> JobType] PROVE Rest'
    BY <1>0 DEF Rest
  <1>l. \A k \in DOMAIN saving :
           saving[k].list \in Seq(Backups) /\ Len(saving[k].list) <= MaxBackups
    BY SavingFact, TypeParts
  <1> USE DEF TypeOK
  <1>s. Since => Hist BY SinceType
  <1>b. Began => Hist BY BeganType
  <1> HIDE DEF Hist
  <1>1. ASSUME NEW j \in Jobs, NEW text \in Texts, Upload(j, text) PROVE Rest'
    <2>1. Others(j) /\ Began /\ UNCHANGED <<code, running, late, backups, disk>>
      BY <1>1, UploadFact
    <2> QED BY <1>0, <1>b, <2>1 DEF Others
  <1>2. ASSUME NEW j \in Jobs, NEW does \in {"start", "stop", "restart"}, Control(j, does)
        PROVE  Rest'
    <2>1. Others(j) /\ Began /\ UNCHANGED <<code, running, late, backups, disk>>
      BY <1>2, ControlFact
    <2> QED BY <1>0, <1>b, <2>1 DEF Others
  <1>3. ASSUME NEW j \in Jobs, NEW id \in Jobs, Delete(j, id) PROVE Rest'
    <2>1. /\ Others(j) /\ Began /\ UNCHANGED <<code, running, late, disk>>
          /\ backups' \in Seq(Backups) /\ Len(backups') <= MaxBackups
      BY <1>3, DeleteFact
    <2> QED BY <1>0, <1>b, <2>1 DEF Others
  <1>4. ASSUME NEW j \in Jobs, Saved(j) PROVE Rest'
    <2>1. /\ Others(j) /\ Since /\ UNCHANGED <<code, running, late, backups>>
          /\ \E k \in DOMAIN saving : disk' = saving[k].list
      BY <1>4, SavedFact
    <2>2. Repo BY <1>l, <2>1
    <2> QED BY <1>0, <1>s, <2>1, <2>2 DEF Others
  <1>5. ASSUME NEW j \in Jobs, Read(j) PROVE Rest'
    <2> DEFINE more == job[j].got \o Piece(code, Bytes(job[j].got))
    <2>1. /\ Others(j) /\ Since /\ UNCHANGED <<code, running, late, disk>>
          /\ more \in Seq(Chars)
          /\ backups' = backups \/ backups' = Added([id |-> j, code |-> more])
      BY <1>5, ReadEffect DEF ReadsOn, ReadsInVain, ReadToBackUp, ReadToVerify
    <2> HIDE DEF more
    <2>2. [id |-> j, code |-> more] \in Backups BY <2>1 DEF Backups
    <2>3. backups' \in Seq(Backups) /\ Len(backups') <= MaxBackups
      BY <2>1, <2>2, AddedFact, JobsFact
    <2> QED BY <1>0, <1>s, <2>1, <2>3 DEF Others
  <1>6. ASSUME NEW j \in Jobs, Status(j) PROVE Rest'
    <2>1. Others(j) /\ Since /\ UNCHANGED <<code, running, late, backups, disk>>
      BY <1>6, StatusFact
    <2> QED BY <1>0, <1>s, <2>1 DEF Others
  <1>7. ASSUME NEW j \in Jobs, Answered(j) PROVE Rest'
    <2>1. Others(j) /\ Since /\ Execute(Request(j)) /\ UNCHANGED <<late, backups, disk>>
      BY <1>7, AnsweredFact
    <2>2. Request(j) \in Commands BY <1>7, RequestFact DEF Answered
    <2>3. code' \in Seq(Chars) /\ running' \in BOOLEAN BY <2>1, <2>2, ExecuteFact
    <2> QED BY <1>0, <1>s, <2>1, <2>3 DEF Others
  <1>8. ASSUME NEW j \in Jobs, CallFails(j) PROVE Rest'
    <2>1. /\ Others(j) /\ Since /\ UNCHANGED <<code, running, backups, disk>>
          /\ \/ late' = late
             \/ late' = late \cup {Request(j)} /\ job[j].pc \in {"stop", "put", "start"}
      BY <1>8, CallFailsFact, Zenon
    <2>2. job[j].pc \in {"stop", "put", "start"} => Request(j) \in Commands BY RequestFact
    <2>3. Device BY <2>1, <2>2
    <2>4. Repo BY <2>1
    <2> QED BY <1>0, <1>s, <2>1, <2>3, <2>4 DEF Others
  <1>9. ASSUME NEW cmd \in late, LateExecutes(cmd) \/ LateLost(cmd) PROVE Rest'
    <2>1. /\ Since /\ late' = late \ {cmd} /\ UNCHANGED <<backups, disk, job>>
          /\ Execute(cmd) \/ UNCHANGED <<code, running>>
      BY <1>9, LateFact
    <2>2. code' \in Seq(Chars) /\ running' \in BOOLEAN
      <3>1. cmd \in Commands OBVIOUS
      <3>2. CASE Execute(cmd) BY <3>1, <3>2, ExecuteFact
      <3>3. CASE UNCHANGED <<code, running>> BY <3>3
      <3> QED BY <2>1, <3>2, <3>3
    <2> QED BY <1>0, <1>s, <2>1, <2>2
  <1>10. CASE Restart
    <2>1. /\ Since /\ backups' = disk' /\ UNCHANGED <<code, running, late>>
          /\ disk' = disk \/ \E k \in DOMAIN saving : disk' = saving[k].list
          /\ job' \in [Jobs -> JobType]
      BY <1>10, RestartFact
    <2>2. Repo BY <1>l, <2>1
    <2> QED BY <1>0, <1>s, <2>1, <2>2
  <1>11. CASE UNCHANGED vars
    BY <1>11 DEF vars, device, repository, history, Rest
  <1> QED
    BY <1>1, <1>2, <1>3, <1>4, <1>5, <1>6, <1>7, <1>8, <1>9, <1>10, <1>11, Zenon DEF Next

LEMMA LongerFact ==
    ASSUME NEW S, NEW q \in Seq(S), NEW e \in S
    PROVE  /\ Append(q, e) \in Seq(S) /\ Len(q) \in Nat /\ Len(Append(q, e)) = Len(q) + 1
           /\ \A k \in 1..Len(q) : Append(q, e)[k] = q[k]
           /\ Append(q, e)[Len(q) + 1] = e
  OBVIOUS

LEMMA ShorterFact ==
    ASSUME NEW S, NEW q \in Seq(S), q # << >>
    PROVE  /\ Tail(q) \in Seq(S) /\ Len(q) \in Nat /\ Len(q) >= 1 /\ Len(Tail(q)) = Len(q) - 1
           /\ \A k \in 1..(Len(q) - 1) : Tail(q)[k] = q[k + 1]
           /\ Head(q) = q[1]
  OBVIOUS

\* An element of the saves after a step was there before, or is the list that was
\* handed over.
LEMMA EntriesFact ==
    ASSUME SavingType,
           NEW j \in Jobs, NEW list \in Seq(Backups),
           \/ saving' = Append(saving, [by |-> j, list |-> list])
           \/ saving # << >> /\ Head(saving).by = j /\ saving' = Tail(saving)
    PROVE  /\ saving' \in Seq(Saves)
           /\ \/ /\ saving' = Append(saving, [by |-> j, list |-> list])
                 /\ Len(saving) \in Nat /\ Len(saving') = Len(saving) + 1
                 /\ \A k \in 1..Len(saving) : saving'[k] = saving[k]
                 /\ saving'[Len(saving) + 1].by = j /\ saving'[Len(saving) + 1].list = list
              \/ /\ saving' = Tail(saving) /\ saving[1].by = j
                 /\ Len(saving) \in Nat /\ Len(saving) >= 1 /\ Len(saving') = Len(saving) - 1
                 /\ \A k \in 1..(Len(saving) - 1) : saving'[k] = saving[k + 1]
  <1>1. saving \in Seq(Saves) BY DEF SavingType
  <1> DEFINE e == [by |-> j, list |-> list]
  <1>2. e \in Saves /\ e.by = j /\ e.list = list BY DEF Saves
  <1> HIDE DEF e, Saves
  <1>3. CASE saving' = Append(saving, e)
    <2>1. /\ saving' \in Seq(Saves) /\ Len(saving) \in Nat /\ Len(saving') = Len(saving) + 1
          /\ \A k \in 1..Len(saving) : saving'[k] = saving[k]
          /\ saving'[Len(saving) + 1] = e
      BY <1>1, <1>2, <1>3, LongerFact
    <2> QED BY <1>2, <1>3, <2>1 DEF e
  <1>4. CASE saving # << >> /\ Head(saving).by = j /\ saving' = Tail(saving)
    <2>1. /\ Tail(saving) \in Seq(Saves) /\ Len(saving) \in Nat /\ Len(saving) >= 1
          /\ Len(Tail(saving)) = Len(saving) - 1
          /\ \A k \in 1..(Len(saving) - 1) : Tail(saving)[k] = saving[k + 1]
          /\ Head(saving) = saving[1]
      BY <1>1, <1>4, ShorterFact
    <2> QED BY <1>4, <2>1
  <1> QED BY <1>3, <1>4 DEF e

LEMMA SavingTypeStep ==
    ASSUME TypeOK, JobsInv, [Next]_vars
    PROVE  SavingType'
  <1>1. SavingType BY TypeParts
  <1>2. backups' \in Seq(Backups) /\ Len(backups') <= MaxBackups BY RestStep DEF Rest
  <1>3. CASE saving' = saving BY <1>1, <1>3 DEF SavingType
  <1>4. CASE saving' = << >> BY <1>4 DEF SavingType
  <1>5. ASSUME NEW j \in Jobs, Asked(j) \/ Written(j) PROVE SavingType'
    <2>1. \/ saving' = Append(saving, [by |-> j, list |-> backups'])
          \/ saving # << >> /\ Head(saving).by = j /\ saving' = Tail(saving)
      BY <1>5 DEF Asked, Written
    <2>2. /\ saving' \in Seq(Saves)
          /\ \/ /\ saving' = Append(saving, [by |-> j, list |-> backups'])
                /\ Len(saving) \in Nat /\ Len(saving') = Len(saving) + 1
                /\ \A k \in 1..Len(saving) : saving'[k] = saving[k]
                /\ saving'[Len(saving) + 1].by = j
                /\ saving'[Len(saving) + 1].list = backups'
             \/ /\ saving' = Tail(saving) /\ saving[1].by = j
                /\ Len(saving) \in Nat /\ Len(saving) >= 1 /\ Len(saving') = Len(saving) - 1
                /\ \A k \in 1..(Len(saving) - 1) : saving'[k] = saving[k + 1]
      BY <1>1, <1>2, <2>1, EntriesFact
    <2>3. \A k \in 1..Len(saving) : Len(saving[k].list) <= MaxBackups
      BY <1>1, <2>2 DEF SavingType
    <2>4. ASSUME NEW k \in DOMAIN saving' PROVE Len(saving'[k].list) <= MaxBackups
      <3>1. k \in 1..Len(saving') BY <2>2
      <3>2. CASE saving' = Append(saving, [by |-> j, list |-> backups'])
                 /\ Len(saving') = Len(saving) + 1
                 /\ (\A l \in 1..Len(saving) : saving'[l] = saving[l])
                 /\ saving'[Len(saving) + 1].list = backups'
        BY <1>2, <2>2, <2>3, <3>1, <3>2
      <3>3. CASE Len(saving') = Len(saving) - 1
                 /\ (\A l \in 1..(Len(saving) - 1) : saving'[l] = saving[l + 1])
        BY <2>2, <2>3, <3>1, <3>3
      <3> QED BY <2>2, <3>2, <3>3
    <2> QED BY <2>2, <2>4 DEF SavingType
  <1> QED BY <1>3, <1>4, <1>5, SavingEffect DEF SavesOn

LEMMA TypeStep ==
    ASSUME TypeOK, JobsInv, [Next]_vars
    PROVE  TypeOK'
  BY RestStep, SavingTypeStep DEF TypeOK, Rest, SavingType

-----------------------------------------------------------------------------
(* What a job carries. *)

LEMMA JobsKept ==
    ASSUME NEW j \in Jobs, JobsInv, Others(j), JobInv(j)'
    PROVE  JobsInv'
  <1>1. ASSUME NEW i \in Jobs, i # j PROVE JobInv(i)'
    <2>1. job'[i] = job[i] BY <1>1 DEF Others
    <2>2. JobInv(i) BY DEF JobsInv
    <2> QED BY <2>1, <2>2 DEF JobInv
  <1> QED BY <1>1 DEF JobsInv

LEMMA JobsStep ==
    ASSUME TypeOK, JobsInv, [Next]_vars
    PROVE  JobsInv'
  <1>t. \A j \in Jobs : job[j] \in JobType BY DEF TypeOK
  <1>i. \A j \in Jobs : JobInv(j) BY DEF JobsInv
  <1>1. ASSUME NEW j \in Jobs, NEW text \in Texts, Upload(j, text) PROVE JobsInv'
    <2>1. /\ Others(j) /\ Chunks(text) # << >>
          /\ job'[j] = [Idle EXCEPT !.does = "upload", !.pc = "read", !.text = text,
                                    !.todo = Chunks(text)]
      BY <1>1, UploadFact
    <2>2. /\ job'[j].does = "upload" /\ job'[j].pc = "read" /\ job'[j].todo # << >>
          /\ job'[j].was = FALSE
      BY <2>1 DEF Idle
    <2>3. JobInv(j)' BY <2>2 DEF JobInv
    <2> QED BY <2>1, <2>3, JobsKept
  <1>2. ASSUME NEW j \in Jobs, NEW does \in {"start", "stop", "restart"}, Control(j, does)
        PROVE  JobsInv'
    <2>1. /\ Others(j)
          /\ job'[j] = [Idle EXCEPT !.does = does,
                                    !.pc = IF does = "start" THEN "start" ELSE "stop"]
      BY <1>2, ControlFact
    <2>2. job'[j].does = does /\ job'[j].pc \in {"start", "stop"} /\ job'[j].was = FALSE
      BY <2>1 DEF Idle
    <2>3. JobInv(j)' BY <2>2 DEF JobInv
    <2> QED BY <2>1, <2>3, JobsKept
  <1>3. ASSUME NEW j \in Jobs, NEW id \in Jobs, Delete(j, id) PROVE JobsInv'
    <2>1. Others(j) /\ job'[j] = [Idle EXCEPT !.does = "delete", !.pc = "save"]
      BY <1>3, DeleteFact
    <2>2. job'[j].does = "delete" /\ job'[j].pc = "save" /\ job'[j].was = FALSE
      BY <2>1 DEF Idle
    <2>3. JobInv(j)' BY <2>2 DEF JobInv
    <2> QED BY <2>1, <2>3, JobsKept
  <1>4. ASSUME NEW j \in Jobs, Saved(j) PROVE JobsInv'
    <2>1. /\ Others(j) /\ job[j].pc = "save"
          /\ job'[j].pc = (IF job[j].does = "delete" THEN "ok" ELSE "status")
          /\ job'[j] = [job[j] EXCEPT !.pc = job'[j].pc]
      BY <1>4, SavedFact
    <2>2. /\ job'[j].does = job[j].does /\ job'[j].got = job[j].got
          /\ job'[j].reads = job[j].reads /\ job'[j].todo = job[j].todo
          /\ job'[j].was = job[j].was
      BY <1>t, <2>1 DEF JobType
    <2>3. JobInv(j)' BY <1>i, <2>1, <2>2 DEF JobInv
    <2> QED BY <2>1, <2>3, JobsKept
  <1>5. ASSUME NEW j \in Jobs, Read(j) PROVE JobsInv'
    <2> DEFINE more == job[j].got \o Piece(code, Bytes(job[j].got))
    <2>1. /\ Others(j) /\ job[j].pc \in {"read", "verify"}
          /\ \/ ReadsOn(j, more) \/ ReadsInVain(j) \/ ReadToBackUp(j, more)
             \/ ReadToVerify(j, more)
      BY <1>5, ReadEffect
    <2> HIDE DEF more
    <2>2. /\ job'[j].does = job[j].does /\ job'[j].todo = job[j].todo
          /\ job'[j].was = job[j].was
      BY <1>t, <2>1, Zenon DEF ReadsOn, ReadsInVain, ReadToBackUp, ReadToVerify, JobType
    <2>3. \/ job'[j].pc = job[j].pc
          \/ job'[j].pc = "failed" /\ job[j].pc = "read"
          \/ job'[j].pc = "save" /\ job'[j].got = << >> /\ job'[j].reads = 0
          \/ /\ job'[j].pc \in {"start", "ok", "failed"} /\ job[j].pc = "verify"
             /\ job[j].was <=> job'[j].pc = "start"
      <3>1. CASE ReadsOn(j, more) BY <1>t, <3>1 DEF ReadsOn, JobType
      <3>2. CASE ReadsInVain(j) BY <1>t, <2>1, <3>2 DEF ReadsInVain, JobType
      <3>3. CASE ReadToBackUp(j, more) BY <1>t, <3>3 DEF ReadToBackUp, JobType
      <3>4. CASE ReadToVerify(j, more) BY <1>t, <3>4 DEF ReadToVerify, JobType
      <3> QED BY <2>1, <3>1, <3>2, <3>3, <3>4
    <2>4. JobInv(j) BY <1>i
    <2>5. job[j].does = "upload" BY <2>1, <2>4 DEF JobInv
    <2>6. JobInv(j)'
      <3>1. CASE job[j].pc = "read"
        <4>1. job[j].todo # << >> /\ ~job[j].was BY <2>4, <2>5, <3>1 DEF JobInv
        <4> QED BY <2>2, <2>3, <2>5, <3>1, <4>1 DEF JobInv
      <3>2. CASE job[j].pc = "verify" /\ job'[j].pc = "save"
        BY <2>1, <3>2, <1>t, Zenon DEF ReadsOn, ReadsInVain, ReadToBackUp, ReadToVerify, JobType
      <3>3. CASE job[j].pc = "verify" /\ job'[j].pc # "save"
        BY <2>2, <2>3, <2>5, <3>3 DEF JobInv
      <3> QED BY <2>1, <3>1, <3>2, <3>3
    <2> QED BY <2>1, <2>6, JobsKept
  <1>6. ASSUME NEW j \in Jobs, Status(j) PROVE JobsInv'
    <2>1. /\ Others(j) /\ job[j].pc = "status"
          /\ job'[j] = [job[j] EXCEPT !.was = running, !.pc = IF running THEN "stop" ELSE "put"]
      BY <1>6, StatusFact
    <2>2. /\ job'[j].does = job[j].does /\ job'[j].got = job[j].got
          /\ job'[j].reads = job[j].reads /\ job'[j].todo = job[j].todo
          /\ job'[j].was = running /\ job'[j].pc = (IF running THEN "stop" ELSE "put")
      BY <1>t, <2>1 DEF JobType
    <2>3. JobInv(j) BY <1>i
    <2>4. /\ job[j].does = "upload" /\ job[j].got = << >> /\ job[j].reads = 0
          /\ job[j].todo # << >>
      BY <2>1, <2>3 DEF JobInv
    <2>5. CASE running
      <3>1. job'[j].was /\ job'[j].pc = "stop" BY <2>2, <2>5, Zenon
      <3>2. JobInv(j)' BY <2>2, <2>4, <3>1 DEF JobInv
      <3> QED BY <2>1, <3>2, JobsKept
    <2>6. CASE ~running
      <3>1. ~job'[j].was /\ job'[j].pc = "put" BY <2>2, <2>6, Zenon
      <3>2. JobInv(j)' BY <2>2, <2>4, <3>1 DEF JobInv
      <3> QED BY <2>1, <3>2, JobsKept
    <2> QED BY <2>5, <2>6
  <1>7. ASSUME NEW j \in Jobs, Answered(j) PROVE JobsInv'
    <2>1. Others(j) /\ Answer(j) BY <1>7, AnsweredFact
    <2>2. JobInv(j) BY <1>i
    <2>3. CASE job[j].pc = "stop"
      <3>1. /\ job'[j].does = job[j].does /\ job'[j].got = job[j].got
            /\ job'[j].reads = job[j].reads /\ job'[j].todo = job[j].todo
            /\ job'[j].was = job[j].was /\ job'[j].pc \in {"put", "start", "ok"}
            /\ job[j].does = "upload" <=> job'[j].pc = "put"
        BY <1>t, <2>1, <2>3 DEF Answer, JobType
      <3>2. JobInv(j)' BY <2>2, <2>3, <3>1 DEF JobInv
      <3> QED BY <2>1, <3>2, JobsKept
    <2>4. CASE job[j].pc = "put"
      <3>1. /\ job'[j].does = job[j].does /\ job'[j].got = job[j].got
            /\ job'[j].reads = job[j].reads
            /\ job'[j].was = job[j].was /\ job'[j].pc \in {"put", "verify"}
            /\ job'[j].pc = "put" => job'[j].todo # << >>
        BY <1>t, <2>1, <2>4 DEF Answer, JobType
      <3>2. JobInv(j)' BY <2>2, <2>4, <3>1 DEF JobInv
      <3> QED BY <2>1, <3>2, JobsKept
    <2>5. CASE job[j].pc = "start"
      <3>1. /\ job'[j].does = job[j].does
            /\ job'[j].was = job[j].was /\ job'[j].pc \in {"ok", "failed"}
        BY <1>t, <2>1, <2>5 DEF Answer, JobType
      <3>2. JobInv(j)' BY <2>2, <2>5, <3>1 DEF JobInv
      <3> QED BY <2>1, <3>2, JobsKept
    <2> QED BY <2>1, <2>3, <2>4, <2>5 DEF Answer
  <1>8. ASSUME NEW j \in Jobs, CallFails(j) PROVE JobsInv'
    <2>1. /\ Others(j)
          /\ job[j].pc \in {"read", "status", "stop", "put", "verify", "start"}
          /\ \E e \in BOOLEAN, pc \in {"start", "ok", "failed"} :
                /\ job'[j] = [job[j] EXCEPT !.err = e, !.pc = pc]
                /\ pc = "start" => job[j].was
                /\ job[j].pc \in {"put", "verify"} /\ job[j].was => pc = "start"
      BY <1>8, CallFailsFact, Zenon
    <2>2. /\ job'[j].does = job[j].does /\ job'[j].was = job[j].was
          /\ job'[j].pc \in {"start", "ok", "failed"}
          /\ job'[j].pc = "start" => job[j].was
      BY <1>t, <2>1 DEF JobType
    <2>3. JobInv(j) BY <1>i
    <2>4. JobInv(j)' BY <2>1, <2>2, <2>3 DEF JobInv
    <2> QED BY <2>1, <2>4, JobsKept
  <1>9. ASSUME NEW cmd \in late, LateExecutes(cmd) \/ LateLost(cmd) PROVE JobsInv'
    <2>1. job' = job BY <1>9, LateFact
    <2> QED BY <2>1 DEF JobsInv, JobInv
  <1>10. CASE Restart
    <2> SUFFICES ASSUME NEW j \in Jobs PROVE JobInv(j)' BY DEF JobsInv
    <2>1. JobInv(j) BY <1>i
    <2>2. CASE job'[j] = job[j] BY <2>1, <2>2 DEF JobInv
    <2>3. CASE /\ job[j].pc \notin {"idle", "ok", "failed"}
               /\ job'[j] = [job[j] EXCEPT !.pc = "failed"]
      <3>1. /\ job'[j].does = job[j].does /\ job'[j].was = job[j].was
            /\ job'[j].pc = "failed"
        BY <1>t, <2>3 DEF JobType
      <3> QED BY <2>1, <3>1 DEF JobInv
    <2> QED BY <1>10, <2>2, <2>3, RestartFact
  <1>11. CASE UNCHANGED vars
    <2>1. job' = job BY <1>11 DEF vars
    <2> QED BY <2>1 DEF JobsInv, JobInv
  <1> QED
    BY <1>1, <1>2, <1>3, <1>4, <1>5, <1>6, <1>7, <1>8, <1>9, <1>10, <1>11, Zenon DEF Next

-----------------------------------------------------------------------------
(* A script that stands still although it ran is going to be started. *)

\* What the invariant says of one job, and a job that is going to start the script.
RunJob(j) ==
    job[j].pc \notin {"idle", "ok", "failed"} =>
        job[j].does \in {"upload", "delete"} /\ (job[j].was => calm.running)
Starter(j) == job[j].was /\ job[j].pc \in {"put", "verify", "start"}

LEMMA RunParts ==
    RunInv <=> (~stray =>
        /\ \A cmd \in late : cmd.op = "put"
        /\ \A j \in Jobs : RunJob(j)
        /\ running => calm.running
        /\ calm.running /\ ~running => \E j \in Jobs : Starter(j))
  BY DEF RunInv, RunJob, Starter, Active, Ended

LEMMA RunPartsNext ==
    RunInv' <=> (~stray' =>
        /\ \A cmd \in late' : cmd.op = "put"
        /\ \A j \in Jobs : RunJob(j)'
        /\ running' => calm'.running
        /\ calm'.running /\ ~running' => \E j \in Jobs : Starter(j)')
  BY DEF RunInv, RunJob, Starter, Active, Ended

\* A step of one job after which the script runs as before.
LEMMA RunSame ==
    ASSUME RunInv, NEW j \in Jobs, Others(j), calm' = calm, running' = running,
           stray => stray',
           ~stray => \A cmd \in late' : cmd.op = "put" \/ stray',
           ~stray /\ RunJob(j) => RunJob(j)' \/ stray',
           Starter(j) => Starter(j)' \/ stray'
    PROVE  RunInv'
  <1> SUFFICES ASSUME ~stray'
               PROVE  /\ \A cmd \in late' : cmd.op = "put"
                      /\ \A i \in Jobs : RunJob(i)'
                      /\ running' => calm'.running
                      /\ calm'.running /\ ~running' => \E i \in Jobs : Starter(i)'
    BY RunPartsNext
  <1>1. ~stray OBVIOUS
  <1>2. /\ \A i \in Jobs : RunJob(i)
        /\ running => calm.running
        /\ calm.running /\ ~running => \E i \in Jobs : Starter(i)
    BY <1>1, RunParts
  <1>3. ASSUME NEW i \in Jobs PROVE RunJob(i)' /\ (Starter(i) => Starter(i)')
    <2>1. CASE i = j BY <1>1, <1>2, <2>1
    <2>2. CASE i # j
      <3>1. job'[i] = job[i] BY <2>2 DEF Others
      <3>2. RunJob(i) BY <1>2
      <3> QED BY <3>1, <3>2 DEF RunJob, Starter
    <2> QED BY <2>1, <2>2
  <1>4. \A cmd \in late' : cmd.op = "put" BY <1>1
  <1>5. running' => calm'.running BY <1>2, Zenon
  <1>6. calm'.running /\ ~running' => \E i \in Jobs : Starter(i)' BY <1>2, <1>3, Zenon
  <1> QED BY <1>3, <1>4, <1>5, <1>6

\* The first step of a job.
LEMMA RunBegun ==
    ASSUME TypeOK, RunInv, NEW j \in Jobs, Others(j), Began, job[j] = Idle,
           UNCHANGED <<running, late>>, RunJob(j)' \/ stray'
    PROVE  RunInv'
  <1> SUFFICES ASSUME ~stray'
               PROVE  /\ \A cmd \in late' : cmd.op = "put"
                      /\ \A i \in Jobs : RunJob(i)'
                      /\ running' => calm'.running
                      /\ calm'.running /\ ~running' => \E i \in Jobs : Starter(i)'
    BY RunPartsNext
  <1>1. CASE Quiet
    <2>1. calm' = [code |-> code, running |-> running] BY <1>1 DEF Began
    <2>2. calm'.running = running BY <2>1
    <2>3. late' = {} /\ \A i \in Jobs : job[i].pc \in {"idle", "ok", "failed"}
      BY <1>1, QuietFact
    <2>4. \A i \in Jobs : i # j => RunJob(i)' BY <2>3 DEF RunJob, Others
    <2> QED BY <2>2, <2>3, <2>4
  <1>2. CASE ~Quiet
    <2>1. calm' = calm /\ ~stray BY <1>2 DEF Began
    <2>2. /\ \A i \in Jobs : RunJob(i)
          /\ \A cmd \in late : cmd.op = "put"
          /\ running => calm.running
          /\ calm.running /\ ~running => \E i \in Jobs : Starter(i)
      BY <2>1, RunParts
    <2>3. ~Starter(j) BY DEF Starter, Idle
    <2>4. ASSUME NEW i \in Jobs PROVE RunJob(i)' /\ (Starter(i) => Starter(i)')
      <3>1. CASE i = j BY <2>3, <3>1
      <3>2. CASE i # j
        <4>1. job'[i] = job[i] BY <3>2 DEF Others
        <4>2. RunJob(i) BY <2>2
        <4> QED BY <2>1, <4>1, <4>2 DEF RunJob, Starter
      <3> QED BY <3>1, <3>2
    <2>5. running' => calm'.running BY <2>1, <2>2, Zenon
    <2>6. calm'.running /\ ~running' => \E i \in Jobs : Starter(i)'
      BY <2>1, <2>2, <2>4, Zenon
    <2> QED BY <2>2, <2>4, <2>5, <2>6
  <1> QED BY <1>1, <1>2

LEMMA RunStep ==
    ASSUME TypeOK, JobsInv, RunInv, [Next]_vars
    PROVE  RunInv'
  <1>t. \A j \in Jobs : job[j] \in JobType BY DEF TypeOK
  <1>i. \A j \in Jobs : JobInv(j) BY DEF JobsInv
  <1>r. ~stray => \A cmd \in late : cmd.op = "put" BY RunParts
  <1>1. ASSUME NEW j \in Jobs, NEW text \in Texts, Upload(j, text) PROVE RunInv'
    <2>1. /\ Others(j) /\ Began /\ job[j] = Idle
          /\ job'[j] = [Idle EXCEPT !.does = "upload", !.pc = "read", !.text = text,
                                    !.todo = Chunks(text)]
          /\ UNCHANGED <<running, late>>
      BY <1>1, UploadFact
    <2>2. job'[j].does = "upload" /\ job'[j].was = FALSE BY <2>1 DEF Idle
    <2>3. RunJob(j)' BY <2>2 DEF RunJob
    <2> QED BY <2>1, <2>3, RunBegun
  <1>2. ASSUME NEW j \in Jobs, NEW does \in {"start", "stop", "restart"}, Control(j, does)
        PROVE  RunInv'
    BY <1>2, ControlFact, RunBegun
  <1>3. ASSUME NEW j \in Jobs, NEW id \in Jobs, Delete(j, id) PROVE RunInv'
    <2>1. /\ Others(j) /\ Began /\ job[j] = Idle
          /\ job'[j] = [Idle EXCEPT !.does = "delete", !.pc = "save"]
          /\ UNCHANGED <<running, late>>
      BY <1>3, DeleteFact
    <2>2. job'[j].does = "delete" /\ job'[j].was = FALSE BY <2>1 DEF Idle
    <2>3. RunJob(j)' BY <2>2 DEF RunJob
    <2> QED BY <2>1, <2>3, RunBegun
  <1>4. ASSUME NEW j \in Jobs, Saved(j) PROVE RunInv'
    <2>1. /\ Others(j) /\ Since /\ job[j].pc = "save"
          /\ job'[j] = [job[j] EXCEPT !.pc = job'[j].pc]
          /\ UNCHANGED <<running, late>>
      BY <1>4, SavedFact
    <2>2. job'[j].does = job[j].does /\ job'[j].was = job[j].was
      BY <1>t, <2>1 DEF JobType
    <2>3. calm' = calm /\ (stray => stray') BY <2>1 DEF Since
    <2>4. RunJob(j) => RunJob(j)' BY <2>1, <2>2, <2>3 DEF RunJob
    <2>5. ~Starter(j) BY <2>1 DEF Starter
    <2> QED BY <1>r, <2>1, <2>3, <2>4, <2>5, RunSame
  <1>5. ASSUME NEW j \in Jobs, Read(j) PROVE RunInv'
    <2> DEFINE more == job[j].got \o Piece(code, Bytes(job[j].got))
    <2>1. /\ Others(j) /\ Since /\ job[j].pc \in {"read", "verify"}
          /\ UNCHANGED <<running, late>>
          /\ \/ ReadsOn(j, more) \/ ReadsInVain(j) \/ ReadToBackUp(j, more)
             \/ ReadToVerify(j, more)
      BY <1>5, ReadEffect
    <2> HIDE DEF more
    <2>2. job'[j].does = job[j].does /\ job'[j].was = job[j].was
      BY <1>t, <2>1, ZenonT(60) DEF ReadsOn, ReadsInVain, ReadToBackUp, ReadToVerify, JobType
    <2>3. job[j].pc = "verify" => \/ job'[j].pc = "verify"
                                  \/ job[j].was <=> job'[j].pc = "start"
      BY <1>t, <2>1, Zenon DEF ReadsOn, ReadsInVain, ReadToBackUp, ReadToVerify, JobType
    <2>4. calm' = calm /\ (stray => stray') BY <2>1 DEF Since
    <2>5. RunJob(j) => RunJob(j)' BY <2>1, <2>2, <2>4 DEF RunJob
    <2>6. Starter(j) => Starter(j)' BY <2>1, <2>2, <2>3 DEF Starter
    <2> QED BY <1>r, <2>1, <2>4, <2>5, <2>6, RunSame
  <1>6. ASSUME NEW j \in Jobs, Status(j) PROVE RunInv'
    <2>1. /\ Others(j) /\ Since /\ job[j].pc = "status"
          /\ job'[j] = [job[j] EXCEPT !.was = running, !.pc = IF running THEN "stop" ELSE "put"]
          /\ UNCHANGED <<running, late>>
      BY <1>6, StatusFact
    <2>2. job'[j].does = job[j].does /\ job'[j].was = running
      BY <1>t, <2>1 DEF JobType
    <2>3. calm' = calm /\ (stray => stray') BY <2>1 DEF Since
    <2>4. ~stray => (running => calm.running) BY RunParts
    <2>5. ~stray /\ RunJob(j) => RunJob(j)'
      <3>1. RunJob(j) => job'[j].does \in {"upload", "delete"} BY <2>1, <2>2 DEF RunJob
      <3>2. ~stray => (job'[j].was => calm'.running) BY <2>2, <2>3, <2>4, Zenon
      <3> QED BY <3>1, <3>2 DEF RunJob
    <2>6. ~Starter(j) BY <2>1 DEF Starter
    <2> QED BY <1>r, <2>1, <2>3, <2>5, <2>6, RunSame
  <1>7. ASSUME NEW j \in Jobs, Answered(j) PROVE RunInv'
    <2>1. /\ Others(j) /\ Since /\ Answer(j) /\ Execute(Request(j)) /\ UNCHANGED late
      BY <1>7, AnsweredFact
    <2>2. job[j].pc \in {"stop", "put", "start"} BY <1>7 DEF Answered
    <2>3. Request(j) \in Commands /\ Request(j).op = job[j].pc BY <2>2, RequestFact
    <2>4. calm' = calm /\ (stray => stray') BY <2>1 DEF Since
    <2>5. JobInv(j) BY <1>i
    <2>6. CASE job[j].pc = "put"
      <3>1. job'[j].does = job[j].does /\ job'[j].was = job[j].was
            /\ job'[j].pc \in {"put", "verify"}
        BY <1>t, <2>1, <2>6 DEF Answer, JobType
      <3>2. running' = running BY <2>1, <2>3, <2>6, ExecuteFact
      <3>3. RunJob(j) => RunJob(j)' BY <2>4, <2>6, <3>1 DEF RunJob
      <3>4. Starter(j) => Starter(j)' BY <3>1 DEF Starter
      <3> QED BY <1>r, <2>1, <2>4, <3>2, <3>3, <3>4, RunSame
    <2>7. CASE job[j].pc # "put" /\ ~stray'
      <3>1. ~stray BY <2>4, <2>7
      <3>2. /\ \A cmd \in late : cmd.op = "put"
            /\ \A i \in Jobs : RunJob(i)
        BY <3>1, RunParts
      <3>3. RunJob(j) BY <3>2
      <3>4. job[j].does = "upload" /\ job[j].was /\ calm.running
        BY <2>2, <2>5, <2>7, <3>3 DEF RunJob, JobInv
      <3>5. \A i \in Jobs : i # j => RunJob(i)' BY <2>1, <2>4, <3>2 DEF RunJob, Others
      <3>6. CASE job[j].pc = "stop"
        <4>1. job'[j].does = job[j].does /\ job'[j].was = job[j].was /\ job'[j].pc = "put"
          BY <1>t, <2>1, <3>4, <3>6 DEF Answer, JobType
        <4>2. ~running' BY <2>1, <2>3, <3>6, ExecuteFact
        <4>3. RunJob(j)' BY <2>4, <3>4, <4>1 DEF RunJob
        <4>4. Starter(j)' BY <3>4, <4>1 DEF Starter
        <4>5. \A cmd \in late' : cmd.op = "put" BY <2>1, <3>2
        <4>6. \A i \in Jobs : RunJob(i)' BY <3>5, <4>3
        <4> QED BY <4>2, <4>4, <4>5, <4>6, RunPartsNext
      <3>7. CASE job[j].pc = "start"
        <4>1. job'[j].pc \in {"ok", "failed"} BY <1>t, <2>1, <3>7 DEF Answer, JobType
        <4>2. running' BY <2>1, <2>3, <3>7, ExecuteFact
        <4>3. RunJob(j)' BY <4>1 DEF RunJob
        <4>4. \A cmd \in late' : cmd.op = "put" BY <2>1, <3>2
        <4>5. \A i \in Jobs : RunJob(i)' BY <3>5, <4>3
        <4>6. calm'.running BY <2>4, <3>4
        <4> QED BY <4>2, <4>4, <4>5, <4>6, RunPartsNext
      <3> QED BY <2>2, <2>7, <3>6, <3>7
    <2>8. CASE stray' BY <2>8, RunPartsNext
    <2> QED BY <2>6, <2>7, <2>8
  <1>8. ASSUME NEW j \in Jobs, CallFails(j) PROVE RunInv'
    <2>1. /\ Others(j) /\ Since
          /\ job[j].pc \in {"read", "status", "stop", "put", "verify", "start"}
          /\ \E e \in BOOLEAN, pc \in {"start", "ok", "failed"} :
                /\ job'[j] = [job[j] EXCEPT !.err = e, !.pc = pc]
                /\ pc = "start" => job[j].was
                /\ job[j].pc \in {"put", "verify"} /\ job[j].was => pc = "start"
          /\ job[j].pc \in {"stop", "start"} => stray'
          /\ running' = running
          /\ \/ late' = late
             \/ late' = late \cup {Request(j)} /\ job[j].pc \in {"stop", "put", "start"}
      BY <1>8, CallFailsFact, Zenon
    <2>2. /\ job'[j].does = job[j].does /\ job'[j].was = job[j].was
          /\ job[j].pc \in {"put", "verify"} /\ job[j].was => job'[j].pc = "start"
      BY <1>t, <2>1 DEF JobType
    <2>3. calm' = calm /\ (stray => stray') BY <2>1 DEF Since
    <2>4. RunJob(j) => RunJob(j)' BY <2>1, <2>2, <2>3 DEF RunJob
    <2>5. Starter(j) => Starter(j)' \/ stray' BY <2>1, <2>2 DEF Starter
    <2>6. ~stray => \A cmd \in late' : cmd.op = "put" \/ stray'
      <3>1. job[j].pc = "put" => Request(j).op = "put" BY RequestFact
      <3> QED BY <1>r, <2>1, <3>1
    <2> QED BY <2>1, <2>3, <2>4, <2>5, <2>6, RunSame
  <1>9. ASSUME NEW cmd \in late, LateExecutes(cmd) \/ LateLost(cmd) PROVE RunInv'
    <2> SUFFICES ASSUME ~stray' PROVE RunInv'
      BY RunPartsNext
    <2>1. /\ Since /\ late' = late \ {cmd} /\ job' = job
          /\ Execute(cmd) \/ UNCHANGED <<code, running>>
      BY <1>9, LateFact
    <2>2. calm' = calm /\ ~stray BY <2>1 DEF Since
    <2>3. cmd.op = "put" /\ cmd \in Commands BY <1>r, <2>2 DEF TypeOK
    <2>4. running' = running BY <2>1, <2>3, ExecuteFact
    <2>5. \A c \in late' : c.op = "put" BY <1>r, <2>1, <2>2
    <2>6. Active' = Active BY <2>1 DEF Active
    <2> QED BY <2>1, <2>2, <2>4, <2>5, <2>6 DEF RunInv
  <1>10. CASE Restart
    <2>1. stray' BY <1>10, RestartFact
    <2> QED BY <2>1 DEF RunInv
  <1>11. CASE UNCHANGED vars
    BY <1>11 DEF vars, device, history, RunInv, Active
  <1> QED
    BY <1>1, <1>2, <1>3, <1>4, <1>5, <1>6, <1>7, <1>8, <1>9, <1>10, <1>11, Zenon DEF Next

-----------------------------------------------------------------------------
(* The code from before is stored when it may be overwritten. *)

LEMMA AheadFact ==
    /\ IsFiniteSet(Ahead) /\ Cardinality(Ahead) \in Nat /\ Cardinality(Ahead) <= MaxBackups
    /\ MaxBackups \in Nat
  <1>1. Ahead \in SUBSET Jobs /\ IsFiniteSet(Jobs) BY UploadAssumption DEF Ahead
  <1>2. IsFiniteSet(Ahead) /\ Cardinality(Ahead) <= Cardinality(Jobs) BY <1>1, FS_Subset
  <1>3. Cardinality(Ahead) \in Nat /\ Cardinality(Jobs) \in Nat
    BY <1>1, <1>2, FS_CardinalityType
  <1>4. MaxBackups \in Nat /\ Cardinality(Jobs) <= MaxBackups BY UploadAssumption
  <1> QED BY <1>2, <1>3, <1>4

LEMMA AheadFewer ==
    ASSUME NEW j \in Jobs, Others(j),
           job'[j].pc \in {"idle", "read"} => job[j].pc \in {"idle", "read"}
    PROVE  Cardinality(Ahead') \in Nat /\ Cardinality(Ahead') <= Cardinality(Ahead)
  <1>1. Ahead' \in SUBSET Ahead BY DEF Ahead, Others
  <1>2. IsFiniteSet(Ahead) BY AheadFact
  <1>3. IsFiniteSet(Ahead') /\ Cardinality(Ahead') <= Cardinality(Ahead)
    BY <1>1, <1>2, FS_Subset
  <1> QED BY <1>3, FS_CardinalityType

\* An upload that has read the code is no longer ahead.
LEMMA AheadOneLess ==
    ASSUME NEW j \in Jobs, Others(j), job[j].pc = "read", job'[j].pc = "save"
    PROVE  Cardinality(Ahead') \in Nat /\ Cardinality(Ahead') <= Cardinality(Ahead) - 1
  <1>1. Ahead' \in SUBSET Ahead BY DEF Ahead, Others
  <1>2. j \in Ahead /\ j \notin Ahead' BY DEF Ahead
  <1>3. IsFiniteSet(Ahead) /\ Cardinality(Ahead) \in Nat BY AheadFact
  <1>4. /\ IsFiniteSet(Ahead') /\ Cardinality(Ahead') <= Cardinality(Ahead)
        /\ Cardinality(Ahead') = Cardinality(Ahead) => Ahead' = Ahead
    BY <1>1, <1>3, FS_Subset
  <1>5. Cardinality(Ahead') \in Nat BY <1>4, FS_CardinalityType
  <1> QED BY <1>2, <1>3, <1>4, <1>5

KeptThen(s) ==
    \E k \in DOMAIN s :
        s[k].code = calm'.code /\ Len(s) - k + Cardinality(Ahead') < MaxBackups

LEMMA KeptNext ==
    /\ Kept(backups)' <=> KeptThen(backups')
    /\ Kept(disk)' <=> KeptThen(disk')
    /\ Safe' <=> KeptThen(backups') /\ KeptThen(disk')
  BY DEF Kept, KeptThen, Safe

LEMMA KeptFewer ==
    ASSUME NEW s \in Seq(Backups), calm'.code = calm.code, Cardinality(Ahead') \in Nat,
           Cardinality(Ahead') <= Cardinality(Ahead), Kept(s)
    PROVE  KeptThen(s)
  <1>1. Cardinality(Ahead) \in Nat /\ MaxBackups \in Nat BY AheadFact
  <1>2. PICK k \in DOMAIN s :
           s[k].code = calm.code /\ Len(s) - k + Cardinality(Ahead) < MaxBackups
    BY DEF Kept
  <1>3. k \in Nat /\ Len(s) \in Nat OBVIOUS
  <1>4. Len(s) - k + Cardinality(Ahead') < MaxBackups BY <1>1, <1>2, <1>3
  <1> QED BY <1>2, <1>4 DEF KeptThen

\* A step after which the repository is what it was.
LEMMA SafeKept ==
    ASSUME TypeOK, NEW j \in Jobs, Others(j), calm' = calm,
           job'[j].pc \in {"idle", "read"} => job[j].pc \in {"idle", "read"},
           backups' = backups, disk' = disk
    PROVE  (Kept(backups) => Kept(backups)') /\ (Safe => Safe')
  <1>1. Cardinality(Ahead') \in Nat /\ Cardinality(Ahead') <= Cardinality(Ahead)
    BY AheadFewer
  <1>2. backups \in Seq(Backups) /\ disk \in Seq(Backups) BY DEF TypeOK
  <1>3. (Kept(backups) => KeptThen(backups)) /\ (Kept(disk) => KeptThen(disk))
    BY <1>1, <1>2, KeptFewer
  <1> QED BY <1>3, KeptNext DEF Safe

\* What an upload has read is stored behind what was stored, and pushes out the oldest.
LEMMA AddedKept ==
    ASSUME TypeOK, NEW j \in Jobs, Others(j), calm' = calm,
           job[j].pc = "read", job'[j].pc = "save", disk' = disk,
           NEW b \in Backups, backups' = Added(b)
    PROVE  /\ Kept(backups) => Kept(backups)'
           /\ Safe => Safe'
           /\ b.code = calm.code => Kept(backups)'
  <1>1. Cardinality(Ahead') \in Nat /\ Cardinality(Ahead') <= Cardinality(Ahead) - 1
    BY AheadOneLess
  <1>2. Cardinality(Ahead) \in Nat /\ MaxBackups \in Nat /\ Cardinality(Ahead) <= MaxBackups
    BY AheadFact
  <1>3. /\ backups \in Seq(Backups) /\ disk \in Seq(Backups) /\ Len(backups) <= MaxBackups
        /\ Len(backups) \in Nat
    BY DEF TypeOK
  <1> DEFINE all == Added(b)
             n == Len(backups)
  <1>4. all \in Seq(Backups) /\ \E d \in {0, 1} :
           /\ d = 1 => n = MaxBackups
           /\ Len(all) = n + 1 - d
           /\ \A k \in 1..n : k - d >= 1 => all[k - d] = backups[k]
           /\ all[n + 1 - d] = b
    BY <1>3, AddedFact, JobsFact
  <1>5. PICK d \in {0, 1} :
           /\ d = 1 => n = MaxBackups
           /\ Len(all) = n + 1 - d
           /\ \A k \in 1..n : k - d >= 1 => all[k - d] = backups[k]
           /\ all[n + 1 - d] = b
    BY <1>4
  <1> HIDE DEF all, n
  <1>6. n \in Nat /\ MaxBackups >= 1 /\ n <= MaxBackups BY <1>3, JobsFact DEF n
  <1>7. ASSUME Kept(backups) PROVE KeptThen(all)
    <2>1. PICK k \in 1..n :
             backups[k].code = calm.code /\ n - k + Cardinality(Ahead) < MaxBackups
      BY <1>3, <1>7 DEF Kept, n
    <2>2. k - d >= 1 /\ k - d \in 1..(n + 1 - d) BY <1>1, <1>2, <1>5, <1>6, <2>1
    <2>3. all[k - d].code = calm'.code BY <1>5, <2>1, <2>2
    <2>4. (n + 1 - d) - (k - d) + Cardinality(Ahead') < MaxBackups
      BY <1>1, <1>2, <1>5, <1>6, <2>1, SMTT(30)
    <2>5. k - d \in DOMAIN all BY <1>4, <1>5, <2>2
    <2>6. Len(all) - (k - d) + Cardinality(Ahead') < MaxBackups BY <1>5, <2>4
    <2> QED BY <2>3, <2>5, <2>6 DEF KeptThen
  <1>8. ASSUME b.code = calm.code PROVE KeptThen(all)
    <2>1. n + 1 - d \in 1..(n + 1 - d) BY <1>5, <1>6
    <2>2. n + 1 - d \in DOMAIN all BY <1>4, <1>5, <2>1
    <2>3. all[n + 1 - d].code = calm'.code BY <1>5, <1>8
    <2>4. Len(all) - (n + 1 - d) + Cardinality(Ahead') < MaxBackups BY <1>1, <1>2, <1>5, <1>6
    <2> QED BY <2>2, <2>3, <2>4 DEF KeptThen
  <1>9. Kept(disk) => KeptThen(disk)
    <2>1. Cardinality(Ahead') <= Cardinality(Ahead) BY <1>1, <1>2
    <2> QED BY <1>1, <1>3, <2>1, KeptFewer
  <1> QED BY <1>7, <1>8, <1>9, KeptNext DEF Safe, all

JobSafeThen(j) ==
    /\ job'[j].pc = "read" => Safe' \/ (code' = calm'.code /\ IsPrefix(job'[j].got, code'))
    /\ job'[j].pc = "save" /\ job'[j].does = "upload" => Kept(backups)'
    /\ job'[j].pc \in {"status", "stop", "put", "verify", "start"}
       /\ job'[j].does = "upload" => Safe'

LEMMA SafeParts ==
    /\ SafeInv' <=>
          (~discarded' =>
              /\ \A j \in Jobs : JobSafeThen(j)
              /\ (\E cmd \in late' : cmd.op = "put") => Safe'
              /\ code' # calm'.code => Safe')
    /\ SafeInv <=>
          (~discarded =>
              /\ \A j \in Jobs : JobSafe(j)
              /\ (\E cmd \in late : cmd.op = "put") => Safe
              /\ code # calm.code => Safe)
  <1>1. \A j \in Jobs : JobSafe(j)' <=> JobSafeThen(j) BY DEF JobSafe, JobSafeThen
  <1> HIDE DEF JobSafe
  <1>2. SafeInv' <=>
          (~discarded' =>
              /\ \A j \in Jobs : JobSafe(j)'
              /\ (\E cmd \in late' : cmd.op = "put") => Safe'
              /\ code' # calm'.code => Safe')
    BY DEF SafeInv
  <1> QED BY <1>1, <1>2 DEF SafeInv

LEMMA SafeSame ==
    ASSUME SafeInv, NEW j \in Jobs, Others(j), Since,
           ~discarded => (Kept(backups) => Kept(backups)') /\ (Safe => Safe'),
           ~discarded => code' = code \/ Safe',
           ~discarded => ((\E cmd \in late' : cmd.op = "put") =>
                             (\E cmd \in late : cmd.op = "put") \/ Safe'),
           ~discarded => JobSafeThen(j)
    PROVE  SafeInv'
  <1> SUFFICES ASSUME ~discarded'
               PROVE  /\ \A i \in Jobs : JobSafeThen(i)
                      /\ (\E cmd \in late' : cmd.op = "put") => Safe'
                      /\ code' # calm'.code => Safe'
    BY SafeParts
  <1>1. ~discarded /\ calm' = calm BY DEF Since
  <1>2. /\ \A i \in Jobs : JobSafe(i)
        /\ (\E cmd \in late : cmd.op = "put") => Safe
        /\ code # calm.code => Safe
    BY <1>1, SafeParts
  <1>3. ASSUME NEW i \in Jobs PROVE JobSafeThen(i)
    <2>1. CASE i = j BY <1>1, <2>1
    <2>2. CASE i # j
      <3>1. job'[i] = job[i] BY <2>2 DEF Others
      <3>2. JobSafe(i) BY <1>2
      <3>3. code' = code \/ Safe' BY <1>1
      <3> QED BY <1>1, <3>1, <3>2, <3>3 DEF JobSafe, JobSafeThen
    <2> QED BY <2>1, <2>2
  <1>4. (\E cmd \in late' : cmd.op = "put") => Safe' BY <1>1, <1>2
  <1>5. code' # calm'.code => Safe' BY <1>1, <1>2
  <1> QED BY <1>3, <1>4, <1>5

LEMMA SafeBegun ==
    ASSUME TypeOK, SafeInv, NEW j \in Jobs, Others(j), Began, job[j] = Idle,
           UNCHANGED <<code, late, backups, disk>>,
           job'[j].pc = "read" => job'[j].got = << >>,
           job'[j].pc = "read" \/ job'[j].does # "upload"
    PROVE  SafeInv'
  <1> SUFFICES ASSUME ~discarded'
               PROVE  /\ \A i \in Jobs : JobSafeThen(i)
                      /\ (\E cmd \in late' : cmd.op = "put") => Safe'
                      /\ code' # calm'.code => Safe'
    BY SafeParts
  <1>1. IsPrefix(<< >>, code)
    <2>1. code \in Seq(Chars) BY DEF TypeOK
    <2>2. Len(<< >>) = 0 /\ SubSeq(<< >>, 1, 0) = << >> /\ SubSeq(code, 1, 0) = << >>
          /\ 0 <= Len(code)
      BY <2>1
    <2> QED BY <2>2 DEF IsPrefix
  <1>2. CASE Quiet
    <2>1. calm'.code = code' BY <1>2 DEF Began
    <2>2. late' = {} /\ \A i \in Jobs : job[i].pc \in {"idle", "ok", "failed"}
      BY <1>2, QuietFact
    <2>3. ASSUME NEW i \in Jobs PROVE JobSafeThen(i)
      <3>1. CASE i = j BY <1>1, <2>1, <3>1 DEF JobSafeThen
      <3>2. CASE i # j BY <2>2, <3>2 DEF JobSafeThen, Others
      <3> QED BY <3>1, <3>2
    <2> QED BY <2>1, <2>2, <2>3
  <1>3. CASE ~Quiet
    <2>1. calm' = calm /\ ~discarded BY <1>3 DEF Began
    <2>2. /\ \A i \in Jobs : JobSafe(i)
          /\ (\E cmd \in late : cmd.op = "put") => Safe
          /\ code # calm.code => Safe
      BY <2>1, SafeParts
    <2>3. job[j].pc = "idle" BY DEF Idle
    <2>4. (Kept(backups) => Kept(backups)') /\ (Safe => Safe') BY <2>1, <2>3, SafeKept
    <2>5. ASSUME NEW i \in Jobs PROVE JobSafeThen(i)
      <3>1. CASE i = j BY <1>1, <2>1, <2>2, <2>4, <3>1 DEF JobSafeThen
      <3>2. CASE i # j
        <4>1. job'[i] = job[i] BY <3>2 DEF Others
        <4>2. JobSafe(i) BY <2>2
        <4> QED BY <2>1, <2>4, <4>1, <4>2 DEF JobSafe, JobSafeThen
      <3> QED BY <3>1, <3>2
    <2> QED BY <2>1, <2>2, <2>4, <2>5
  <1> QED BY <1>2, <1>3

LEMMA SafeStep ==
    ASSUME TypeOK, JobsInv, SavingInv, SafeInv, [Next]_vars
    PROVE  SafeInv'
  <1>l. \A k \in DOMAIN saving : saving[k].list \in Seq(Backups) BY SavingFact, TypeParts
  <1>t. \A j \in Jobs : job[j] \in JobType BY DEF TypeOK
  <1>i. \A j \in Jobs : JobInv(j) BY DEF JobsInv
  <1>s. ~discarded =>
           /\ \A j \in Jobs : JobSafe(j)
           /\ (\E cmd \in late : cmd.op = "put") => Safe
           /\ code # calm.code => Safe
    BY SafeParts
  <1>1. ASSUME NEW j \in Jobs, NEW text \in Texts, Upload(j, text) PROVE SafeInv'
    <2>1. /\ Others(j) /\ Began /\ job[j] = Idle
          /\ job'[j] = [Idle EXCEPT !.does = "upload", !.pc = "read", !.text = text,
                                    !.todo = Chunks(text)]
          /\ UNCHANGED <<code, late, backups, disk>>
      BY <1>1, UploadFact
    <2>2. job'[j].pc = "read" /\ job'[j].got = << >> BY <2>1 DEF Idle
    <2> QED BY <2>1, <2>2, SafeBegun
  <1>2. ASSUME NEW j \in Jobs, NEW does \in {"start", "stop", "restart"}, Control(j, does)
        PROVE  SafeInv'
    <2>1. /\ Others(j) /\ Began /\ job[j] = Idle
          /\ job'[j] = [Idle EXCEPT !.does = does,
                                    !.pc = IF does = "start" THEN "start" ELSE "stop"]
          /\ UNCHANGED <<code, late, backups, disk>>
      BY <1>2, ControlFact
    <2>2. job'[j].pc # "read" /\ job'[j].does # "upload" BY <2>1 DEF Idle
    <2> QED BY <2>1, <2>2, SafeBegun
  <1>3. ASSUME NEW j \in Jobs, NEW id \in Jobs, Delete(j, id) PROVE SafeInv'
    BY <1>3, DeleteFact, SafeParts
  <1>4. ASSUME NEW j \in Jobs, Saved(j) PROVE SafeInv'
    <2>1. /\ Others(j) /\ Since /\ job[j].pc = "save"
          /\ job'[j].pc = (IF job[j].does = "delete" THEN "ok" ELSE "status")
          /\ job'[j] = [job[j] EXCEPT !.pc = job'[j].pc]
          /\ UNCHANGED <<code, late, backups>>
          /\ \E k \in DOMAIN saving : disk' = saving[k].list
      BY <1>4, SavedFact
    <2>2. job'[j].does = job[j].does BY <1>t, <2>1 DEF JobType
    <2>3. calm' = calm BY <2>1 DEF Since
    <2>4. Cardinality(Ahead') \in Nat /\ Cardinality(Ahead') <= Cardinality(Ahead)
      BY <2>1, AheadFewer
    <2>5. backups \in Seq(Backups) BY DEF TypeOK
    <2>6. Kept(backups) => KeptThen(backups') BY <2>1, <2>3, <2>4, <2>5, KeptFewer
    <2>7. ~discarded => KeptThen(disk')
      <3>1. PICK k \in DOMAIN saving : disk' = saving[k].list BY <2>1
      <3>2. ~discarded => Kept(saving[k].list) BY DEF SavingInv
      <3>3. saving[k].list \in Seq(Backups) BY <1>l
      <3> QED BY <2>3, <2>4, <3>1, <3>2, <3>3, KeptFewer
    <2>8. ~discarded /\ Kept(backups) => Safe' BY <2>6, <2>7, KeptNext
    <2>9. ~discarded => JobSafeThen(j)
      <3>1. JobSafe(j) /\ job'[j].does = "upload" => Kept(backups)
        BY <2>1, <2>2 DEF JobSafe
      <3> QED BY <1>s, <2>1, <2>2, <2>8, <3>1 DEF JobSafeThen
    <2>10. ~discarded => (Kept(backups) => Kept(backups)') /\ (Safe => Safe')
      BY <2>6, <2>8, KeptNext DEF Safe
    <2> QED BY <2>1, <2>9, <2>10, SafeSame
  <1>5. ASSUME NEW j \in Jobs, Read(j) PROVE SafeInv'
    <2> DEFINE got == job[j].got
               more == got \o Piece(code, Bytes(got))
    <2>1. /\ Others(j) /\ Since /\ job[j].pc \in {"read", "verify"}
          /\ UNCHANGED <<code, late, disk>> /\ more \in Seq(Chars)
          /\ \/ ReadsOn(j, more) \/ ReadsInVain(j) \/ ReadToBackUp(j, more)
             \/ ReadToVerify(j, more)
      BY <1>5, ReadEffect
    <2>2. /\ IsPrefix(got, code) => IsPrefix(more, code)
          /\ IsPrefix(got, code) /\ From(code, Bytes(more)) = << >> => more = code
      <3>1. code \in Seq(Chars) /\ got \in Seq(Chars) BY <1>t DEF TypeOK, JobType
      <3> HIDE DEF got
      <3> QED BY <3>1, ReadFact
    <2> HIDE DEF more
    <2>3. calm' = calm BY <2>1 DEF Since
    <2>4. job[j].does = "upload" BY <1>i, <2>1 DEF JobInv
    <2>5. ASSUME ReadToBackUp(j, more) PROVE SafeInv'
      <3>1. /\ job[j].pc = "read" /\ job'[j].pc = "save" /\ From(code, Bytes(more)) = << >>
        BY <1>t, <2>5 DEF ReadToBackUp, JobType
      <3> DEFINE b == [id |-> j, code |-> more]
      <3>2. b \in Backups /\ b.code = more BY <2>1 DEF Backups
      <3>3. backups' = Added(b) BY <2>5 DEF ReadToBackUp
      <3> HIDE DEF b
      <3>4. /\ Kept(backups) => Kept(backups)'
            /\ Safe => Safe'
            /\ b.code = calm.code => Kept(backups)'
        BY <2>1, <2>3, <3>1, <3>2, <3>3, AddedKept
      <3>5. ~discarded => Kept(backups)'
        <4>1. JobSafe(j) => Safe \/ (code = calm.code /\ IsPrefix(got, code))
          BY <3>1 DEF JobSafe
        <4>2. Safe => Kept(backups) BY DEF Safe
        <4> QED BY <1>s, <2>2, <3>1, <3>2, <3>4, <4>1, <4>2
      <3>6. ~discarded => JobSafeThen(j) BY <3>1, <3>5 DEF JobSafeThen
      <3> QED BY <2>1, <3>4, <3>6, SafeSame
    <2>6. ASSUME ReadsOn(j, more) \/ ReadsInVain(j) \/ ReadToVerify(j, more) PROVE SafeInv'
      <3>1. /\ backups' = backups
            /\ \/ job'[j].pc = job[j].pc /\ job'[j].got = more
               \/ job'[j].pc = "failed"
               \/ job'[j].pc \in {"start", "ok", "failed"} /\ job[j].pc = "verify"
        BY <1>t, <2>6, Zenon DEF ReadsOn, ReadsInVain, ReadToVerify, JobType
      <3>2. (Kept(backups) => Kept(backups)') /\ (Safe => Safe')
        BY <2>1, <2>3, <3>1, SafeKept
      <3>3. ~discarded => JobSafeThen(j)
        <4>1. CASE job[j].pc = "read"
          <5>1. JobSafe(j) => Safe \/ (code = calm.code /\ IsPrefix(got, code))
            BY <4>1 DEF JobSafe
          <5> QED BY <1>s, <2>1, <2>2, <2>3, <3>1, <3>2, <4>1, <5>1 DEF JobSafeThen
        <4>2. CASE job[j].pc = "verify"
          <5>1. JobSafe(j) => Safe BY <2>4, <4>2 DEF JobSafe
          <5> QED BY <1>s, <3>1, <3>2, <4>2, <5>1 DEF JobSafeThen
        <4> QED BY <2>1, <4>1, <4>2
      <3> QED BY <2>1, <3>2, <3>3, SafeSame
    <2> QED BY <2>1, <2>5, <2>6
  <1>6. ASSUME NEW j \in Jobs, Status(j) PROVE SafeInv'
    <2>1. /\ Others(j) /\ Since /\ job[j].pc = "status"
          /\ job'[j] = [job[j] EXCEPT !.was = running, !.pc = IF running THEN "stop" ELSE "put"]
          /\ UNCHANGED <<code, late, backups, disk>>
      BY <1>6, StatusFact
    <2>2. job'[j].does = job[j].does /\ job'[j].pc \in {"stop", "put"}
      <3>1. /\ job'[j].does = job[j].does
            /\ job'[j].pc = (IF running THEN "stop" ELSE "put")
        BY <1>t, <2>1 DEF JobType
      <3>2. CASE running BY <3>1, <3>2
      <3>3. CASE ~running BY <3>1, <3>3
      <3> QED BY <3>2, <3>3
    <2>3. calm' = calm BY <2>1 DEF Since
    <2>4. (Kept(backups) => Kept(backups)') /\ (Safe => Safe')
      BY <2>1, <2>2, <2>3, SafeKept
    <2>5. ~discarded => JobSafeThen(j)
      <3>1. JobSafe(j) /\ job[j].does = "upload" => Safe BY <2>1 DEF JobSafe
      <3> QED BY <1>s, <2>2, <2>4, <3>1 DEF JobSafeThen
    <2> QED BY <2>1, <2>4, <2>5, SafeSame
  <1>7. ASSUME NEW j \in Jobs, Answered(j) PROVE SafeInv'
    <2>1. /\ Others(j) /\ Since /\ Answer(j) /\ Execute(Request(j))
          /\ UNCHANGED <<late, backups, disk>>
      BY <1>7, AnsweredFact
    <2>2. job[j].pc \in {"stop", "put", "start"} BY <1>7 DEF Answered
    <2>3. Request(j) \in Commands /\ Request(j).op = job[j].pc BY <2>2, RequestFact
    <2>4. calm' = calm BY <2>1 DEF Since
    <2>5. /\ job'[j].does = job[j].does
          /\ job'[j].pc \in {"put", "start", "ok", "verify", "failed"}
      BY <2>1, AnswerKeeps
    <2>6. (Kept(backups) => Kept(backups)') /\ (Safe => Safe')
      BY <2>1, <2>4, <2>5, SafeKept
    <2>7. ~discarded /\ job[j].does = "upload" => Safe
      <3>1. JobSafe(j) /\ job[j].does = "upload" => Safe BY <2>2 DEF JobSafe
      <3> QED BY <1>s, <3>1
    <2>8. job[j].pc = "put" => job[j].does = "upload" BY <1>i DEF JobInv
    <2>9. job[j].pc # "put" => code' = code BY <2>1, <2>3, ExecuteFact
    <2>10. ~discarded => JobSafeThen(j) BY <2>5, <2>6, <2>7 DEF JobSafeThen
    <2> QED BY <2>1, <2>6, <2>7, <2>8, <2>9, <2>10, SafeSame
  <1>8. ASSUME NEW j \in Jobs, CallFails(j) PROVE SafeInv'
    <2>1. /\ Others(j) /\ Since
          /\ job[j].pc \in {"read", "status", "stop", "put", "verify", "start"}
          /\ \E e \in BOOLEAN, pc \in {"start", "ok", "failed"} :
                /\ job'[j] = [job[j] EXCEPT !.err = e, !.pc = pc]
                /\ pc = "start" => job[j].was
                /\ job[j].pc \in {"put", "verify"} /\ job[j].was => pc = "start"
          /\ UNCHANGED <<code, backups, disk>>
          /\ \/ late' = late
             \/ late' = late \cup {Request(j)} /\ job[j].pc \in {"stop", "put", "start"}
      BY <1>8, CallFailsFact, Zenon
    <2>2. /\ job'[j].does = job[j].does /\ job'[j].pc \in {"start", "ok", "failed"}
          /\ job'[j].pc = "start" => job[j].was
      BY <1>t, <2>1 DEF JobType
    <2>3. calm' = calm BY <2>1 DEF Since
    <2>4. (Kept(backups) => Kept(backups)') /\ (Safe => Safe')
      BY <2>1, <2>2, <2>3, SafeKept
    <2>5. JobInv(j) BY <1>i
    <2>6. ~discarded /\ job[j].was => Safe
      <3>1. job[j].was => job[j].does = "upload" /\ job[j].pc \notin {"read"}
        BY <2>5 DEF JobInv
      <3>2. JobSafe(j) /\ job[j].was => Safe BY <2>1, <3>1 DEF JobSafe
      <3> QED BY <1>s, <3>2
    <2>7. ~discarded => JobSafeThen(j) BY <2>2, <2>4, <2>6 DEF JobSafeThen
    <2>8. ~discarded => ((\E cmd \in late' : cmd.op = "put") =>
                            (\E cmd \in late : cmd.op = "put") \/ Safe')
      <3>1. job[j].pc \in {"stop", "put", "start"} => Request(j).op = job[j].pc
        BY RequestFact
      <3>2. job[j].pc = "put" => job[j].does = "upload" BY <2>5 DEF JobInv
      <3>3. JobSafe(j) /\ job[j].pc = "put" => Safe BY <3>2 DEF JobSafe
      <3>4. ~discarded /\ job[j].pc = "put" => Safe' BY <1>s, <2>4, <3>3
      <3> QED BY <2>1, <3>1, <3>4
    <2> QED BY <2>1, <2>4, <2>7, <2>8, SafeSame
  <1>9. ASSUME NEW cmd \in late, LateExecutes(cmd) \/ LateLost(cmd) PROVE SafeInv'
    <2> SUFFICES ASSUME ~discarded'
                 PROVE  /\ \A j \in Jobs : JobSafeThen(j)
                        /\ (\E c \in late' : c.op = "put") => Safe'
                        /\ code' # calm'.code => Safe'
      BY SafeParts
    <2>1. /\ Since /\ late' = late \ {cmd} /\ UNCHANGED <<backups, disk, job>>
          /\ Execute(cmd) \/ UNCHANGED <<code, running>>
      BY <1>9, LateFact
    <2>2. calm' = calm /\ ~discarded BY <2>1 DEF Since
    <2>3. cmd \in Commands BY DEF TypeOK
    <2>4. (Kept(backups) <=> Kept(backups)') /\ (Safe <=> Safe')
      BY <2>1, <2>2 DEF Kept, Safe, Ahead
    <2>5. code' = code \/ Safe'
      <3>1. cmd.op = "put" => Safe' BY <1>s, <2>2, <2>4
      <3>2. cmd.op # "put" => code' = code BY <2>1, <2>3, ExecuteFact
      <3> QED BY <3>1, <3>2
    <2>6. ASSUME NEW j \in Jobs PROVE JobSafeThen(j)
      <3>1. JobSafe(j) BY <1>s, <2>2
      <3> QED BY <2>1, <2>2, <2>4, <2>5, <3>1 DEF JobSafe, JobSafeThen
    <2> QED BY <1>s, <2>1, <2>2, <2>4, <2>5, <2>6
  <1>10. CASE Restart
    <2> SUFFICES ASSUME ~discarded'
                 PROVE  /\ \A j \in Jobs : JobSafeThen(j)
                        /\ (\E c \in late' : c.op = "put") => Safe'
                        /\ code' # calm'.code => Safe'
      BY SafeParts
    <2>1. /\ Since /\ backups' = disk' /\ UNCHANGED <<code, late>>
          /\ disk' = disk \/ \E k \in DOMAIN saving : disk' = saving[k].list
          /\ \A j \in Jobs :
                \/ job[j].pc \in {"idle", "ok", "failed"} /\ job'[j] = job[j]
                \/ /\ job[j].pc \notin {"idle", "ok", "failed"}
                   /\ job'[j] = [job[j] EXCEPT !.pc = "failed"]
      BY <1>10, RestartFact
    <2>2. calm' = calm /\ ~discarded BY <2>1 DEF Since
    <2>3. \A j \in Jobs : job'[j].pc \in {"idle", "ok", "failed"}
                          /\ (job'[j].pc = "idle" => job[j].pc = "idle")
      BY <1>t, <2>1 DEF JobType
    <2>4. Ahead' \in SUBSET Ahead BY <2>3 DEF Ahead
    <2>5. Cardinality(Ahead') \in Nat /\ Cardinality(Ahead') <= Cardinality(Ahead)
      BY <2>4, AheadFact, FS_Subset, FS_CardinalityType
    <2>6. disk \in Seq(Backups) BY DEF TypeOK
    <2>7. Kept(disk) => KeptThen(disk) BY <2>2, <2>5, <2>6, KeptFewer
    <2>10. ASSUME NEW k \in DOMAIN saving PROVE KeptThen(saving[k].list)
      <3>1. Kept(saving[k].list) BY <2>2 DEF SavingInv
      <3>2. saving[k].list \in Seq(Backups) BY <1>l
      <3> QED BY <2>2, <2>5, <3>1, <3>2, KeptFewer
    <2>11. Safe => KeptThen(disk') BY <2>1, <2>7, <2>10 DEF Safe
    <2>8. Safe => Safe' BY <2>1, <2>11, KeptNext
    <2>9. \A j \in Jobs : JobSafeThen(j) BY <2>3 DEF JobSafeThen
    <2> QED BY <1>s, <2>1, <2>2, <2>8, <2>9
  <1>11. CASE UNCHANGED vars
    <2>1. UNCHANGED <<code, late, backups, disk, job, calm, discarded>>
      BY <1>11 DEF vars, device, repository, history
    <2>2. Ahead' = Ahead BY <2>1 DEF Ahead
    <2>3. (Kept(backups) <=> Kept(backups)') /\ (Safe <=> Safe')
      BY <2>1, <2>2 DEF Kept, Safe
    <2> QED BY <2>1, <2>3 DEF SafeInv, JobSafe
  <1> QED
    BY <1>1, <1>2, <1>3, <1>4, <1>5, <1>6, <1>7, <1>8, <1>9, <1>10, <1>11, Zenon DEF Next

-----------------------------------------------------------------------------
(* The saves under way. *)

LEMMA EntryParts ==
    ASSUME \A k \in DOMAIN saving' :
              /\ job'[saving'[k].by].pc = "save"
              /\ \A l \in DOMAIN saving' : saving'[l].by = saving'[k].by => l = k
              /\ ~discarded' => KeptThen(saving'[k].list)
    PROVE  SavingInv'
  BY DEF SavingInv, Kept, KeptThen

\* No job comes to be ahead of a backup again; and what a step that is not the first
\* after a calm does to the history.
LEMMA OnwardFact ==
    ASSUME TypeOK, JobsInv, [Next]_vars
    PROVE  /\ Ahead' \in SUBSET Ahead
           /\ Quiet \/ (calm' = calm /\ (discarded => discarded'))
  <1> DEFINE Fewer == \A i \in Jobs :
                         job'[i].pc \in {"idle", "read"} => job[i].pc \in {"idle", "read"}
             Hist == Quiet \/ (calm' = calm /\ (discarded => discarded'))
  <1> SUFFICES Fewer /\ Hist BY DEF Ahead
  <1>s. Since => Hist BY DEF Since
  <1>b. Began => Hist BY DEF Began
  <1>o. ASSUME NEW j \in Jobs, Others(j), job[j].pc \in {"idle", "read"}
                                         \/ job'[j].pc \notin {"idle", "read"}
        PROVE  Fewer
    BY <1>o DEF Others
  <1>t. \A j \in Jobs : job[j] \in JobType BY DEF TypeOK
  <1> HIDE DEF Hist, Fewer
  <1>1. ASSUME NEW j \in Jobs, NEW text \in Texts, Upload(j, text) PROVE Fewer /\ Hist
    <2>1. Others(j) /\ Began /\ job[j] = Idle BY <1>1, UploadFact
    <2> QED BY <1>b, <1>o, <2>1 DEF Idle
  <1>2. ASSUME NEW j \in Jobs, NEW does \in {"start", "stop", "restart"}, Control(j, does)
        PROVE  Fewer /\ Hist
    <2>1. Others(j) /\ Began /\ job[j] = Idle BY <1>2, ControlFact
    <2> QED BY <1>b, <1>o, <2>1 DEF Idle
  <1>3. ASSUME NEW j \in Jobs, NEW id \in Jobs, Delete(j, id) PROVE Fewer /\ Hist
    <2>1. Others(j) /\ Began /\ job[j] = Idle BY <1>3, DeleteFact
    <2> QED BY <1>b, <1>o, <2>1 DEF Idle
  <1>4. ASSUME NEW j \in Jobs, Saved(j) PROVE Fewer /\ Hist
    <2>1. /\ Others(j) /\ Since
          /\ job'[j].pc = (IF job[j].does = "delete" THEN "ok" ELSE "status")
      BY <1>4, SavedFact
    <2> QED BY <1>s, <1>o, <2>1
  <1>5. ASSUME NEW j \in Jobs, Read(j) PROVE Fewer /\ Hist
    <2> DEFINE more == job[j].got \o Piece(code, Bytes(job[j].got))
    <2>1. /\ Others(j) /\ Since /\ job[j].pc \in {"read", "verify"}
          /\ \/ ReadsOn(j, more) \/ ReadsInVain(j) \/ ReadToBackUp(j, more)
             \/ ReadToVerify(j, more)
      BY <1>5, ReadEffect
    <2> HIDE DEF more
    <2>2. \/ job'[j].pc = job[j].pc \/ job'[j].pc \in {"failed", "save", "start", "ok"}
      BY <1>t, <2>1, Zenon DEF ReadsOn, ReadsInVain, ReadToBackUp, ReadToVerify, JobType
    <2> QED BY <1>s, <1>o, <2>1, <2>2
  <1>6. ASSUME NEW j \in Jobs, Status(j) PROVE Fewer /\ Hist
    <2>1. /\ Others(j) /\ Since
          /\ job'[j] = [job[j] EXCEPT !.was = running, !.pc = IF running THEN "stop" ELSE "put"]
      BY <1>6, StatusFact
    <2>2. job'[j].pc = (IF running THEN "stop" ELSE "put") BY <1>t, <2>1 DEF JobType
    <2> QED BY <1>s, <1>o, <2>1, <2>2
  <1>7. ASSUME NEW j \in Jobs, Answered(j) PROVE Fewer /\ Hist
    <2>1. Others(j) /\ Since /\ Answer(j) BY <1>7, AnsweredFact
    <2>2. job'[j].pc \in {"put", "start", "ok", "verify", "failed"}
      BY <1>7, <2>1, AnswerKeeps DEF Answered
    <2> QED BY <1>s, <1>o, <2>1, <2>2
  <1>8. ASSUME NEW j \in Jobs, CallFails(j) PROVE Fewer /\ Hist
    <2>1. /\ Others(j) /\ Since
          /\ \E e \in BOOLEAN, pc \in {"start", "ok", "failed"} :
                job'[j] = [job[j] EXCEPT !.err = e, !.pc = pc]
      BY <1>8, CallFailsFact, Zenon
    <2>2. job'[j].pc \in {"start", "ok", "failed"} BY <1>t, <2>1 DEF JobType
    <2> QED BY <1>s, <1>o, <2>1, <2>2
  <1>9. ASSUME NEW cmd \in late, LateExecutes(cmd) \/ LateLost(cmd) PROVE Fewer /\ Hist
    <2>1. Since /\ job' = job BY <1>9, LateFact
    <2> QED BY <1>s, <2>1 DEF Fewer
  <1>10. CASE Restart
    <2>1. /\ Since
          /\ \A j \in Jobs :
                \/ job[j].pc \in {"idle", "ok", "failed"} /\ job'[j] = job[j]
                \/ /\ job[j].pc \notin {"idle", "ok", "failed"}
                   /\ job'[j] = [job[j] EXCEPT !.pc = "failed"]
      BY <1>10, RestartFact
    <2>2. Fewer BY <1>t, <2>1 DEF JobType, Fewer
    <2> QED BY <1>s, <2>1, <2>2
  <1>11. CASE UNCHANGED vars BY <1>11 DEF vars, history, Fewer, Hist
  <1> QED
    BY <1>1, <1>2, <1>3, <1>4, <1>5, <1>6, <1>7, <1>8, <1>9, <1>10, <1>11, Zenon DEF Next

LEMMA SavingStep ==
    ASSUME TypeOK, TypeOK', JobsInv, SavingInv, SafeInv', [Next]_vars
    PROVE  SavingInv'
  <1>1. SavingType BY TypeParts
  <1>2. \A k \in DOMAIN saving :
           /\ k \in 1..Len(saving) /\ saving[k].by \in Jobs /\ saving[k].list \in Seq(Backups)
           /\ job[saving[k].by].pc = "save"
           /\ \A l \in DOMAIN saving : saving[l].by = saving[k].by => l = k
    BY <1>1, SavingFact DEF SavingInv
  <1>3. ASSUME NEW k \in DOMAIN saving, ~discarded' PROVE KeptThen(saving[k].list)
    <2>1. ~Quiet BY <1>2, ActiveFact
    <2>2. calm' = calm /\ ~discarded /\ Ahead' \in SUBSET Ahead BY <1>3, <2>1, OnwardFact
    <2>3. Cardinality(Ahead') \in Nat /\ Cardinality(Ahead') <= Cardinality(Ahead)
      BY <2>2, AheadFact, FS_Subset, FS_CardinalityType
    <2>4. Kept(saving[k].list) BY <2>2 DEF SavingInv
    <2> QED BY <1>2, <2>2, <2>3, <2>4, KeptFewer
  <1>4. CASE SavesOn
    <2>1. saving' = saving BY <1>4 DEF SavesOn
    <2>2. \A k \in DOMAIN saving : job'[saving[k].by].pc = "save" BY <1>2, <1>4 DEF SavesOn, Waits
    <2> QED BY <1>2, <1>3, <2>1, <2>2, EntryParts
  <1>5. CASE saving' = << >>
    <2>1. \A k \in DOMAIN saving' : FALSE BY <1>5
    <2> QED BY <2>1, EntryParts
  <1>6. ASSUME NEW j \in Jobs, Asked(j) PROVE SavingInv'
    <2> DEFINE n == Len(saving)
    <2>1. backups' \in Seq(Backups) BY DEF TypeOK
    <2>2. /\ saving' \in Seq(Saves) /\ n \in Nat /\ Len(saving') = n + 1
          /\ \A k \in 1..n : saving'[k] = saving[k]
          /\ saving'[n + 1].by = j /\ saving'[n + 1].list = backups'
      BY <1>1, <1>6, <2>1, EntriesFact DEF Asked
    <2>3. DOMAIN saving' = 1..(n + 1) /\ DOMAIN saving = 1..n BY <1>1, <2>2 DEF SavingType
    <2>4. \A k \in 1..n : saving[k].by # j /\ job'[saving[k].by].pc = "save"
      BY <1>2, <1>6, <2>3 DEF Asked, Waits
    <2>5. ~discarded' => KeptThen(backups')
      <3>1. ~discarded' => JobSafeThen(j) BY SafeParts
      <3> QED BY <1>6, <3>1, KeptNext DEF JobSafeThen, Asked
    <2>6. job'[j].pc = "save" BY <1>6 DEF Asked
    <2> HIDE DEF n
    <2>7. ASSUME NEW k \in DOMAIN saving'
          PROVE  /\ job'[saving'[k].by].pc = "save"
                 /\ \A l \in DOMAIN saving' : saving'[l].by = saving'[k].by => l = k
                 /\ ~discarded' => KeptThen(saving'[k].list)
      <3>1. CASE k \in 1..n
        <4>1. saving'[k] = saving[k] /\ k \in DOMAIN saving BY <2>2, <2>3, <3>1
        <4>2. ASSUME NEW l \in DOMAIN saving', saving'[l].by = saving'[k].by PROVE l = k
          <5>1. CASE l \in 1..n BY <1>2, <2>2, <2>3, <3>1, <4>1, <4>2, <5>1
          <5>2. CASE l = n + 1 BY <2>2, <2>4, <3>1, <4>1, <4>2, <5>2
          <5> QED BY <2>2, <2>3, <5>1, <5>2
        <4> QED BY <1>3, <2>4, <3>1, <4>1, <4>2
      <3>2. CASE k = n + 1
        <4>1. ASSUME NEW l \in 1..n PROVE saving'[l].by # saving'[k].by
          BY <2>2, <2>4, <3>2
        <4>2. \A l \in DOMAIN saving' : l \in 1..n \/ l = k BY <2>2, <2>3, <3>2
        <4> QED BY <2>2, <2>5, <2>6, <3>2, <4>1, <4>2
      <3> QED BY <2>2, <2>3, <3>1, <3>2
    <2> QED BY <2>7, EntryParts
  <1>7. ASSUME NEW j \in Jobs, Written(j) PROVE SavingInv'
    <2> DEFINE n == Len(saving)
    <2>1. << >> \in Seq(Backups) OBVIOUS
    <2>2. /\ saving' \in Seq(Saves) /\ saving[1].by = j
          /\ n \in Nat /\ n >= 1 /\ Len(saving') = n - 1
          /\ \A k \in 1..(n - 1) : saving'[k] = saving[k + 1]
      <3>1. saving # << >> /\ Head(saving).by = j /\ saving' = Tail(saving)
        BY <1>7 DEF Written
      <3>2. saving \in Seq(Saves) BY <1>1 DEF SavingType
      <3> QED BY <3>1, <3>2, ShorterFact
    <2>3. DOMAIN saving' = 1..(n - 1) /\ DOMAIN saving = 1..n BY <1>1, <2>2 DEF SavingType
    <2>4. \A k \in DOMAIN saving : k # 1 => saving[k].by # j BY <1>2, <2>2, <2>3
    <2>5. \A k \in DOMAIN saving : k # 1 => job'[saving[k].by].pc = "save"
      BY <1>2, <1>7, <2>4 DEF Written, Others
    <2> HIDE DEF n
    <2>6. ASSUME NEW k \in DOMAIN saving'
          PROVE  /\ job'[saving'[k].by].pc = "save"
                 /\ \A l \in DOMAIN saving' : saving'[l].by = saving'[k].by => l = k
                 /\ ~discarded' => KeptThen(saving'[k].list)
      <3>1. \A l \in 1..(n - 1) : l + 1 \in 1..n /\ l + 1 # 1 BY <2>2
      <3>2. k + 1 \in DOMAIN saving /\ k + 1 # 1 /\ saving'[k] = saving[k + 1]
        BY <2>2, <2>3, <3>1
      <3>3. ASSUME NEW l \in DOMAIN saving', saving'[l].by = saving'[k].by PROVE l = k
        <4>1. l + 1 \in DOMAIN saving /\ saving'[l] = saving[l + 1] BY <2>2, <2>3, <3>1
        <4>2. l + 1 = k + 1 BY <1>2, <3>2, <3>3, <4>1
        <4>3. l \in Int /\ k \in Int BY <2>3
        <4> QED BY <4>2, <4>3
      <3> QED BY <1>3, <2>5, <3>2, <3>3
    <2> QED BY <2>6, EntryParts
  <1> QED BY <1>4, <1>5, <1>6, <1>7, SavingEffect

-----------------------------------------------------------------------------
(* What is not whole is being written or verified. *)

Whole == code = calm.code \/ \E i \in Jobs : job[i].does = "upload" /\ code = job[i].text
Mixing(j) == job[j].pc = "put" \/ (job[j].pc = "verify" /\ IsPrefix(job[j].got, code))

LEMMA MixParts ==
    MixInv <=> (~spoilt =>
        /\ \A cmd \in late : cmd.op # "put"
        /\ Whole \/ \E j \in Jobs : Mixing(j))
  BY DEF MixInv, Whole, Mixing, Uploaded

LEMMA MixPartsNext ==
    MixInv' <=> (~spoilt' =>
        /\ \A cmd \in late' : cmd.op # "put"
        /\ Whole' \/ \E j \in Jobs : Mixing(j)')
  BY DEF MixInv, Whole, Mixing, Uploaded

\* A step of one job that leaves the code as it is, and the texts uploaded.
LEMMA WholeKept ==
    ASSUME NEW j \in Jobs, Others(j), Whole, code' = code, calm' = calm,
           job[j].does = "upload" => job'[j].does = "upload" /\ job'[j].text = job[j].text
    PROVE  Whole'
  <1>1. CASE code = calm.code BY <1>1 DEF Whole
  <1>2. CASE \E i \in Jobs : job[i].does = "upload" /\ code = job[i].text
    <2>1. PICK i \in Jobs : job[i].does = "upload" /\ code = job[i].text BY <1>2
    <2>2. job'[i].does = "upload" /\ code' = job'[i].text
      <3>1. CASE i = j BY <2>1, <3>1
      <3>2. CASE i # j BY <2>1, <3>2 DEF Others
      <3> QED BY <3>1, <3>2
    <2> QED BY <2>2 DEF Whole
  <1> QED BY <1>1, <1>2 DEF Whole

LEMMA MixSame ==
    ASSUME MixInv, NEW j \in Jobs, Others(j), code' = code, calm' = calm,
           ~spoilt' => ~spoilt,
           job[j].does = "upload" => job'[j].does = "upload" /\ job'[j].text = job[j].text,
           ~spoilt' /\ (\A cmd \in late : cmd.op # "put") => \A cmd \in late' : cmd.op # "put",
           ~spoilt' /\ Mixing(j) => Mixing(j)' \/ Whole'
    PROVE  MixInv'
  <1> SUFFICES ASSUME ~spoilt'
               PROVE  /\ \A cmd \in late' : cmd.op # "put"
                      /\ Whole' \/ \E i \in Jobs : Mixing(i)'
    BY MixPartsNext
  <1>1. /\ \A cmd \in late : cmd.op # "put"
        /\ Whole \/ \E i \in Jobs : Mixing(i)
    BY MixParts
  <1>2. Whole => Whole' BY WholeKept
  <1>3. ASSUME NEW i \in Jobs, Mixing(i) PROVE Whole' \/ \E k \in Jobs : Mixing(k)'
    <2>1. CASE i = j BY <1>3, <2>1
    <2>2. CASE i # j
      <3>1. job'[i] = job[i] BY <2>2 DEF Others
      <3>2. Mixing(i)' BY <1>3, <3>1 DEF Mixing
      <3> QED BY <3>2
    <2> QED BY <2>1, <2>2
  <1> QED BY <1>1, <1>2, <1>3

LEMMA MixBegun ==
    ASSUME MixInv, NEW j \in Jobs, Others(j), Began, job[j] = Idle, UNCHANGED <<code, late>>
    PROVE  MixInv'
  <1>1. CASE Quiet
    <2>1. calm' = [code |-> code, running |-> running] BY <1>1 DEF Began
    <2>2. Whole' BY <2>1 DEF Whole
    <2>3. late' = {} BY <1>1, QuietFact
    <2> QED BY <2>2, <2>3, MixPartsNext
  <1>2. CASE ~Quiet
    <2>1. calm' = calm /\ (~spoilt' => ~spoilt) BY <1>2 DEF Began
    <2>2. job[j].does # "upload" /\ ~Mixing(j) BY DEF Idle, Mixing
    <2> QED BY <2>1, <2>2, MixSame
  <1> QED BY <1>1, <1>2

LEMMA EmptyPrefix ==
    ASSUME NEW text \in Seq(Chars)
    PROVE  IsPrefix(<< >>, text)
  <1>1. Len(<< >>) = 0 /\ SubSeq(<< >>, 1, 0) = << >> /\ SubSeq(text, 1, 0) = << >>
        /\ 0 <= Len(text)
    OBVIOUS
  <1> QED BY <1>1 DEF IsPrefix

LEMMA MixStep ==
    ASSUME TypeOK, JobsInv, MixInv, [Next]_vars
    PROVE  MixInv'
  <1>t. \A j \in Jobs : job[j] \in JobType BY DEF TypeOK
  <1>i. \A j \in Jobs : JobInv(j) BY DEF JobsInv
  <1>1. ASSUME NEW j \in Jobs, NEW text \in Texts, Upload(j, text) PROVE MixInv'
    BY <1>1, UploadFact, MixBegun
  <1>2. ASSUME NEW j \in Jobs, NEW does \in {"start", "stop", "restart"}, Control(j, does)
        PROVE  MixInv'
    BY <1>2, ControlFact, MixBegun
  <1>3. ASSUME NEW j \in Jobs, NEW id \in Jobs, Delete(j, id) PROVE MixInv'
    BY <1>3, DeleteFact, MixBegun
  <1>4. ASSUME NEW j \in Jobs, Saved(j) PROVE MixInv'
    <2>1. /\ Others(j) /\ Since /\ job[j].pc = "save"
          /\ job'[j] = [job[j] EXCEPT !.pc = job'[j].pc]
          /\ UNCHANGED <<code, late>>
      BY <1>4, SavedFact
    <2>2. job'[j].does = job[j].does /\ job'[j].text = job[j].text
      BY <1>t, <2>1 DEF JobType
    <2>3. calm' = calm /\ (~spoilt' => ~spoilt) /\ ~Mixing(j) BY <2>1 DEF Since, Mixing
    <2> QED BY <2>1, <2>2, <2>3, MixSame
  <1>5. ASSUME NEW j \in Jobs, Read(j) PROVE MixInv'
    <2> DEFINE got == job[j].got
               more == got \o Piece(code, Bytes(got))
    <2>1. /\ Others(j) /\ Since /\ job[j].pc \in {"read", "verify"}
          /\ UNCHANGED <<code, late>>
          /\ more \in Seq(Chars)
          /\ \/ ReadsOn(j, more) \/ ReadsInVain(j) \/ ReadToBackUp(j, more)
             \/ ReadToVerify(j, more)
      BY <1>5, ReadEffect
    <2>2. /\ IsPrefix(got, code) => IsPrefix(more, code)
          /\ IsPrefix(got, code) /\ From(code, Bytes(more)) = << >> => more = code
      <3>1. code \in Seq(Chars) /\ got \in Seq(Chars) BY <1>t DEF TypeOK, JobType
      <3> HIDE DEF got
      <3> QED BY <3>1, ReadFact
    <2> HIDE DEF more
    <2>4. job'[j].does = job[j].does /\ job'[j].text = job[j].text
      BY <1>t, <2>1, Zenon DEF ReadsOn, ReadsInVain, ReadToBackUp, ReadToVerify, JobType
    <2>5. calm' = calm /\ (~spoilt' => ~spoilt) BY <2>1 DEF Since
    <2>6. ~spoilt' /\ Mixing(j) => Mixing(j)' \/ Whole'
      <3> SUFFICES ASSUME ~spoilt', Mixing(j) PROVE Mixing(j)' \/ Whole' OBVIOUS
      <3>1. job[j].pc = "verify" /\ IsPrefix(job[j].got, code) BY <2>1 DEF Mixing
      <3>2. CASE ReadsOn(j, more)
        <4>1. job'[j].pc = "verify" /\ job'[j].got = more
          BY <1>t, <3>1, <3>2 DEF ReadsOn, JobType
        <4> QED BY <2>1, <2>2, <3>1, <4>1 DEF Mixing
      <3>3. CASE ReadToVerify(j, more)
        <4>1. more = job[j].text /\ From(code, Bytes(more)) = << >>
          BY <3>3 DEF ReadToVerify
        <4>2. code = job[j].text BY <2>2, <3>1, <4>1
        <4>3. JobInv(j) BY <1>i
        <4>4. job[j].does = "upload" BY <3>1, <4>3 DEF JobInv
        <4>5. Whole' BY <2>1, <2>4, <4>2, <4>4 DEF Whole
        <4> QED BY <4>5
      <3> QED BY <2>1, <3>1, <3>2, <3>3 DEF ReadsInVain, ReadToBackUp
    <2> QED BY <2>1, <2>4, <2>5, <2>6, MixSame
  <1>6. ASSUME NEW j \in Jobs, Status(j) PROVE MixInv'
    <2>1. /\ Others(j) /\ Since /\ job[j].pc = "status"
          /\ job'[j] = [job[j] EXCEPT !.was = running, !.pc = IF running THEN "stop" ELSE "put"]
          /\ UNCHANGED <<code, late>>
      BY <1>6, StatusFact
    <2>2. job'[j].does = job[j].does /\ job'[j].text = job[j].text
      BY <1>t, <2>1 DEF JobType
    <2>3. calm' = calm /\ (~spoilt' => ~spoilt) /\ ~Mixing(j) BY <2>1 DEF Since, Mixing
    <2> QED BY <2>1, <2>2, <2>3, MixSame
  <1>7. ASSUME NEW j \in Jobs, Answered(j) PROVE MixInv'
    <2>1. Others(j) /\ Since /\ Answer(j) /\ Execute(Request(j)) /\ UNCHANGED late
      BY <1>7, AnsweredFact
    <2>2. job[j].pc \in {"stop", "put", "start"} BY <1>7 DEF Answered
    <2>3. Request(j) \in Commands /\ Request(j).op = job[j].pc BY <2>2, RequestFact
    <2>4. calm' = calm /\ (~spoilt' => ~spoilt) BY <2>1 DEF Since
    <2>5. CASE job[j].pc = "put"
      <3>1. job'[j].pc \in {"put", "verify"} /\ job'[j].got = job[j].got
        BY <1>t, <2>1, <2>5 DEF Answer, JobType
      <3>2. JobInv(j) BY <1>i
      <3>3. job[j].got = << >> BY <2>5, <3>2 DEF JobInv
      <3>4. code' \in Seq(Chars) BY <2>1, <2>3, ExecuteFact
      <3>5. IsPrefix(<< >>, code') BY <3>4, EmptyPrefix
      <3>6. Mixing(j)' BY <3>1, <3>3, <3>5 DEF Mixing
      <3>7. ~spoilt' => \A cmd \in late' : cmd.op # "put" BY <2>1, <2>4, MixParts
      <3> QED BY <3>6, <3>7, MixPartsNext
    <2>6. CASE job[j].pc # "put"
      <3>1. code' = code BY <2>1, <2>3, <2>6, ExecuteFact
      <3>2. job'[j].does = job[j].does /\ job'[j].text = job[j].text
        BY <2>1, AnswerKeeps
      <3>3. ~Mixing(j) BY <2>2, <2>6 DEF Mixing
      <3> QED BY <2>1, <2>4, <3>1, <3>2, <3>3, MixSame
    <2> QED BY <2>5, <2>6
  <1>8. ASSUME NEW j \in Jobs, CallFails(j) PROVE MixInv'
    <2>1. /\ Others(j) /\ Since
          /\ \E e \in BOOLEAN, pc \in {"start", "ok", "failed"} :
                job'[j] = [job[j] EXCEPT !.err = e, !.pc = pc]
          /\ job[j].pc \in {"put", "verify"} => spoilt'
          /\ code' = code
          /\ \/ late' = late
             \/ late' = late \cup {Request(j)} /\ job[j].pc \in {"stop", "put", "start"}
      BY <1>8, CallFailsFact, Zenon
    <2>2. job'[j].does = job[j].does /\ job'[j].text = job[j].text
      BY <1>t, <2>1 DEF JobType
    <2>3. calm' = calm /\ (~spoilt' => ~spoilt) BY <2>1 DEF Since
    <2>4. ~spoilt' => ~Mixing(j) BY <2>1 DEF Mixing
    <2>5. ~spoilt' /\ (\A cmd \in late : cmd.op # "put") => \A cmd \in late' : cmd.op # "put"
      <3>1. job[j].pc \in {"stop", "put", "start"} => Request(j).op = job[j].pc
        BY RequestFact
      <3> QED BY <2>1, <3>1
    <2> QED BY <2>1, <2>2, <2>3, <2>4, <2>5, MixSame
  <1>9. ASSUME NEW cmd \in late, LateExecutes(cmd) \/ LateLost(cmd) PROVE MixInv'
    <2>1. /\ Since /\ late' = late \ {cmd} /\ job' = job
          /\ Execute(cmd) \/ UNCHANGED <<code, running>>
      BY <1>9, LateFact
    <2>2. calm' = calm /\ (~spoilt' => ~spoilt) BY <2>1 DEF Since
    <2>3. cmd \in Commands BY DEF TypeOK
    <2>4. ASSUME ~spoilt'
          PROVE  (\A c \in late' : c.op # "put") /\ (Whole' \/ \E j \in Jobs : Mixing(j)')
      <3>1. (\A c \in late : c.op # "put") /\ (Whole \/ \E j \in Jobs : Mixing(j))
        BY <2>2, <2>4, MixParts
      <3>2. code' = code BY <2>1, <2>3, <3>1, ExecuteFact
      <3>3. Whole => Whole' BY <2>1, <2>2, <3>2 DEF Whole
      <3>4. \A j \in Jobs : Mixing(j) => Mixing(j)' BY <2>1, <3>2 DEF Mixing
      <3> QED BY <2>1, <3>1, <3>3, <3>4
    <2> QED BY <2>4, MixPartsNext
  <1>10. CASE Restart
    BY <1>10, RestartFact, MixPartsNext
  <1>11. CASE UNCHANGED vars
    <2>1. UNCHANGED <<code, late, job, calm, spoilt>> BY <1>11 DEF vars, device, history
    <2> QED BY <2>1 DEF MixInv, Uploaded
  <1> QED
    BY <1>1, <1>2, <1>3, <1>4, <1>5, <1>6, <1>7, <1>8, <1>9, <1>10, <1>11, Zenon DEF Next

-----------------------------------------------------------------------------
(* A job that nothing came across. *)

\* Increasing places that end at N do not exceed it.
LEMMA CutsBounded ==
    ASSUME NEW L \in Nat, NEW cut \in [1..(L + 1) -> Nat],
           \A k \in 1..L : cut[k] < cut[k + 1]
    PROVE  \A k \in 1..(L + 1) : cut[k] <= cut[L + 1]
  <1> DEFINE bad == {d \in 0..L : ~(cut[L + 1 - d] <= cut[L + 1])}
  <1>1. \A k \in 1..(L + 1) : cut[k] \in Nat OBVIOUS
  <1>2. bad = {}
    <2> SUFFICES ASSUME bad # {} PROVE FALSE OBVIOUS
    <2>1. bad \in SUBSET Nat OBVIOUS
    <2>2. PICK d \in bad : \A e \in bad : d <= e BY <2>1, NatMin
    <2>3. d \in 0..L /\ ~(cut[L + 1 - d] <= cut[L + 1]) BY <2>2
    <2>4. d # 0
      <3>1. L + 1 - 0 = L + 1 /\ L + 1 \in 1..(L + 1) OBVIOUS
      <3> QED BY <1>1, <2>3, <3>1
    <2>5. d - 1 \in 0..L /\ ~(d <= d - 1) BY <2>3, <2>4
    <2>6. cut[L + 1 - (d - 1)] <= cut[L + 1] BY <2>2, <2>5
    <2>7. L + 1 - d \in 1..L /\ L + 1 - (d - 1) = L + 1 - d + 1 BY <2>3, <2>4
    <2>8. cut[L + 1 - d] < cut[L + 1 - d + 1] BY <2>7
    <2>9. cut[L + 1 - d] \in Nat /\ cut[L + 1 - d + 1] \in Nat /\ cut[L + 1] \in Nat
      BY <1>1, <2>7
    <2> QED BY <2>3, <2>6, <2>7, <2>8, <2>9
  <1>3. \A k \in 1..(L + 1) : L + 1 - k \in 0..L /\ L + 1 - (L + 1 - k) = k OBVIOUS
  <1>4. \A d \in 0..L : cut[L + 1 - d] <= cut[L + 1] BY <1>2
  <1> QED
    <2> TAKE k \in 1..(L + 1)
    <2>1. L + 1 - k \in 0..L /\ L + 1 - (L + 1 - k) = k BY <1>3
    <2>2. cut[L + 1 - (L + 1 - k)] <= cut[L + 1] BY <1>4, <2>1
    <2> QED BY <2>1, <2>2

LEMMA PlaceType ==
    ASSUME NEW cut \in Seq(Nat)
    PROVE  \A k \in 1..Len(cut) : cut[k] \in Nat
  OBVIOUS

LEMMA ChunksCut ==
    ASSUME NEW text \in Seq(Chars), text # << >>
    PROVE  CutFrom(Chunks(text), 0, text)
  <1>1. PICK cut : Between(Chunks(text), cut, text) /\ Reach(cut) = Len(text)
    BY ChunksAreWhole
  <1> DEFINE L == Len(Chunks(text))
  <1>2. L \in Nat /\ Len(text) \in Nat BY ChunksType
  <1>3. /\ cut \in Seq(Nat) /\ Len(cut) = L + 1 /\ cut[1] = 0 /\ cut[L + 1] = Len(text)
        /\ \A k \in 1..L : /\ cut[k] < cut[k + 1]
                           /\ Chunks(text)[k] = SubSeq(text, cut[k] + 1, cut[k + 1])
                           /\ Bytes(Chunks(text)[k]) <= ChunkLimit
    BY <1>1 DEF Between, Reach
  <1> HIDE DEF L
  <1> DEFINE place == [k \in 1..(L + 1) |-> cut[k]]
  <1>4. place \in [1..(L + 1) -> Nat]
    <2>1. \A k \in 1..(L + 1) : cut[k] \in Nat BY <1>3, PlaceType
    <2> QED BY <2>1
  <1>5. /\ \A k \in 1..(L + 1) : place[k] = cut[k]
        /\ 1 \in 1..(L + 1) /\ L + 1 \in 1..(L + 1)
        /\ \A k \in 1..L : k \in 1..(L + 1) /\ k + 1 \in 1..(L + 1)
    BY <1>2
  <1> HIDE DEF place
  <1>6. /\ place[1] = 0 /\ place[L + 1] = Len(text)
        /\ \A k \in 1..L : /\ place[k] < place[k + 1]
                           /\ Chunks(text)[k] = SubSeq(text, place[k] + 1, place[k + 1])
                           /\ Bytes(Chunks(text)[k]) <= ChunkLimit
    BY <1>3, <1>5
  <1>7. \A k \in 1..(L + 1) : place[k] <= Len(text) BY <1>2, <1>4, <1>6, CutsBounded
  <1>8. place \in [1..(L + 1) -> 0..Len(text)] BY <1>2, <1>4, <1>7
  <1> QED BY <1>6, <1>8 DEF CutFrom, L

\* The first part goes up to a cut, from where the rest goes on.
LEMMA CutStep ==
    ASSUME NEW text \in Seq(Chars), NEW n \in 0..Len(text), NEW parts \in Seq(Seq(Chars)),
           parts # << >>, CutFrom(parts, n, text)
    PROVE  \E m \in 0..Len(text) :
              /\ n < m /\ Head(parts) = SubSeq(text, n + 1, m)
              /\ Bytes(Head(parts)) <= ChunkLimit
              /\ CutFrom(Tail(parts), m, text)
              /\ Len(parts) = 1 => m = Len(text)
  <1> DEFINE L == Len(parts)
             tail == Tail(parts)
  <1>1. PICK cut \in [1..(L + 1) -> 0..Len(text)] :
           /\ cut[1] = n /\ cut[L + 1] = Len(text)
           /\ \A k \in 1..L : /\ cut[k] < cut[k + 1]
                              /\ parts[k] = SubSeq(text, cut[k] + 1, cut[k + 1])
                              /\ Bytes(parts[k]) <= ChunkLimit
    BY DEF CutFrom
  <1>2. L \in Nat /\ L # 0 OBVIOUS
  <1>3. /\ Head(parts) = parts[1] /\ Len(tail) = L - 1
        /\ \A k \in 1..(L - 1) : tail[k] = parts[k + 1]
    OBVIOUS
  <1> HIDE DEF L, tail
  <1> DEFINE m == cut[2]
             rest == [k \in 1..L |-> cut[k + 1]]
  <1>4. 1 \in 1..L /\ 2 \in 1..(L + 1) /\ \A k \in 1..L : k + 1 \in 1..(L + 1) BY <1>2
  <1>5. m \in 0..Len(text) /\ n < m /\ parts[1] = SubSeq(text, n + 1, m)
        /\ Bytes(parts[1]) <= ChunkLimit
    <2>1. 1 + 1 = 2 OBVIOUS
    <2>2. cut[1] < cut[1 + 1] /\ parts[1] = SubSeq(text, cut[1] + 1, cut[1 + 1])
          /\ Bytes(parts[1]) <= ChunkLimit
      BY <1>1, <1>4
    <2>3. cut[2] \in 0..Len(text) BY <1>1, <1>4
    <2> QED BY <1>1, <2>1, <2>2, <2>3
  <1>6. rest \in [1..L -> 0..Len(text)] BY <1>1, <1>4
  <1>7. rest[1] = m /\ rest[L] = Len(text) BY <1>1, <1>2, <1>4
  <1>8. \A k \in 1..(L - 1) : /\ rest[k] = cut[k + 1] /\ rest[k + 1] = cut[k + 1 + 1]
                              /\ k + 1 \in 1..L
    BY <1>2
  <1> HIDE DEF rest
  <1>9. \A k \in 1..(L - 1) : /\ rest[k] < rest[k + 1]
                              /\ tail[k] = SubSeq(text, rest[k] + 1, rest[k + 1])
                              /\ Bytes(tail[k]) <= ChunkLimit
    BY <1>1, <1>3, <1>8
  <1>10. L - 1 + 1 = L BY <1>2
  <1> HIDE DEF m
  <1>11. CutFrom(tail, m, text)
    <2>1. 1..(Len(tail) + 1) = 1..L /\ Len(tail) + 1 = L /\ 1..Len(tail) = 1..(L - 1)
      BY <1>3, <1>10
    <2> QED BY <1>6, <1>7, <1>9, <2>1, Zenon DEF CutFrom
  <1>12. L = 1 => m = Len(text)
    <2>1. L = 1 => L + 1 = 2 OBVIOUS
    <2> QED BY <1>1, <2>1 DEF m
  <1> QED BY <1>3, <1>5, <1>11, <1>12 DEF L, tail

\* What was written and the next part are a longer beginning of the text.
LEMMA JoinFact ==
    ASSUME NEW text \in Seq(Chars), NEW begun \in Seq(Chars), IsPrefix(begun, text),
           NEW m \in 0..Len(text), Len(begun) < m
    PROVE  /\ IsPrefix(begun \o SubSeq(text, Len(begun) + 1, m), text)
           /\ Len(begun \o SubSeq(text, Len(begun) + 1, m)) = m
           /\ m = Len(text) => begun \o SubSeq(text, Len(begun) + 1, m) = text
  <1> DEFINE n == Len(begun)
             part == SubSeq(text, n + 1, m)
             all == begun \o part
  <1>1. n \in Nat /\ Len(text) \in Nat /\ m \in Nat OBVIOUS
  <1>2. n + 1 \in 1..(Len(text) + 1) /\ n + 1 <= m + 1 BY <1>1
  <1>3. /\ part \in Seq(Chars) /\ Len(part) = m - (n + 1) + 1
        /\ \A i \in 1..(m - (n + 1) + 1) : part[i] = text[n + 1 + i - 1]
    BY <1>2, SliceFact
  <1>4. begun = SubSeq(text, 1, n)
    <2>1. SubSeq(begun, 1, n) = SubSeq(text, 1, n) BY DEF IsPrefix
    <2>2. begun = SubSeq(begun, 1, n) OBVIOUS
    <2> QED BY <2>1, <2>2
  <1>5. \A i \in 1..n : begun[i] = text[i] BY <1>1, <1>4
  <1>6. m - (n + 1) + 1 = m - n BY <1>1
  <1> HIDE DEF part
  <1>7. /\ all \in Seq(Chars) /\ Len(all) = n + (m - n)
        /\ \A i \in 1..n : all[i] = begun[i]
        /\ \A i \in 1..(m - n) : all[n + i] = part[i]
    BY <1>3, <1>6
  <1> HIDE DEF all, n
  <1>8. Len(all) = m BY <1>1, <1>7
  <1>9. \A i \in 1..m : all[i] = text[i]
    <2> TAKE i \in 1..m
    <2>1. CASE i <= n BY <1>1, <1>5, <1>7, <2>1
    <2>2. CASE ~(i <= n)
      <3>1. i - n \in 1..(m - n) /\ n + (i - n) = i /\ n + 1 + (i - n) - 1 = i BY <1>1, <2>2
      <3>2. all[n + (i - n)] = part[i - n] /\ part[i - n] = text[n + 1 + (i - n) - 1]
        BY <1>3, <1>6, <1>7, <3>1
      <3> QED BY <3>1, <3>2
    <2> QED BY <2>1, <2>2
  <1>10. SubSeq(all, 1, m) = SubSeq(text, 1, m) BY <1>7, <1>8, <1>9
  <1>11. IsPrefix(all, text) BY <1>8, <1>10 DEF IsPrefix
  <1>12. m = Len(text) => all = text BY <1>7, <1>8, <1>9
  <1> QED BY <1>8, <1>11, <1>12 DEF all, part, n

\* The request of a job that writes on is accepted, and leaves less to write.
LEMMA PutSolo ==
    ASSUME TypeOK, JobsInv, NEW j \in Jobs, job[j].pc = "put", job[j].text # << >>,
           WritesOn(job[j])
    PROVE  /\ Accepts(Request(j))
           /\ Execute(Request(j)) =>
                 /\ Len(job[j].todo) = 1 => code' = job[j].text
                 /\ /\ Len(Tail(job[j].todo)) < Len(Chunks(job[j].text))
                    /\ IsPrefix(code', job[j].text)
                    /\ CutFrom(Tail(job[j].todo), Len(code'), job[j].text)
  <1> DEFINE text == job[j].text
             todo == job[j].todo
             n == IF todo = Chunks(text) THEN 0 ELSE Len(code)
             begun == IF todo = Chunks(text) THEN << >> ELSE code
  <1>1. /\ text \in Seq(Chars) /\ todo \in Seq(Seq(Chars)) /\ code \in Seq(Chars)
        /\ text # << >> /\ Chunks(text) \in Seq(Seq(Chars))
    <2>1. job[j] \in JobType /\ code \in Seq(Chars) BY DEF TypeOK
    <2> QED BY <2>1, ChunksType DEF JobType
  <1>2. todo # << >>
    <2>1. JobInv(j) BY DEF JobsInv
    <2> QED BY <2>1 DEF JobInv
  <1>3. Request(j) = [op |-> "put", text |-> Head(todo), append |-> todo # Chunks(text)]
    BY DEF Request
  <1>4. \/ todo = Chunks(text)
        \/ /\ Len(todo) < Len(Chunks(text)) /\ IsPrefix(code, text)
           /\ CutFrom(todo, Len(code), text)
    BY DEF WritesOn
  <1> HIDE DEF text, todo
  <1>5. /\ n \in 0..Len(text) /\ begun \in Seq(Chars) /\ Len(begun) = n
        /\ IsPrefix(begun, text) /\ CutFrom(todo, n, text)
    <2>1. CASE todo = Chunks(text)
      <3>1. n = 0 /\ begun = << >> BY <2>1
      <3>2. << >> \in Seq(Chars) /\ Len(<< >>) = 0 /\ 0 \in 0..Len(text) BY <1>1
      <3>3. IsPrefix(<< >>, text) /\ CutFrom(todo, 0, text)
        BY <1>1, <2>1, EmptyPrefix, ChunksCut
      <3> QED BY <3>1, <3>2, <3>3
    <2>2. CASE todo # Chunks(text)
      <3>1. n = Len(code) /\ begun = code BY <2>2
      <3>2. IsPrefix(code, text) /\ CutFrom(todo, Len(code), text) BY <1>4, <2>2
      <3>3. Len(code) \in 0..Len(text) BY <1>1, <3>2 DEF IsPrefix
      <3> QED BY <1>1, <3>1, <3>2, <3>3
    <2> QED BY <2>1, <2>2
  <1> HIDE DEF n, begun
  <1>6. PICK m \in 0..Len(text) :
           /\ n < m /\ Head(todo) = SubSeq(text, n + 1, m)
           /\ Bytes(Head(todo)) <= ChunkLimit
           /\ CutFrom(Tail(todo), m, text)
           /\ Len(todo) = 1 => m = Len(text)
    BY <1>1, <1>2, <1>5, CutStep
  <1>7. Accepts(Request(j)) BY <1>3, <1>6 DEF Accepts
  <1>8. ASSUME Execute(Request(j))
        PROVE  /\ Len(todo) = 1 => code' = text
               /\ Len(Tail(todo)) < Len(Chunks(text))
               /\ IsPrefix(code', text) /\ CutFrom(Tail(todo), Len(code'), text)
    <2> DEFINE cmd == Request(j)
    <2>1. cmd.op = "put" /\ cmd.text = Head(todo) /\ cmd.append = (todo # Chunks(text))
      <3> DEFINE h == Head(todo)
                 more == todo # Chunks(text)
      <3>1. cmd = [op |-> "put", text |-> h, append |-> more] BY <1>3
      <3> HIDE DEF h, more, cmd
      <3>2. cmd.op = "put" /\ cmd.text = h /\ cmd.append = more BY <3>1
      <3> QED BY <3>2 DEF h, more
    <2>2. code' = (IF cmd.append THEN code \o cmd.text ELSE cmd.text)
      BY <1>8, <2>1 DEF Execute
    <2> HIDE DEF cmd
    <2>3. code' = begun \o Head(todo)
      <3>1. CASE todo = Chunks(text)
        <4>1. code' = Head(todo) /\ begun = << >> BY <2>1, <2>2, <3>1, Zenon DEF begun
        <4>2. Head(todo) \in Seq(Chars) BY <1>1, <1>2
        <4>3. << >> \o Head(todo) = Head(todo) BY <4>2
        <4> QED BY <4>1, <4>3
      <3>2. CASE todo # Chunks(text) BY <2>1, <2>2, <3>2, Zenon DEF begun
      <3> QED BY <3>1, <3>2
    <2>4. code' = begun \o SubSeq(text, Len(begun) + 1, m) /\ Len(begun) < m
      BY <1>5, <1>6, <2>3
    <2>5. /\ IsPrefix(code', text) /\ Len(code') = m
          /\ m = Len(text) => code' = text
      BY <1>1, <1>5, <2>4, JoinFact
    <2>6. Len(Tail(todo)) < Len(Chunks(text))
      <3>1. Len(Tail(todo)) = Len(todo) - 1 /\ Len(todo) \in Nat BY <1>1, <1>2
      <3>2. Len(todo) <= Len(Chunks(text)) /\ Len(Chunks(text)) \in Nat BY <1>1, <1>4
      <3> QED BY <3>1, <3>2
    <2> QED BY <1>6, <2>5, <2>6
  <1> QED BY <1>7, <1>8 DEF text, todo

\* What a round of reading comes to, given what was read so far and whether more is left.
Outcome(j, more, left) ==
    \/ /\ left /\ job'[j] = [job[j] EXCEPT !.got = more, !.reads = @ + 1]
    \/ /\ left /\ job[j].reads + 1 = MaxReads
       /\ \E err \in BOOLEAN, pc \in {"start", "failed"} :
             job'[j] = [job[j] EXCEPT !.err = err, !.pc = pc]
    \/ /\ ~left /\ job[j].pc = "read"
       /\ job'[j] = [job[j] EXCEPT !.pc = "save", !.got = << >>, !.reads = 0]
    \/ /\ ~left /\ job[j].pc = "verify"
       /\ \E pc \in {"start", "failed", "ok"} :
             /\ job'[j] = [job[j] EXCEPT !.err = (more # job[j].text), !.pc = pc]
             /\ pc = "failed" => more # job[j].text

LEMMA ReadOutcome ==
    ASSUME TypeOK, NEW j \in Jobs, Read(j)
    PROVE  LET more == job[j].got \o Piece(code, Bytes(job[j].got))
           IN  met' = met /\ Outcome(j, more, From(code, Bytes(more)) # << >>)
  <1> DEFINE more == job[j].got \o Piece(code, Bytes(job[j].got))
             left == From(code, Bytes(more)) # << >>
  <1> SUFFICES met' = met /\ Outcome(j, more, left) OBVIOUS
  <1>1. job \in [Jobs -> JobType] BY DEF TypeOK
  <1>2. \A r : Becomes(j, r) => job'[j] = r BY <1>1 DEF Becomes
  <1>3. met' = met
    <2>1. \A a, b, c : Remember(a, b, c, {}) => met' = met BY DEF Remember
    <2> QED BY <2>1, Zenon DEF Read
  <1>4. \/ left /\ Becomes(j, [job[j] EXCEPT !.got = more, !.reads = @ + 1])
        \/ /\ left /\ job[j].reads + 1 = MaxReads
           /\ Finally(j, TRUE) \/ Becomes(j, [job[j] EXCEPT !.pc = "failed"])
        \/ /\ ~left /\ job[j].pc = "read"
           /\ Becomes(j, [job[j] EXCEPT !.pc = "save", !.got = << >>, !.reads = 0])
        \/ ~left /\ job[j].pc = "verify" /\ Finally(j, more # job[j].text)
    BY Zenon DEF Read, Matches, more, left
  <1> HIDE DEF more, left
  <1>5. ASSUME Finally(j, more # job[j].text)
        PROVE  \E pc \in {"start", "failed", "ok"} :
                  /\ job'[j] = [job[j] EXCEPT !.err = (more # job[j].text), !.pc = pc]
                  /\ pc = "failed" => more # job[j].text
    <2> DEFINE pc == IF job[j].was THEN "start" ELSE IF more # job[j].text THEN "failed" ELSE "ok"
    <2>1. pc \in {"start", "failed", "ok"} /\ (pc = "failed" => more # job[j].text) OBVIOUS
    <2>2. job'[j] = [job[j] EXCEPT !.err = (more # job[j].text), !.pc = pc]
      BY <1>2, <1>5, Zenon DEF Finally, MustStart
    <2> HIDE DEF pc
    <2> QED BY <2>1, <2>2, Zenon
  <1>6. ASSUME Finally(j, TRUE) \/ Becomes(j, [job[j] EXCEPT !.pc = "failed"])
        PROVE  \E err \in BOOLEAN, pc \in {"start", "failed"} :
                  job'[j] = [job[j] EXCEPT !.err = err, !.pc = pc]
    <2> DEFINE pc == IF job[j].was THEN "start" ELSE "failed"
               r == [job[j] EXCEPT !.pc = "failed"]
    <2>1. CASE Finally(j, TRUE)
      <3>1. job'[j] = [job[j] EXCEPT !.err = TRUE, !.pc = pc]
        BY <1>2, <2>1, Zenon DEF Finally, MustStart
      <3>2. pc \in {"start", "failed"} OBVIOUS
      <3> HIDE DEF pc
      <3> QED BY <3>1, <3>2
    <2>2. CASE Becomes(j, r)
      <3>1. job'[j] = r BY <1>2, <2>2, Zenon
      <3>2. job[j] \in JobType BY <1>1
      <3>3. job[j].err \in BOOLEAN /\ r = [job[j] EXCEPT !.err = job[j].err, !.pc = "failed"]
        BY <3>2 DEF JobType
      <3> HIDE DEF r
      <3> QED BY <3>1, <3>3
    <2> QED BY <1>6, <2>1, <2>2, Zenon DEF r
  <1> QED BY <1>2, <1>3, <1>4, <1>5, <1>6, Zenon DEF Outcome

\* Who is met stays met, and who acts on a job that is under way meets it, unless it
\* is that job itself.
LEMMA MetFact ==
    ASSUME TypeOK, [Next]_vars
    PROVE  met \subseteq met'
  <1>1. ASSUME NEW a, NEW b, NEW c, NEW hit, Remember(a, b, c, hit) PROVE met \subseteq met'
    BY <1>1 DEF Remember
  <1>2. \A j \in Jobs : \A text \in Texts : Upload(j, text) => met \subseteq met'
    BY <1>1, Zenon DEF Upload, Begin
  <1>3. \A j \in Jobs : \A does \in {"start", "stop", "restart"} :
           Control(j, does) => met \subseteq met'
    BY <1>1, Zenon DEF Control, Begin
  <1>4. \A j \in Jobs : \A id \in Jobs : Delete(j, id) => met \subseteq met'
    BY <1>1, Zenon DEF Delete
  <1>5. \A j \in Jobs :
           Saved(j) \/ Read(j) \/ Status(j) \/ Answered(j) \/ CallFails(j) => met \subseteq met'
    BY <1>1, Zenon DEF Saved, Read, Status, Answered, CallFails
  <1>6. \A cmd \in late : LateExecutes(cmd) \/ LateLost(cmd) => met \subseteq met'
    BY <1>1, Zenon DEF LateExecutes, LateLost
  <1>7. Restart => met \subseteq met' BY <1>1, Zenon DEF Restart
  <1>8. UNCHANGED vars => met \subseteq met' BY DEF vars, history
  <1> QED BY <1>2, <1>3, <1>4, <1>5, <1>6, <1>7, <1>8, Zenon DEF Next

\* With a job that nothing came across, only the deletion of a backup is under way.
LEMMA OnlyOne ==
    ASSUME JobsInv, SoloInv, NEW i \in Undisturbed, NEW j \in Jobs,
           job[j].pc \in {"read", "status", "stop", "put", "verify", "start"}
    PROVE  i = j
  <1>1. j \in Active BY DEF Active, Ended
  <1>2. job[j].does # "delete"
    <2>1. JobInv(j) BY DEF JobsInv
    <2> QED BY <2>1 DEF JobInv
  <1> QED BY <1>1, <1>2 DEF SoloInv

\* What keeps a job undisturbed: the others rest or delete, and its own part holds.
LEMMA SoloKept ==
    ASSUME SoloInv, NEW i \in Undisturbed, late' = {},
           \A k \in Jobs : k # i => \/ job'[k] = job[k]
                                    \/ job'[k].pc \in {"idle", "ok", "failed"}
                                    \/ job'[k].does = "delete",
           SoloJob(job[i])'
    PROVE  late' = {} /\ (\A k \in Active' \ {i} : job'[k].does = "delete") /\ SoloJob(job[i])'
  <1>1. \A k \in Active \ {i} : job[k].does = "delete" BY DEF SoloInv
  <1>2. \A k \in Active' : k \in Jobs /\ job'[k].pc \notin {"idle", "ok", "failed"}
    BY DEF Active, Ended
  <1>3. \A k \in Jobs : job[k].pc \notin {"idle", "ok", "failed"} => k \in Active
    BY DEF Active, Ended
  <1> QED BY <1>1, <1>2, <1>3

LEMMA BegunMet ==
    ASSUME TypeOK, NEW j \in Jobs, NEW new, NEW isStray, Begin(j, new, isStray), ~Quiet
    PROVE  Active \cup {j} \subseteq met'
  BY DEF Begin, Remember

\* After a calm, a job that begins is the only one.
LEMMA FirstBegun ==
    ASSUME Quiet, NEW j \in Jobs, Others(j), late' = late
    PROVE  late' = {} /\ Active' \subseteq {j}
  <1>1. late = {} /\ \A k \in Jobs : job[k].pc \in {"idle", "ok", "failed"} BY QuietFact
  <1>2. \A k \in Active' : k \in Jobs /\ job'[k].pc \notin {"idle", "ok", "failed"}
    BY DEF Active, Ended
  <1> QED BY <1>1, <1>2 DEF Others

\* Whoever was met was met before.
LEMMA UndisturbedFact ==
    ASSUME TypeOK, [Next]_vars, NEW i \in Undisturbed'
    PROVE  /\ i \in Jobs /\ i \notin met' /\ i \notin met
           /\ job'[i].pc \notin {"idle", "ok", "failed"} /\ job'[i].does # "delete"
           /\ job[i].pc \notin {"idle", "ok", "failed"} /\ job[i].does # "delete"
                => i \in Undisturbed
  BY MetFact DEF Undisturbed, Active, Ended

\* A step of a job that is neither the beginning nor the end of its command.
LEMMA SoloStays ==
    ASSUME TypeOK, JobsInv, SoloInv, [Next]_vars, NEW i \in Undisturbed',
           NEW j \in Jobs, Others(j),
           job[j].pc \in {"read", "status", "stop", "put", "verify", "start"},
           job'[j].does = job[j].does
    PROVE  i = j /\ i \in Undisturbed
  <1>1. /\ i \in Jobs /\ job'[i].pc \notin {"idle", "ok", "failed"} /\ job'[i].does # "delete"
        /\ job[i].pc \notin {"idle", "ok", "failed"} /\ job[i].does # "delete"
             => i \in Undisturbed
    BY UndisturbedFact
  <1>2. i # j => job'[i] = job[i] BY <1>1 DEF Others
  <1>3. i \in Undisturbed BY <1>1, <1>2
  <1> QED BY <1>3, OnlyOne

LEMMA SoloStep ==
    ASSUME TypeOK, JobsInv, SoloInv, [Next]_vars
    PROVE  SoloInv'
  <1> DEFINE Goal(i) == /\ late' = {} /\ (\A k \in Active' \ {i} : job'[k].does = "delete")
                        /\ SoloJob(job[i])'
  <1> SUFFICES ASSUME NEW i \in Undisturbed' PROVE Goal(i)
    BY DEF SoloInv
  <1>t. \A j \in Jobs : job[j] \in JobType BY DEF TypeOK
  <1>i. \A j \in Jobs : JobInv(j) BY DEF JobsInv
  <1>u. /\ i \in Jobs /\ i \notin met' /\ i \notin met
        /\ job'[i].pc \notin {"idle", "ok", "failed"} /\ job'[i].does # "delete"
        /\ job[i].pc \notin {"idle", "ok", "failed"} /\ job[i].does # "delete"
             => i \in Undisturbed
    BY UndisturbedFact
  <1>s. ASSUME i \in Undisturbed PROVE late = {} /\ SoloJob(job[i])
    BY <1>s DEF SoloInv
  <1>a. i \in Active' BY DEF Undisturbed
  <1>c. code \in Seq(Chars) BY DEF TypeOK
  \* What changes another job, and neither the code nor a request.
  <1>k. ASSUME i \in Undisturbed, late' = late, code' = code, job'[i] = job[i],
               \A k \in Jobs : k # i => \/ job'[k] = job[k]
                                        \/ job'[k].pc \in {"idle", "ok", "failed"}
                                        \/ job'[k].does = "delete"
        PROVE  Goal(i)
    <2>1. late' = {} BY <1>s, <1>k
    <2>2. SoloJob(job[i])' BY <1>s, <1>k DEF SoloJob, Headway, WritesOn
    <2> QED BY <1>k, <2>1, <2>2, SoloKept
  \* What a step of the job itself has to show.
  <1>m. ASSUME i \in Undisturbed, Others(i), late' = late, SoloJob(job[i])' PROVE Goal(i)
    <2>1. late' = {} BY <1>s, <1>m
    <2>2. \A k \in Jobs : k # i => job'[k] = job[k] BY <1>m DEF Others
    <2> QED BY <1>m, <2>1, <2>2, SoloKept
  <1> HIDE DEF Goal
  <1>1. ASSUME NEW j \in Jobs, NEW text \in Texts, Upload(j, text) PROVE Goal(i)
    <2>1. /\ Others(j) /\ late' = late /\ code' = code
          /\ job'[j] = [Idle EXCEPT !.does = "upload", !.pc = "read", !.text = text,
                                    !.todo = Chunks(text)]
      BY <1>1, UploadFact
    <2>2. Quiet
      <3> SUFFICES ASSUME ~Quiet PROVE FALSE OBVIOUS
      <3>1. Active \cup {j} \subseteq met' BY <1>1, BegunMet DEF Upload
      <3>2. i \in Active \cup {j} BY <1>u, <2>1 DEF Others, Active, Ended
      <3> QED BY <1>u, <3>1, <3>2
    <2>3. late' = {} /\ Active' \subseteq {j} BY <2>1, <2>2, FirstBegun
    <2>4. i = j BY <1>a, <2>3
    <2>5. /\ job'[i].does = "upload" /\ job'[i].pc = "read" /\ job'[i].text = text
          /\ job'[i].todo = Chunks(text) /\ job'[i].got = << >> /\ job'[i].reads = 0
      BY <2>1, <2>4 DEF Idle
    <2>6. text # << >> BY <1>1 DEF Upload
    <2>7. Headway(job[i])'
      <3>1. IsPrefix(<< >>, code') BY <1>c, <2>1, EmptyPrefix
      <3>2. ReadLimit \in Nat BY UploadAssumption
      <3>3. 0 * (ReadLimit - 3) <= 0 BY <3>2
      <3> QED BY <2>5, <3>1, <3>3, BytesEmpty DEF Headway
    <2>8. SoloJob(job[i])' BY <2>5, <2>6, <2>7 DEF SoloJob
    <2> QED BY <2>3, <2>4, <2>8 DEF Goal
  <1>2. ASSUME NEW j \in Jobs, NEW does \in {"start", "stop", "restart"}, Control(j, does)
        PROVE  Goal(i)
    <2>1. /\ Others(j) /\ late' = late /\ code' = code
          /\ job'[j] = [Idle EXCEPT !.does = does,
                                    !.pc = IF does = "start" THEN "start" ELSE "stop"]
      BY <1>2, ControlFact
    <2>2. Quiet
      <3> SUFFICES ASSUME ~Quiet PROVE FALSE OBVIOUS
      <3>1. Active \cup {j} \subseteq met' BY <1>2, BegunMet DEF Control
      <3>2. i \in Active \cup {j} BY <1>u, <2>1 DEF Others, Active, Ended
      <3> QED BY <1>u, <3>1, <3>2
    <2>3. late' = {} /\ Active' \subseteq {j} BY <2>1, <2>2, FirstBegun
    <2>4. i = j BY <1>a, <2>3
    <2>5. job'[i].does # "upload" /\ job'[i].pc \in {"start", "stop"}
      BY <2>1, <2>4 DEF Idle
    <2>6. SoloJob(job[i])' BY <2>5 DEF SoloJob
    <2> QED BY <2>3, <2>4, <2>6 DEF Goal
  <1>3. ASSUME NEW j \in Jobs, NEW id \in Jobs, Delete(j, id) PROVE Goal(i)
    <2>1. /\ Others(j) /\ late' = late /\ code' = code
          /\ job'[j] = [Idle EXCEPT !.does = "delete", !.pc = "save"]
      BY <1>3, DeleteFact
    <2>2. job'[j].does = "delete" BY <2>1 DEF Idle
    <2>3. i # j BY <1>u, <2>2
    <2>4. job'[i] = job[i] BY <1>u, <2>1, <2>3 DEF Others
    <2>5. i \in Undisturbed BY <1>u, <2>4
    <2> QED BY <1>k, <2>1, <2>2, <2>4, <2>5 DEF Others
  <1>4. ASSUME NEW j \in Jobs, Saved(j) PROVE Goal(i)
    <2>1. /\ Others(j) /\ job[j].pc = "save" /\ late' = late /\ code' = code
          /\ job'[j].pc = (IF job[j].does = "delete" THEN "ok" ELSE "status")
          /\ job'[j] = [job[j] EXCEPT !.pc = job'[j].pc]
      BY <1>4, SavedFact
    <2>2. /\ job'[j].does = job[j].does /\ job'[j].text = job[j].text
          /\ job'[j].todo = job[j].todo
      BY <1>t, <2>1 DEF JobType
    <2>3. i \in Undisturbed
      <3>1. CASE i = j BY <1>u, <2>1, <2>2, <3>1
      <3>2. CASE i # j BY <1>u, <2>1, <3>2 DEF Others
      <3> QED BY <3>1, <3>2
    <2>4. CASE i = j
      <3>1. job'[i].pc = "status" BY <1>u, <2>1, <2>2, <2>4
      <3>2. SoloJob(job[i])' BY <1>s, <2>1, <2>2, <2>3, <2>4, <3>1 DEF SoloJob
      <3> QED BY <1>m, <2>1, <2>3, <2>4, <3>2
    <2>5. CASE i # j
      <3>1. job'[i] = job[i] BY <1>u, <2>1, <2>5 DEF Others
      <3>2. job'[j].pc \in {"idle", "ok", "failed"}
        <4>1. j \in Active BY <2>1 DEF Active, Ended
        <4>2. job[j].does = "delete" BY <2>3, <2>5, <4>1 DEF SoloInv
        <4> QED BY <2>1, <4>2
      <3> QED BY <1>k, <2>1, <2>3, <3>1, <3>2 DEF Others
    <2> QED BY <2>4, <2>5
  <1>5. ASSUME NEW j \in Jobs, Read(j) PROVE Goal(i)
    <2> DEFINE more == job[j].got \o Piece(code, Bytes(job[j].got))
               left == From(code, Bytes(more)) # << >>
    <2>1. /\ Others(j) /\ job[j].pc \in {"read", "verify"}
          /\ UNCHANGED <<code, running, late, disk>>
          /\ \/ ReadsOn(j, more) \/ ReadsInVain(j) \/ ReadToBackUp(j, more)
             \/ ReadToVerify(j, more)
      BY <1>5, ReadEffect
    <2>2. Outcome(j, more, left) BY <1>5, ReadOutcome, SMTT(30)
    <2> DEFINE On == left /\ job'[j] = [job[j] EXCEPT !.got = more, !.reads = @ + 1]
    <2>3. /\ job'[j].does = job[j].does /\ job'[j].text = job[j].text
          /\ job'[j].todo = job[j].todo
          /\ \/ On
             \/ job[j].pc = "read" /\ job'[j].pc = "save"
             \/ job'[j].pc \in {"start", "failed", "ok"}
      <3> HIDE DEF more, left
      <3> QED BY <1>t, <2>2 DEF Outcome, JobType
    <2>4. i = j /\ i \in Undisturbed BY <2>1, <2>3, SoloStays
    <2>5. SoloJob(job[i]) BY <1>s, <2>4
    <2>6. CASE On
      <3>1. /\ job'[i].pc = job[i].pc /\ job'[i].got = more /\ job'[i].reads = job[i].reads + 1
            /\ job[i].reads \in Nat /\ job[i].got \in Seq(Chars)
        <4> HIDE DEF more, left
        <4> QED BY <1>t, <2>4, <2>6 DEF JobType
      <3>2. Headway(job[i]) BY <2>1, <2>4, <2>5 DEF SoloJob
      <3>3. /\ Bytes(job[i].got) \in Nat /\ Bytes(more) \in Nat
            /\ Bytes(job[i].got) + (ReadLimit - 3) <= Bytes(more)
        BY <1>c, <2>4, <2>6, <3>1, <3>2, HeadwayFact DEF Headway
      <3>4. IsPrefix(more, code) BY <1>c, <2>4, <3>1, <3>2, ReadFact DEF Headway
      <3> HIDE DEF more, left
      <3>5. (job[i].reads + 1) * (ReadLimit - 3) <= Bytes(more)
        <4> DEFINE K == ReadLimit - 3
                   r == job[i].reads
        <4>1. K \in Nat /\ r \in Nat /\ r * K <= Bytes(job[i].got)
          BY <3>1, <3>2, UploadAssumption DEF Headway
        <4> HIDE DEF K, r
        <4>2. (r + 1) * K = r * K + K /\ r * K \in Nat BY <4>1
        <4>3. Bytes(job[i].got) + K <= Bytes(more) BY <3>3 DEF K
        <4>4. (r + 1) * K <= Bytes(more) BY <3>3, <4>1, <4>2, <4>3
        <4> QED BY <4>4 DEF K, r
      <3>6. Headway(job[i])' BY <2>1, <3>1, <3>4, <3>5 DEF Headway
      <3>7. SoloJob(job[i])' BY <2>1, <2>3, <2>4, <2>5, <3>1, <3>6 DEF SoloJob
      <3> QED BY <1>m, <2>1, <2>4, <3>7
    <2>7. CASE \/ job[j].pc = "read" /\ job'[j].pc = "save"
               \/ job'[j].pc \in {"start", "failed", "ok"}
      <3>1. SoloJob(job[i])' BY <2>1, <2>3, <2>4, <2>5, <2>7 DEF SoloJob
      <3> QED BY <1>m, <2>1, <2>4, <3>1
    <2> QED BY <2>3, <2>6, <2>7
  <1>6. ASSUME NEW j \in Jobs, Status(j) PROVE Goal(i)
    <2>1. /\ Others(j) /\ job[j].pc = "status" /\ late' = late /\ code' = code
          /\ job'[j] = [job[j] EXCEPT !.was = running, !.pc = IF running THEN "stop" ELSE "put"]
      BY <1>6, StatusFact
    <2>2. /\ job'[j].does = job[j].does /\ job'[j].text = job[j].text
          /\ job'[j].todo = job[j].todo /\ job'[j].pc \in {"stop", "put"}
      BY <1>t, <2>1 DEF JobType
    <2>3. i = j /\ i \in Undisturbed BY <2>1, <2>2, SoloStays
    <2>4. job[j].does = "upload" BY <1>i, <2>1 DEF JobInv
    <2>5. SoloJob(job[i])' BY <1>s, <2>1, <2>2, <2>3, <2>4 DEF SoloJob, WritesOn
    <2> QED BY <1>m, <2>1, <2>3, <2>5
  <1>7. ASSUME NEW j \in Jobs, Answered(j) PROVE Goal(i)
    <2>1. /\ Others(j) /\ Answer(j) /\ Execute(Request(j)) /\ late' = late
          /\ job[j].pc \in {"stop", "put", "start"}
      BY <1>7, AnsweredFact DEF Answered
    <2>2. job'[j].does = job[j].does /\ job'[j].text = job[j].text
      BY <2>1, AnswerKeeps
    <2>3. i = j /\ i \in Undisturbed BY <2>1, <2>2, SoloStays
    <2>4. SoloJob(job[i]) BY <1>s, <2>3
    <2>5. SoloJob(job[i])'
      <3>1. CASE job[j].pc = "stop"
        <4>1. /\ job'[j].todo = job[j].todo
              /\ \/ job'[j].pc = "put" /\ job[j].does = "upload"
                 \/ job'[j].pc \in {"start", "ok"}
          BY <1>t, <2>1, <3>1 DEF Answer, JobType
        <4> QED BY <2>2, <2>3, <2>4, <3>1, <4>1 DEF SoloJob, WritesOn
      <3>2. CASE job[j].pc = "put"
        <4>1. job[j].does = "upload" /\ job[j].got = << >> /\ job[j].reads = 0
          BY <1>i, <3>2 DEF JobInv
        <4>2. job[j].text # << >> /\ WritesOn(job[j]) BY <2>3, <2>4, <3>2, <4>1 DEF SoloJob
        <4>3. /\ Len(job[j].todo) = 1 => code' = job[j].text
              /\ Len(Tail(job[j].todo)) < Len(Chunks(job[j].text))
              /\ IsPrefix(code', job[j].text)
              /\ CutFrom(Tail(job[j].todo), Len(code'), job[j].text)
          BY <2>1, <3>2, <4>2, PutSolo
        <4>4. /\ job'[j].todo = Tail(job[j].todo) /\ job'[j].got = << >> /\ job'[j].reads = 0
              /\ job'[j].pc = (IF Len(job[j].todo) = 1 THEN "verify" ELSE "put")
          <5> DEFINE pc == IF Len(job[j].todo) = 1 THEN "verify" ELSE "put"
          <5>1. job' = [job EXCEPT ![j] = [job[j] EXCEPT !.todo = Tail(@), !.pc = pc]]
            BY <1>7, <3>2 DEF Answered, Becomes
          <5> HIDE DEF pc
          <5>2. job \in [Jobs -> JobType] /\ job[j] \in JobType BY DEF TypeOK
          <5>3. job'[j] = [job[j] EXCEPT !.todo = Tail(@), !.pc = pc] BY <5>1, <5>2
          <5>4. /\ job'[j].todo = Tail(job[j].todo) /\ job'[j].got = job[j].got
                /\ job'[j].reads = job[j].reads /\ job'[j].pc = pc
            BY <5>2, <5>3 DEF JobType
          <5> QED BY <4>1, <5>4 DEF pc
        <4>5. Headway(job[i])'
          <5>1. code' \in Seq(Chars)
            <6>1. Request(j) \in Commands BY <2>1, RequestFact
            <6> QED BY <2>1, <6>1, ExecuteFact
          <5>2. IsPrefix(<< >>, code') BY <5>1, EmptyPrefix
          <5>3. ReadLimit \in Nat BY UploadAssumption
          <5>4. 0 * (ReadLimit - 3) <= 0 BY <5>3
          <5> QED BY <2>3, <4>4, <5>2, <5>4, BytesEmpty DEF Headway
        <4>6. CASE Len(job[j].todo) = 1
          BY <2>2, <2>3, <4>1, <4>2, <4>3, <4>4, <4>5, <4>6 DEF SoloJob
        <4>7. CASE Len(job[j].todo) # 1
          <5>1. WritesOn(job[i])' BY <2>2, <2>3, <4>3, <4>4 DEF WritesOn
          <5> QED BY <2>2, <2>3, <4>1, <4>2, <4>4, <4>7, <5>1 DEF SoloJob
        <4> QED BY <4>6, <4>7
      <3>3. CASE job[j].pc = "start"
        <4>1. job'[j].pc \in {"ok", "failed"} BY <1>t, <2>1, <3>3 DEF Answer, JobType
        <4> QED BY <1>u, <2>3, <4>1
      <3> QED BY <2>1, <3>1, <3>2, <3>3
    <2> QED BY <1>m, <2>1, <2>3, <2>5
  <1>8. ASSUME NEW j \in Jobs, CallFails(j) PROVE Goal(i)
    <2>1. /\ Others(j) /\ job[j].pc \in {"read", "status", "stop", "put", "verify", "start"}
          /\ \E e \in BOOLEAN, pc \in {"start", "ok", "failed"} :
                job'[j] = [job[j] EXCEPT !.err = e, !.pc = pc]
      BY <1>8, CallFailsFact, Zenon
    <2>2. job'[j].does = job[j].does BY <1>t, <2>1 DEF JobType
    <2>3. i = j /\ i \in Undisturbed BY <2>1, <2>2, SoloStays
    <2>4. Refused(j)
      <3>1. Refused(j) \/ j \in met' BY <1>8 DEF CallFails, Remember
      <3> QED BY <1>u, <2>3, <3>1
    <2>5. job[j].pc = "put" /\ ~Accepts(Request(j)) BY <2>4 DEF Refused
    <2>6. job[j].text # << >> /\ WritesOn(job[j])
      <3>1. job[j].does = "upload" BY <1>i, <2>5 DEF JobInv
      <3> QED BY <1>s, <2>3, <2>5, <3>1 DEF SoloJob
    <2> QED BY <2>5, <2>6, PutSolo
  <1>9. ASSUME NEW cmd \in late, LateExecutes(cmd) \/ LateLost(cmd) PROVE Goal(i)
    <2>1. job' = job BY <1>9, LateFact
    <2>2. i \in Undisturbed BY <1>u, <2>1
    <2> QED BY <1>s, <1>9, <2>2
  <1>10. CASE Restart
    <2>1. /\ job'[i] = job[i] \/ job'[i].pc = "failed"
      <3>1. \/ job[i].pc \in {"idle", "ok", "failed"} /\ job'[i] = job[i]
            \/ job'[i] = [job[i] EXCEPT !.pc = "failed"]
        BY <1>u, <1>10, RestartFact
      <3> QED BY <1>t, <1>u, <3>1 DEF JobType
    <2>2. i \in Active BY <1>u, <2>1 DEF Active, Ended
    <2>3. Active \subseteq met' BY <1>10 DEF Restart, Remember
    <2> QED BY <1>u, <2>2, <2>3
  <1>11. CASE UNCHANGED vars
    <2>1. UNCHANGED <<code, late, job>> BY <1>11 DEF vars, device
    <2>2. i \in Undisturbed BY <1>u, <2>1
    <2> QED BY <1>k, <2>1, <2>2
  <1> QED
    BY <1>1, <1>2, <1>3, <1>4, <1>5, <1>6, <1>7, <1>8, <1>9, <1>10, <1>11, Zenon DEF Next

\* No job that nothing came across has failed or is going to.
Succeeding == \A j \in Jobs \ met : ~job[j].err /\ job[j].pc # "failed"

\* The rounds of a job that nothing came across do not run out.
LEMMA RoundsSuffice ==
    ASSUME TypeOK, Readable, NEW r \in JobType, Headway(r),
           NEW more, more = r.got \o Piece(code, Bytes(r.got)), From(code, Bytes(more)) # << >>
    PROVE  r.reads + 1 # MaxReads
  <1> DEFINE K == ReadLimit - 3
             n == r.reads
  <1>1. code \in Seq(Chars) /\ r.got \in Seq(Chars) /\ n \in Nat
    <2> HIDE DEF n
    <2>1. code \in Seq(Chars) BY DEF TypeOK
    <2>2. r.got \in Seq(Chars) /\ r.reads \in 0..MaxReads BY DEF JobType
    <2>3. MaxReads \in Nat BY UploadAssumption
    <2> QED BY <2>1, <2>2, <2>3 DEF n
  <1>2. /\ Bytes(r.got) \in Nat /\ Bytes(more) \in Nat
        /\ Bytes(r.got) + K <= Bytes(more) /\ Bytes(more) < Bytes(code)
    BY <1>1, HeadwayFact DEF Headway
  <1>3. K \in Nat /\ MaxReads \in Nat BY UploadAssumption
  <1>4. n * K <= Bytes(r.got) /\ Bytes(code) <= MaxReads * K BY DEF Headway, Readable
  <1>5. Bytes(code) \in Nat BY <1>1, BytesFact
  <1> HIDE DEF K, n
  <1>6. (n + 1) * K = n * K + K /\ n * K \in Nat /\ MaxReads * K \in Nat BY <1>1, <1>3
  <1>7. (n + 1) * K < MaxReads * K BY <1>2, <1>3, <1>4, <1>5, <1>6
  <1>8. n + 1 # MaxReads BY <1>6, <1>7
  <1> QED BY <1>8 DEF n

LEMMA SucceedStep ==
    ASSUME TypeOK, JobsInv, SoloInv, Readable, Succeeding, [Next]_vars
    PROVE  Succeeding'
  <1> DEFINE Goal(i) == ~job'[i].err /\ job'[i].pc # "failed"
  <1> SUFFICES ASSUME NEW i \in Jobs, i \notin met' PROVE Goal(i)
    BY DEF Succeeding
  <1>t. \A j \in Jobs : job[j] \in JobType BY DEF TypeOK
  <1>m. i \notin met BY MetFact
  <1>s. ~job[i].err /\ job[i].pc # "failed" BY <1>m DEF Succeeding
  <1>k. ASSUME job'[i] = job[i] PROVE Goal(i) BY <1>s, <1>k
  <1>o. ASSUME NEW j \in Jobs, Others(j), i # j PROVE Goal(i) BY <1>k, <1>o DEF Others
  \* An upload that reads, writes or verifies has the script to itself.
  <1>u. ASSUME job[i].pc \in {"read", "put", "verify"} PROVE SoloJob(job[i])
    <2>1. job[i].does = "upload"
      <3>1. JobInv(i) BY DEF JobsInv
      <3> QED BY <1>u, <3>1 DEF JobInv
    <2>2. i \in Undisturbed BY <1>m, <1>u, <2>1 DEF Undisturbed, Active, Ended
    <2> QED BY <2>2 DEF SoloInv
  <1> HIDE DEF Goal
  <1>1. ASSUME NEW j \in Jobs, NEW text \in Texts, Upload(j, text) PROVE Goal(i)
    <2>1. /\ Others(j)
          /\ job'[j] = [Idle EXCEPT !.does = "upload", !.pc = "read", !.text = text,
                                    !.todo = Chunks(text)]
      BY <1>1, UploadFact
    <2>2. job'[j].pc = "read" /\ job'[j].err = FALSE BY <2>1 DEF Idle
    <2> QED BY <1>o, <2>1, <2>2 DEF Goal
  <1>2. ASSUME NEW j \in Jobs, NEW does \in {"start", "stop", "restart"}, Control(j, does)
        PROVE  Goal(i)
    <2>1. /\ Others(j)
          /\ job'[j] = [Idle EXCEPT !.does = does,
                                    !.pc = IF does = "start" THEN "start" ELSE "stop"]
      BY <1>2, ControlFact
    <2>2. job'[j].pc \in {"start", "stop"} /\ job'[j].err = FALSE BY <2>1 DEF Idle
    <2> QED BY <1>o, <2>1, <2>2 DEF Goal
  <1>3. ASSUME NEW j \in Jobs, NEW id \in Jobs, Delete(j, id) PROVE Goal(i)
    <2>1. /\ Others(j) /\ job'[j] = [Idle EXCEPT !.does = "delete", !.pc = "save"]
      BY <1>3, DeleteFact
    <2>2. job'[j].pc = "save" /\ job'[j].err = FALSE BY <2>1 DEF Idle
    <2> QED BY <1>o, <2>1, <2>2 DEF Goal
  <1>4. ASSUME NEW j \in Jobs, Saved(j) PROVE Goal(i)
    <2>1. /\ Others(j) /\ job'[j].pc = (IF job[j].does = "delete" THEN "ok" ELSE "status")
          /\ job'[j] = [job[j] EXCEPT !.pc = job'[j].pc]
      BY <1>4, SavedFact
    <2>2. job'[j].err = job[j].err /\ job'[j].pc # "failed" BY <1>t, <2>1 DEF JobType
    <2> QED BY <1>o, <1>s, <2>1, <2>2 DEF Goal
  <1>5. ASSUME NEW j \in Jobs, Read(j) PROVE Goal(i)
    <2> DEFINE more == job[j].got \o Piece(code, Bytes(job[j].got))
               left == From(code, Bytes(more)) # << >>
    <2>1. Others(j) /\ job[j].pc \in {"read", "verify"} BY <1>5, ReadEffect
    <2>2. CASE i # j BY <1>o, <2>1, <2>2
    <2>3. CASE i = j
      <3>1. SoloJob(job[j]) BY <1>u, <2>1, <2>3
      <3>2. Headway(job[j]) BY <2>1, <3>1 DEF SoloJob
      <3>3. left => job[j].reads + 1 # MaxReads BY <1>t, <3>2, RoundsSuffice
      <3>4. ~left /\ job[j].pc = "verify" => more = job[j].text
        <4> SUFFICES ASSUME ~left, job[j].pc = "verify" PROVE more = job[j].text OBVIOUS
        <4>1. code = job[j].text BY <3>1 DEF SoloJob
        <4>2. code \in Seq(Chars) /\ job[j].got \in Seq(Chars)
          <5> HIDE DEF more, left
          <5> QED BY <1>t DEF TypeOK, JobType
        <4>3. more = code BY <3>2, <4>2, ReadFact DEF Headway
        <4> QED BY <4>1, <4>3
      <3>5. Outcome(j, more, left) BY <1>5, ReadOutcome
      <3> HIDE DEF more, left
      <3>6. ~job'[j].err /\ job'[j].pc # "failed"
        <4>1. job[j] \in JobType /\ ~job[j].err BY <1>s, <1>t, <2>3
        <4>2. CASE left /\ job'[j] = [job[j] EXCEPT !.got = more, !.reads = @ + 1]
          BY <2>1, <4>1, <4>2 DEF JobType
        <4>3. CASE /\ job[j].pc = "read"
                   /\ job'[j] = [job[j] EXCEPT !.pc = "save", !.got = << >>, !.reads = 0]
          BY <4>1, <4>3 DEF JobType
        <4>4. CASE /\ more = job[j].text
                   /\ \E pc \in {"start", "failed", "ok"} :
                         /\ job'[j] = [job[j] EXCEPT !.err = (more # job[j].text), !.pc = pc]
                         /\ pc = "failed" => more # job[j].text
          <5>1. PICK pc \in {"start", "ok"} :
                   job'[j] = [job[j] EXCEPT !.err = FALSE, !.pc = pc]
            BY <4>4
          <5> QED BY <4>1, <5>1 DEF JobType
        <4> QED BY <3>3, <3>4, <3>5, <4>2, <4>3, <4>4, Zenon DEF Outcome
      <3> QED BY <2>3, <3>6 DEF Goal
    <2> QED BY <2>2, <2>3
  <1>6. ASSUME NEW j \in Jobs, Status(j) PROVE Goal(i)
    <2>1. /\ Others(j)
          /\ job'[j] = [job[j] EXCEPT !.was = running, !.pc = IF running THEN "stop" ELSE "put"]
      BY <1>6, StatusFact
    <2>2. job'[j].err = job[j].err /\ job'[j].pc # "failed" BY <1>t, <2>1 DEF JobType
    <2> QED BY <1>o, <1>s, <2>1, <2>2 DEF Goal
  <1>7. ASSUME NEW j \in Jobs, Answered(j) PROVE Goal(i)
    <2>1. Others(j) /\ Answer(j) BY <1>7, AnsweredFact
    <2>2. ~job[j].err => ~job'[j].err /\ job'[j].pc # "failed"
      BY <2>1, AnswerKeeps
    <2> QED BY <1>o, <1>s, <2>1, <2>2 DEF Goal
  <1>8. ASSUME NEW j \in Jobs, CallFails(j) PROVE Goal(i)
    <2>1. Others(j) BY <1>8, CallFailsFact, Zenon
    <2>2. CASE i # j BY <1>o, <2>1, <2>2
    <2>3. CASE i = j
      <3>1. Refused(j)
        <4>1. Refused(j) \/ j \in met' BY <1>8 DEF CallFails, Remember
        <4> QED BY <2>3, <4>1
      <3>2. job[j].pc = "put" /\ ~Accepts(Request(j)) BY <3>1 DEF Refused
      <3>3. job[j].text # << >> /\ WritesOn(job[j])
        <4>1. SoloJob(job[j]) BY <1>u, <2>3, <3>2
        <4>2. job[j].does = "upload"
          <5>1. JobInv(j) BY DEF JobsInv
          <5> QED BY <3>2, <5>1 DEF JobInv
        <4> QED BY <3>2, <4>1, <4>2 DEF SoloJob
      <3> QED BY <3>2, <3>3, PutSolo
    <2> QED BY <2>2, <2>3
  <1>9. ASSUME NEW cmd \in late, LateExecutes(cmd) \/ LateLost(cmd) PROVE Goal(i)
    BY <1>k, <1>9, LateFact
  <1>10. CASE Restart
    <2>1. Active \subseteq met' BY <1>10 DEF Restart, Remember
    <2>2. job[i].pc \in {"idle", "ok", "failed"} BY <2>1 DEF Active, Ended
    <2> QED BY <1>k, <1>10, <2>2, RestartFact
  <1>11. CASE UNCHANGED vars BY <1>k, <1>11 DEF vars
  <1> QED
    BY <1>1, <1>2, <1>3, <1>4, <1>5, <1>6, <1>7, <1>8, <1>9, <1>10, <1>11, Zenon DEF Next

-----------------------------------------------------------------------------
(* The theorems. *)

LEMMA InitInv == Init => IInv
  <1> SUFFICES ASSUME Init PROVE IInv OBVIOUS
  <1>1. TypeOK BY InitType
  <1>2. \A j \in Jobs : job[j] = Idle BY DEF Init
  <1>3. \A j \in Jobs : /\ job[j].pc = "idle" /\ job[j].does = "nothing"
                        /\ job[j].was = FALSE
    BY <1>2 DEF Idle
  <1>4. late = {} /\ calm = [code |-> code, running |-> running] BY DEF Init
  <1>5. calm.code = code /\ calm.running = running BY <1>4
  <1>6. JobsInv BY <1>2, <1>3 DEF JobsInv, JobInv
  <1>7. RunInv
    <2>1. \A j \in Jobs : RunJob(j) BY <1>3 DEF RunJob
    <2>2. running => calm.running BY <1>5, Zenon
    <2>3. ~(calm.running /\ ~running) BY <1>5, Zenon
    <2> QED BY <1>4, <2>1, <2>2, <2>3, RunParts
  <1>8. SafeInv
    <2>1. \A j \in Jobs : JobSafe(j) BY <1>3 DEF JobSafe
    <2> QED BY <1>4, <1>5, <2>1 DEF SafeInv
  <1>11. SavingInv
    <2>1. saving = << >> BY DEF Init
    <2>2. \A k \in DOMAIN saving : FALSE BY <2>1
    <2> QED BY <2>2 DEF SavingInv
  <1>9. MixInv BY <1>4, <1>5, MixParts DEF Whole
  <1>10. SoloInv BY <1>3 DEF SoloInv, Undisturbed, Active
  <1> QED BY <1>1, <1>6, <1>7, <1>8, <1>9, <1>10, <1>11 DEF IInv

LEMMA NextInv == IInv /\ [Next]_vars => IInv'
  <1> SUFFICES ASSUME IInv, [Next]_vars PROVE IInv' OBVIOUS
  <1>1. TypeOK /\ JobsInv /\ SavingInv /\ RunInv /\ SafeInv /\ MixInv /\ SoloInv BY DEF IInv
  <1>2. TypeOK' BY <1>1, TypeStep
  <1>3. JobsInv' BY <1>1, JobsStep
  <1>4. RunInv' BY <1>1, RunStep
  <1>5. SafeInv' BY <1>1, SafeStep
  <1>6. MixInv' BY <1>1, MixStep
  <1>7. SoloInv' BY <1>1, SoloStep
  <1>8. SavingInv' BY <1>1, <1>2, <1>5, SavingStep
  <1> QED BY <1>2, <1>3, <1>4, <1>5, <1>6, <1>7, <1>8 DEF IInv

\* The inductive invariant: what the jobs carry fits their phases, a script that was
\* stopped is going to be started, the code is stored before it can be overwritten,
\* what is not whole is being written or verified, and a job that nothing came across
\* has the script to itself.
THEOREM Invariance == Spec => []IInv
  <1>1. Init => IInv BY InitInv
  <1>2. IInv /\ [Next]_vars => IInv' BY NextInv
  <1> QED BY <1>1, <1>2, PTL DEF Spec

\* The script, the requests, the repository and the jobs keep their types, and neither
\* the repository nor its file grows beyond MAX_BACKUPS (backup.py 110).
THEOREM TypeCorrect == Spec => []TypeOK
  <1>1. IInv => TypeOK BY DEF IInv
  <1> QED BY <1>1, Invariance, PTL

\* Once the code differs from what it was when nothing was under way, that code is in
\* storage, unless a backup was deleted: no upload, no failure, no late request and no
\* restart overwrites what is not saved (scripts.py 62-69, backup.py 107-112).
THEOREM OriginalStored == Spec => []OriginalKept
  <1>1. IInv => OriginalKept
    <2>1. SafeInv /\ code # calm.code /\ ~discarded => Kept(disk) BY DEF SafeInv, Safe
    <2>2. Kept(disk) => \E k \in DOMAIN disk : disk[k].code = calm.code BY Zenon DEF Kept
    <2> QED BY <2>1, <2>2 DEF IInv, OriginalKept
  <1> QED BY <1>1, Invariance, PTL

\* When all uploads have ended the script runs as before them, unless a command or a
\* call of unknown fate started or stopped it (scripts.py 64-72).
THEOREM RunsAgain == Spec => []RunningAgain
  <1>1. ASSUME IInv, Quiet, ~stray PROVE running = calm.running
    <2>1. RunInv /\ running \in BOOLEAN /\ calm.running \in BOOLEAN
      BY <1>1 DEF IInv, TypeOK
    <2>2. /\ running => calm.running
          /\ calm.running /\ ~running => \E j \in Jobs : Starter(j)
      BY <1>1, <2>1, RunParts
    <2>3. \A j \in Jobs : ~Starter(j) BY <1>1, QuietFact DEF Starter
    <2>4. running <=> calm.running BY <2>2, <2>3, Zenon
    <2> QED BY <2>1, <2>4
  <1>2. IInv => RunningAgain BY <1>1 DEF RunningAgain
  <1> QED BY <1>2, Invariance, PTL

\* When all uploads have ended, and none that began to write failed, the code is whole:
\* what it was, or what one upload was given, however they overlapped
\* (scripts.py 139-149).
THEOREM WholeCode == Spec => []NoMixture
  <1>1. ASSUME IInv, Quiet, ~spoilt PROVE code \in {calm.code} \cup Uploaded
    <2>1. MixInv BY <1>1 DEF IInv
    <2>2. Whole \/ \E j \in Jobs : Mixing(j) BY <1>1, <2>1, MixParts
    <2>3. \A j \in Jobs : ~Mixing(j) BY <1>1, QuietFact DEF Mixing
    <2> QED BY <2>2, <2>3 DEF Whole, Uploaded
  <1>2. IInv => NoMixture BY <1>1 DEF NoMixture
  <1> QED BY <1>2, Invariance, PTL

\* As long as the code that the script holds can be read in the rounds of
\* async_read_script_code, an upload that no fault and no other command came across
\* succeeds: no chunk is refused, the chunks are all of the code, and its verification
\* finds it (scripts.py 99-118, backup.py 249).
THEOREM SoloUploadSucceeds == Spec /\ []Readable => []SoloSucceeds
  <1>1. Init => Succeeding
    <2> SUFFICES ASSUME Init, NEW j \in Jobs PROVE ~job[j].err /\ job[j].pc # "failed"
      BY DEF Succeeding
    <2>1. job[j] = Idle BY DEF Init
    <2> QED BY <2>1 DEF Idle
  <1>2. IInv /\ Readable /\ Succeeding /\ [Next]_vars => Succeeding'
    BY SucceedStep DEF IInv
  <1>3. Succeeding => SoloSucceeds BY DEF Succeeding, SoloSucceeds
  <1> QED BY <1>1, <1>2, <1>3, Invariance, PTL DEF Spec
=============================================================================
