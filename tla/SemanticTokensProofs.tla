-------------------------- MODULE SemanticTokensProofs --------------------------
(***************************************************************************)
(* The delta of any two results restores the newer from the older, and in  *)
(* every behaviour every answer restores the tokens its worker computed,   *)
(* in the order of the texts.  The tokens of any marks decode to the marks *)
(* that were in order, so that is what the client shows.                   *)
(***************************************************************************)
EXTENDS SemanticTokens, SequenceTheorems, FiniteSetTheorems, WellFoundedInduction, TLAPS

\* A set of numbers that has all numbers below each of its own is counted by
\* its greatest: what take_while(..).count() relies on.
LEMMA DownClosedCount ==
  ASSUME NEW m \in Nat, NEW A \in SUBSET (1 .. m),
         \A n \in A : \A k \in 1 .. n : k \in A
  PROVE  Cardinality(A) \in Nat /\ A = 1 .. Cardinality(A)
<1>1. IsFiniteSet(1 .. m)
  BY FS_Interval
<1>2. IsFiniteSet(A) /\ Cardinality(A) \in Nat
  BY <1>1, FS_Subset, FS_CardinalityType
<1> DEFINE c == Cardinality(A)
<1>3. A \subseteq 1 .. c
  <2>1. SUFFICES ASSUME NEW n \in A, n > c PROVE FALSE
    BY <1>2
  <2>2. n \in Nat /\ 1 .. n \subseteq A
    OBVIOUS
  <2>3. Cardinality(1 .. n) = n
    BY <2>2, FS_Interval
  <2>4. Cardinality(1 .. n) <= c
    BY <2>2, <1>2, FS_Subset
  <2>5. QED
    BY <2>1, <2>2, <2>3, <2>4, <1>2
<1>4. IsFiniteSet(1 .. c) /\ Cardinality(1 .. c) = c
  BY <1>2, FS_Interval
<1>5. A = 1 .. c
  BY <1>3, <1>4, FS_Subset
<1>6. QED
  BY <1>2, <1>5

LEMMA CommonPrefixAgrees ==
  ASSUME NEW T, NEW s \in Seq(T), NEW t \in Seq(T)
  PROVE  /\ CommonPrefix(s, t) \in 0 .. Shorter(s, t)
         /\ \A i \in 1 .. CommonPrefix(s, t) : s[i] = t[i]
<1> DEFINE m == Shorter(s, t)
           A == {n \in 1 .. m : \A i \in 1 .. n : s[i] = t[i]}
<1>1. m \in Nat
  BY DEF Shorter
<1>2. A \in SUBSET (1 .. m) /\ \A n \in A : \A k \in 1 .. n : k \in A
  BY <1>1
<1> HIDE DEF m
<1>3. Cardinality(A) \in Nat /\ A = 1 .. Cardinality(A)
  BY <1>1, <1>2, DownClosedCount
<1>4. Cardinality(A) \in 0 .. m
  <2>1. CASE Cardinality(A) = 0
    BY <2>1, <1>1
  <2>2. CASE Cardinality(A) # 0
    <3>1. Cardinality(A) \in A
      <4>1. Cardinality(A) \in 1 .. Cardinality(A)
        BY <2>2, <1>3
      <4>2. QED
        BY <4>1, <1>3
    <3>2. QED
      BY <3>1, <1>1, <1>3
  <2>3. QED
    BY <2>1, <2>2
<1>5. \A i \in 1 .. Cardinality(A) : s[i] = t[i]
  <2>1. SUFFICES ASSUME NEW i \in 1 .. Cardinality(A) PROVE s[i] = t[i]
    OBVIOUS
  <2>2. i \in A
    BY <1>3
  <2>3. QED
    BY <2>2, <1>1
<1>6. CommonPrefix(s, t) = Cardinality(A)
  BY DEF CommonPrefix, m
<1>7. QED
  BY <1>4, <1>5, <1>6 DEF m

LEMMA CommonSuffixAgrees ==
  ASSUME NEW T, NEW s \in Seq(T), NEW t \in Seq(T)
  PROVE  /\ CommonSuffix(s, t) \in 0 .. Shorter(s, t)
         /\ \A i \in 1 .. CommonSuffix(s, t) : s[Len(s) + 1 - i] = t[Len(t) + 1 - i]
<1> DEFINE m == Shorter(s, t)
           A == {n \in 1 .. m : \A i \in 1 .. n : s[Len(s) + 1 - i] = t[Len(t) + 1 - i]}
<1>1. m \in Nat
  BY DEF Shorter
<1>2. A \in SUBSET (1 .. m) /\ \A n \in A : \A k \in 1 .. n : k \in A
  BY <1>1
<1> HIDE DEF m
<1>3. Cardinality(A) \in Nat /\ A = 1 .. Cardinality(A)
  BY <1>1, <1>2, DownClosedCount
<1>4. Cardinality(A) \in 0 .. m
  <2>1. CASE Cardinality(A) = 0
    BY <2>1, <1>1
  <2>2. CASE Cardinality(A) # 0
    <3>1. Cardinality(A) \in A
      <4>1. Cardinality(A) \in 1 .. Cardinality(A)
        BY <2>2, <1>3
      <4>2. QED
        BY <4>1, <1>3
    <3>2. QED
      BY <3>1, <1>1, <1>3
  <2>3. QED
    BY <2>1, <2>2
<1>5. \A i \in 1 .. Cardinality(A) : s[Len(s) + 1 - i] = t[Len(t) + 1 - i]
  <2>1. SUFFICES ASSUME NEW i \in 1 .. Cardinality(A)
                 PROVE  s[Len(s) + 1 - i] = t[Len(t) + 1 - i]
    OBVIOUS
  <2>2. i \in A
    BY <1>3
  <2>3. QED
    BY <2>2, <1>1
<1>6. CommonSuffix(s, t) = Cardinality(A)
  BY DEF CommonSuffix, m
<1>7. QED
  BY <1>4, <1>5, <1>6 DEF m

------------------------------------------------------------------------------
(* Parts of sequences.                                                     *)

LEMMA AfterPart ==
  ASSUME NEW T, NEW s \in Seq(T), NEW n \in 0 .. Len(s)
  PROVE  /\ After(s, n) \in Seq(T) /\ Len(After(s, n)) = Len(s) - n
         /\ \A i \in 1 .. Len(s) - n : After(s, n)[i] = s[n + i]
BY DEF After

LEMMA BeforePart ==
  ASSUME NEW T, NEW s \in Seq(T), NEW n \in 0 .. Len(s)
  PROVE  /\ Before(s, n) \in Seq(T) /\ Len(Before(s, n)) = Len(s) - n
         /\ \A i \in 1 .. Len(s) - n : Before(s, n)[i] = s[i]
BY DEF Before

LEMMA HeadPart ==
  ASSUME NEW T, NEW s \in Seq(T), NEW n \in 0 .. Len(s)
  PROVE  /\ SubSeq(s, 1, n) \in Seq(T) /\ Len(SubSeq(s, 1, n)) = n
         /\ \A i \in 1 .. n : SubSeq(s, 1, n)[i] = s[i]
OBVIOUS

\* Three parts joined, of which each agrees with its place in t.
LEMMA JoinedParts ==
  ASSUME NEW T, NEW t \in Seq(T), NEW a \in Seq(T), NEW b \in Seq(T), NEW c \in Seq(T),
         Len(t) = Len(a) + Len(b) + Len(c),
         \A i \in 1 .. Len(a) : a[i] = t[i],
         \A i \in 1 .. Len(b) : b[i] = t[Len(a) + i],
         \A i \in 1 .. Len(c) : c[i] = t[Len(a) + Len(b) + i]
  PROVE  a \o b \o c = t
<1> DEFINE ab == a \o b
<1>1. /\ ab \in Seq(T) /\ Len(ab) = Len(a) + Len(b)
      /\ \A i \in 1 .. Len(a) + Len(b) : ab[i] = IF i <= Len(a) THEN a[i] ELSE b[i - Len(a)]
  BY ConcatProperties
<1>2. \A i \in 1 .. Len(ab) : ab[i] = t[i]
  <2> SUFFICES ASSUME NEW i \in 1 .. Len(ab) PROVE ab[i] = t[i]
    OBVIOUS
  <2> HIDE DEF ab
  <2>1. Len(a) \in Nat /\ Len(b) \in Nat /\ i \in 1 .. Len(a) + Len(b)
    BY <1>1
  <2>2. CASE i <= Len(a)
    <3>1. ab[i] = a[i] /\ i \in 1 .. Len(a)
      BY <1>1, <2>1, <2>2
    <3> QED BY <3>1
  <2>3. CASE i > Len(a)
    <3>1. i - Len(a) \in 1 .. Len(b) /\ ab[i] = b[i - Len(a)]
      BY <1>1, <2>1, <2>3
    <3>2. b[i - Len(a)] = t[Len(a) + (i - Len(a))]
      BY <3>1
    <3> QED BY <2>1, <3>1, <3>2
  <2> QED BY <2>1, <2>2, <2>3
<1> HIDE DEF ab
<1>3. /\ ab \o c \in Seq(T) /\ Len(ab \o c) = Len(t)
      /\ \A i \in 1 .. Len(t) : (ab \o c)[i] = IF i <= Len(ab) THEN ab[i] ELSE c[i - Len(ab)]
  <2>1. /\ ab \o c \in Seq(T) /\ Len(ab \o c) = Len(ab) + Len(c)
        /\ \A i \in 1 .. Len(ab) + Len(c) :
             (ab \o c)[i] = IF i <= Len(ab) THEN ab[i] ELSE c[i - Len(ab)]
    BY <1>1, ConcatProperties
  <2>2. Len(ab) + Len(c) = Len(t)
    BY <1>1
  <2>3. QED
    BY <2>1, <2>2
<1>4. \A i \in 1 .. Len(t) : (ab \o c)[i] = t[i]
  <2>1. SUFFICES ASSUME NEW i \in 1 .. Len(t) PROVE (ab \o c)[i] = t[i]
    OBVIOUS
  <2>2. CASE i <= Len(ab)
    BY <2>2, <1>1, <1>2, <1>3
  <2>3. CASE i > Len(ab)
    <3>1. i - Len(ab) \in 1 .. Len(c) /\ (ab \o c)[i] = c[i - Len(ab)]
      BY <2>3, <1>1, <1>3
    <3>2. c[i - Len(ab)] = t[Len(a) + Len(b) + (i - Len(ab))]
      BY <3>1
    <3>3. QED
      BY <3>1, <3>2, <1>1
  <2>4. QED
    BY <2>2, <2>3, <1>1
<1>5. ab \o c = t
  BY <1>3, <1>4, SeqEqual
<1>6. QED
  BY <1>5 DEF ab

------------------------------------------------------------------------------
\* semantic_token_delta: the edits make the new result of the old one, whatever
\* the two are; a repeated token is never counted in both prefix and suffix.
THEOREM DeltaRestores ==
  ASSUME NEW T, NEW old \in Seq(T), NEW new \in Seq(T)
  PROVE  ApplyEdits(SemanticTokenEdits(old, new), old) = new
<1> DEFINE p       == CommonPrefix(new, old)
           oldRest == After(old, p)
           newRest == After(new, p)
           q       == CommonSuffix(newRest, oldRest)
           gone    == Before(oldRest, q)
           come    == Before(newRest, q)
<1>1. /\ p \in 0 .. Len(old) /\ p \in 0 .. Len(new)
      /\ \A i \in 1 .. p : new[i] = old[i]
  BY CommonPrefixAgrees DEF Shorter
<1>2. /\ oldRest \in Seq(T) /\ Len(oldRest) = Len(old) - p
      /\ \A i \in 1 .. Len(old) - p : oldRest[i] = old[p + i]
  BY <1>1, AfterPart
<1>3. /\ newRest \in Seq(T) /\ Len(newRest) = Len(new) - p
      /\ \A i \in 1 .. Len(new) - p : newRest[i] = new[p + i]
  BY <1>1, AfterPart
<1>4. /\ q \in 0 .. Len(oldRest) /\ q \in 0 .. Len(newRest)
      /\ \A i \in 1 .. q : newRest[Len(newRest) + 1 - i] = oldRest[Len(oldRest) + 1 - i]
  <2> HIDE DEF oldRest, newRest
  <2>1. /\ q \in 0 .. Shorter(newRest, oldRest)
        /\ \A i \in 1 .. q : newRest[Len(newRest) + 1 - i] = oldRest[Len(oldRest) + 1 - i]
    <3>1. newRest \in Seq(T) /\ oldRest \in Seq(T)
      BY <1>2, <1>3
    <3>2. /\ CommonSuffix(newRest, oldRest) \in 0 .. Shorter(newRest, oldRest)
          /\ \A i \in 1 .. CommonSuffix(newRest, oldRest) :
               newRest[Len(newRest) + 1 - i] = oldRest[Len(oldRest) + 1 - i]
      BY ONLY <3>1, CommonSuffixAgrees
    <3>3. QED
      BY <3>2
  <2>2. Len(newRest) \in Nat /\ Len(oldRest) \in Nat
    BY <1>2, <1>3
  <2> HIDE DEF q
  <2>3. q \in 0 .. Len(oldRest) /\ q \in 0 .. Len(newRest)
    BY <2>1, <2>2 DEF Shorter
  <2>4. QED
    BY <2>1, <2>3
<1>5. /\ gone \in Seq(T) /\ Len(gone) = Len(old) - p - q
  BY <1>2, <1>4, BeforePart
<1>6. /\ come \in Seq(T) /\ Len(come) = Len(new) - p - q
      /\ \A i \in 1 .. Len(new) - p - q : come[i] = newRest[i]
  BY <1>3, <1>4, BeforePart
<1>7. SemanticTokenEdits(old, new)
        = IF gone = <<>> /\ come = <<>> THEN <<>>
          ELSE <<[start |-> TOKEN_SIZE * p, delete |-> TOKEN_SIZE * Len(gone), data |-> come]>>
  BY DEF SemanticTokenEdits
<1> HIDE DEF gone, come, q, oldRest, newRest, p
<1>sizes. /\ p \in Nat /\ q \in Nat /\ Len(old) \in Nat /\ Len(new) \in Nat
      /\ p + q <= Len(old) /\ p + q <= Len(new)
      /\ Len(oldRest) = Len(old) - p /\ Len(newRest) = Len(new) - p
      /\ Len(gone) = Len(old) - p - q /\ Len(come) = Len(new) - p - q
  <2>1. p \in Nat /\ Len(old) \in Nat /\ Len(new) \in Nat
    BY <1>1
  <2>2. q \in Nat /\ q <= Len(old) - p /\ q <= Len(new) - p
    BY <2>1, <1>2, <1>3, <1>4
  <2>3. QED
    BY <2>1, <2>2, <1>2, <1>3, <1>5, <1>6
<1>8. \A i \in 1 .. Len(come) : come[i] = new[p + i]
  BY <1>1, <1>3, <1>4, <1>6
<1> DEFINE head == SubSeq(old, 1, p)
           tail == After(old, Len(old) - q)
<1>9. /\ head \in Seq(T) /\ Len(head) = p
      /\ \A i \in 1 .. p : head[i] = old[i]
  BY <1>1, HeadPart
<1>10. /\ tail \in Seq(T) /\ Len(tail) = q
       /\ \A i \in 1 .. q : tail[i] = old[Len(old) - q + i]
  <2>1. Len(old) - q \in 0 .. Len(old)
    BY <1>sizes
  <2>2. Len(old) - (Len(old) - q) = q
    BY <1>sizes
  <2>3. QED
    BY <2>1, <2>2, AfterPart
<1> HIDE DEF head, tail
<1>11. \A i \in 1 .. q : tail[i] = new[Len(new) - q + i]
  <2>1. SUFFICES ASSUME NEW i \in 1 .. q PROVE tail[i] = new[Len(new) - q + i]
    OBVIOUS
  <2> DEFINE k == q + 1 - i
  <2>2. k \in 1 .. q /\ k \in Nat
    BY <1>4
  <2>3. newRest[Len(newRest) + 1 - k] = oldRest[Len(oldRest) + 1 - k]
    BY <2>2, <1>4
  <2>4. newRest[Len(newRest) + 1 - k] = new[p + (Len(newRest) + 1 - k)]
    <3>1. Len(newRest) + 1 - k \in 1 .. Len(new) - p
      BY <2>2, <1>sizes
    <3>2. QED
      BY <3>1, <1>3
  <2>5. oldRest[Len(oldRest) + 1 - k] = old[p + (Len(oldRest) + 1 - k)]
    <3>1. Len(oldRest) + 1 - k \in 1 .. Len(old) - p
      BY <2>2, <1>sizes
    <3>2. QED
      BY <3>1, <1>2
  <2>6. /\ p + (Len(newRest) + 1 - k) = Len(new) - q + i
        /\ p + (Len(oldRest) + 1 - k) = Len(old) - q + i
    BY <1>sizes
  <2>7. QED
    BY <2>3, <2>4, <2>5, <2>6, <1>10
<1>12. head \o come \o tail = new
  <2>1. \A i \in 1 .. Len(head) : head[i] = new[i]
    BY <1>1, <1>9
  <2>2. \A i \in 1 .. Len(come) : come[i] = new[Len(head) + i]
    BY <1>8, <1>9
  <2>3. \A i \in 1 .. Len(tail) : tail[i] = new[Len(head) + Len(come) + i]
    BY <1>sizes, <1>9, <1>10, <1>11
  <2>4. Len(new) = Len(head) + Len(come) + Len(tail)
    BY <1>sizes, <1>9, <1>10
  <2>5. /\ head \in Seq(T) /\ come \in Seq(T) /\ tail \in Seq(T)
    BY <1>6, <1>9, <1>10
  <2>6. QED
    BY <2>1, <2>2, <2>3, <2>4, <2>5, JoinedParts
<1>13. CASE gone = <<>> /\ come = <<>>
  <2>1. /\ p \in Nat /\ q \in Nat /\ Len(old) = p + q
    <3>1. Len(gone) = 0
      BY <1>13
    <3>2. QED
      BY <3>1, <1>sizes
  <2>2. head \o come \o tail = old
    <3>1. \A i \in 1 .. Len(come) : come[i] = old[Len(head) + i]
      BY <1>13
    <3>2. \A i \in 1 .. Len(tail) : tail[i] = old[Len(head) + Len(come) + i]
      BY <1>9, <1>10, <1>13, <2>1
    <3>3. Len(old) = Len(head) + Len(come) + Len(tail)
      BY <1>9, <1>10, <1>13, <2>1
    <3>4. \A i \in 1 .. Len(head) : head[i] = old[i]
      BY <1>9
    <3>5. head \in Seq(T) /\ come \in Seq(T) /\ tail \in Seq(T)
      BY <1>6, <1>9, <1>10
    <3>6. QED
      BY ONLY <3>1, <3>2, <3>3, <3>4, <3>5, old \in Seq(T), JoinedParts
  <2>3. QED
    BY <1>7, <1>12, <1>13, <2>2 DEF ApplyEdits
<1>14. CASE ~(gone = <<>> /\ come = <<>>)
  <2> DEFINE e == [start |-> TOKEN_SIZE * p, delete |-> TOKEN_SIZE * Len(gone), data |-> come]
  <2>1. /\ p \in Nat /\ q \in Nat /\ Len(gone) \in Nat /\ Len(old) \in Nat
        /\ p + Len(gone) = Len(old) - q
    BY <1>sizes
  <2>2. e.start \div TOKEN_SIZE = p /\ (e.start + e.delete) \div TOKEN_SIZE = p + Len(gone)
    BY <2>1 DEF TOKEN_SIZE
  <2>3. SemanticTokenEdits(old, new) = <<e>>
    BY <1>7, <1>14
  <2> HIDE DEF e
  <2>4. ApplyEdits(<<e>>, old)
          = SubSeq(old, 1, e.start \div TOKEN_SIZE) \o e.data
              \o After(old, (e.start + e.delete) \div TOKEN_SIZE)
    BY DEF ApplyEdits
  <2>5. e.data = come
    BY DEF e
  <2>6. QED
    BY <2>1, <2>2, <2>3, <2>4, <2>5, <1>12 DEF head, tail
<1>15. QED
  BY <1>13, <1>14

LEMMA EditsType ==
  ASSUME NEW old \in Seq(Token), NEW new \in Seq(Token)
  PROVE  SemanticTokenEdits(old, new) \in Seq(Edit)
<1> DEFINE offset  == CommonPrefix(new, old)
           oldRest == After(old, offset)
           newRest == After(new, offset)
           fromEnd == CommonSuffix(newRest, oldRest)
           gone    == Before(oldRest, fromEnd)
           come    == Before(newRest, fromEnd)
           e       == [start |-> TOKEN_SIZE * offset, delete |-> TOKEN_SIZE * Len(gone),
                       data |-> come]
<1>1. offset \in Nat /\ offset <= Len(new) /\ offset <= Len(old)
  <2>1. offset \in 0 .. Shorter(new, old)
    BY CommonPrefixAgrees
  <2>2. QED
    BY <2>1 DEF Shorter
<1>2. oldRest \in Seq(Token) /\ newRest \in Seq(Token)
  BY <1>1, AfterPart
<1> HIDE DEF offset, oldRest, newRest
<1>3. fromEnd \in Nat /\ fromEnd <= Len(newRest) /\ fromEnd <= Len(oldRest)
  <2>1. fromEnd \in 0 .. Shorter(newRest, oldRest)
    BY <1>2, CommonSuffixAgrees
  <2>2. QED
    BY <1>2, <2>1 DEF Shorter
<1> HIDE DEF fromEnd
<1>4. gone \in Seq(Token) /\ come \in Seq(Token)
  BY <1>2, <1>3, BeforePart
<1> HIDE DEF gone, come
<1>5. e \in Edit
  BY <1>1, <1>4 DEF Edit, TOKEN_SIZE
<1>6. SemanticTokenEdits(old, new) \in {<<>>, <<e>>}
  BY DEF SemanticTokenEdits, offset, oldRest, newRest, fromEnd, gone, come
<1>7. <<>> \in Seq(Edit)
  OBVIOUS
<1>8. <<e>> \in Seq(Edit)
  BY <1>5
<1>9. QED
  BY <1>6, <1>7, <1>8

------------------------------------------------------------------------------
(* The inductive invariant: an id stands for one result wherever it is,    *)
(* and every job has a snapshot of the text the analysis has, or had until *)
(* the write that waits for it.                                            *)

Known(r)       == r.id \in 1 .. Len(issued) /\ issued[r.id] = r.data
KnownOrNone(r) == r # None => Known(r)

Current == IF phase = "write" THEN snap.version - 1 ELSE snap.version

GoodJob(j) ==
  /\ KnownOrNone(j.base)
  /\ j.result # None => Known(j.result) /\ j.result.data = Colour(j.snap)
  /\ j.snap.version = Current

GoodResponse(t) ==
  /\ Known(t.result) /\ t.result.data = Colour(t.snap)
  /\ t.reply.id = t.result.id
  /\ Restored(t.reply, t.base) = Colour(t.snap)
  /\ t.snap.version <= Current

GoodTask(t) == KnownOrNone(t.base) /\ (~t.retry => GoodResponse(t))

GoodAnswer(a) ==
  /\ Known([id |-> a.reply.id, data |-> Colour(a.snap)])
  /\ Restored(a.reply, a.base) = Colour(a.snap)
  /\ a.snap.version <= Current

InOrderOfText ==
  /\ AnswersKeepOrder
  /\ \A i, k \in DOMAIN tasks :
       i < k /\ ~tasks[i].retry /\ ~tasks[k].retry
         => tasks[i].snap.version <= tasks[k].snap.version
  /\ \A i \in DOMAIN outbox, k \in DOMAIN tasks :
       ~tasks[k].retry => outbox[i].snap.version <= tasks[k].snap.version

TokensInv ==
  /\ TypeOK
  /\ KnownOrNone(cache) /\ KnownOrNone(held)
  /\ \A j \in jobs : GoodJob(j)
  /\ \A i \in DOMAIN tasks : GoodTask(tasks[i])
  /\ \A i \in DOMAIN outbox : GoodAnswer(outbox[i])
  /\ InOrderOfText

LEMMA TakeHead ==
  ASSUME NEW S, NEW s \in Seq(S), s # <<>>
  PROVE  /\ Head(s) \in S /\ Head(s) = s[1] /\ 1 \in DOMAIN s
         /\ Tail(s) \in Seq(S)
         /\ \A i \in DOMAIN Tail(s) : i + 1 \in DOMAIN s /\ Tail(s)[i] = s[i + 1]
OBVIOUS

LEMMA AddLast ==
  ASSUME NEW S, NEW s \in Seq(S), NEW e \in S
  PROVE  /\ Append(s, e) \in Seq(S)
         /\ \A i \in DOMAIN Append(s, e) : i \in DOMAIN s \/ i = Len(s) + 1
         /\ \A i \in DOMAIN s : i <= Len(s) /\ Append(s, e)[i] = s[i]
         /\ Append(s, e)[Len(s) + 1] = e
OBVIOUS

------------------------------------------------------------------------------
(* Induction, and the functions that TokenBuilder defines by recursion.    *)

LEMMA Induct ==
  ASSUME NEW m \in Nat, NEW P, 0 \in P, \A n \in P : n \in 0 .. m - 1 => n + 1 \in P
  PROVE  0 .. m \subseteq P
<1> DEFINE R == {p \in Nat \X Nat : p[1] < p[2]}
           B == {n \in 0 .. m : n \notin P}
<1> SUFFICES ASSUME B # {} PROVE FALSE
  OBVIOUS
<1>1. IsWellFoundedOn(R, Nat)
  BY NatLessThanWellFounded DEF OpToRel
<1>2. PICK n \in B : \A k \in B : ~(<<k, n>> \in R)
  BY <1>1, WFMin
<1>3. n \in 0 .. m /\ n \notin P /\ n # 0
  BY <1>2
<1>4. n - 1 \in 0 .. m - 1 /\ n - 1 \in Nat /\ n \in Nat /\ n - 1 < n /\ (n - 1) + 1 = n
  BY <1>3
<1>5. n - 1 \notin B
  BY <1>2, <1>4
<1>6. n - 1 \in P
  BY <1>4, <1>5
<1>7. QED
  BY <1>3, <1>4, <1>6

\* Each value determines the next.
IsRun(f, a, next, n) ==
  f = [i \in 0 .. n |-> IF i = 0 THEN a ELSE next[<<f[i - 1], i>>]]

LEMMA RunExists ==
  ASSUME NEW V, NEW a \in V, NEW m \in Nat, NEW next \in [V \X (1 .. m) -> V]
  PROVE  \E f \in [0 .. m -> V] : IsRun(f, a, next, m)
<1> DEFINE P == {k \in Nat : \E f \in [0 .. k -> V] : IsRun(f, a, next, k)}
<1>1. 0 \in P
  <2>1. [i \in 0 .. 0 |-> a] \in [0 .. 0 -> V] /\ IsRun([i \in 0 .. 0 |-> a], a, next, 0)
    BY DEF IsRun
  <2>2. QED
    BY <2>1
<1>2. ASSUME NEW k \in P, k \in 0 .. m - 1 PROVE k + 1 \in P
  <2>1. PICK f \in [0 .. k -> V] : IsRun(f, a, next, k)
    OBVIOUS
  <2> DEFINE v == next[<<f[k], k + 1>>]
             g == [i \in 0 .. k + 1 |-> IF i = k + 1 THEN v ELSE f[i]]
  <2>2. k \in Nat /\ k + 1 \in 1 .. m /\ v \in V
    BY <1>2
  <2>3. g \in [0 .. k + 1 -> V]
    BY <2>2
  <2>4. ASSUME NEW i \in 0 .. k + 1
        PROVE  g[i] = IF i = 0 THEN a ELSE next[<<g[i - 1], i>>]
    <3>1. CASE i = k + 1
      <4>1. g[i] = v /\ g[i - 1] = f[k] /\ i # 0
        BY <2>2, <3>1
      <4>2. QED
        BY <3>1, <4>1
    <3>2. CASE i = 0
      BY <2>1, <2>2, <3>2 DEF IsRun
    <3>3. CASE i \in 1 .. k
      <4>1. f[i] = next[<<f[i - 1], i>>]
        BY <2>1, <2>2, <3>3 DEF IsRun
      <4>2. g[i] = f[i] /\ g[i - 1] = f[i - 1] /\ i # 0
        BY <2>2, <3>3
      <4>3. QED
        BY <4>1, <4>2
    <3>4. QED
      BY <2>2, <3>1, <3>2, <3>3
  <2>5. IsRun(g, a, next, k + 1)
    BY <2>3, <2>4 DEF IsRun
  <2>6. QED
    BY <2>2, <2>3, <2>5
<1> HIDE DEF P
<1>3. 0 .. m \subseteq P
  BY <1>1, <1>2, Induct
<1>4. QED
  BY <1>3 DEF P

\* What the builder holds between marks, and the client between tokens: until
\* there is a token, the place is the start of the text.
Builders ==
  {b \in [line : Nat, char : Nat, data : Seq(Token)] : b.data = <<>> => b = Start}

LEMMA StartIsBuilder == Start \in Builders
  BY DEF Start, Builders

\* No mark is placed before the last one: the differences are natural numbers.
LEMMA PushType ==
  ASSUME NEW b \in Builders, NEW m \in Mark
  PROVE  Push(b, m) \in Builders
<1> DEFINE t == [line |-> m.line - b.line,
                 char |-> IF m.line = b.line THEN m.char - b.char ELSE m.char,
                 what |-> m.what]
<1>1. /\ b.line \in Nat /\ b.char \in Nat /\ b.data \in Seq(Token)
      /\ m.line \in Nat /\ m.char \in Nat /\ m.what \in What
      /\ b.data = <<>> => b.line = 0 /\ b.char = 0
  BY DEF Builders, Start, Mark
<1>2. CASE b.data # <<>> /\ IsBefore(m, b)
  BY <1>2 DEF Push
<1>3. CASE ~(b.data # <<>> /\ IsBefore(m, b))
  <2>1. m.line >= b.line /\ (m.line = b.line => m.char >= b.char)
    BY <1>1, <1>3 DEF IsBefore
  <2>2. m.line - b.line \in Nat /\ (m.line = b.line => m.char - b.char \in Nat)
    BY <1>1, <2>1
  <2>3. t \in Token
    BY <1>1, <2>2 DEF Token
  <2>4. Push(b, m) = [line |-> m.line, char |-> m.char, data |-> Append(b.data, t)]
    BY <1>3 DEF Push
  <2> HIDE DEF t
  <2>5. Append(b.data, t) \in Seq(Token) /\ Append(b.data, t) # <<>>
    BY <1>1, <2>3
  <2>6. QED
    BY <1>1, <2>4, <2>5 DEF Builders
<1>4. QED
  BY <1>2, <1>3

LEMMA PlaceType ==
  ASSUME NEW b \in Builders, NEW t \in Token
  PROVE  Place(b, t) \in Builders
<1> DEFINE l == b.line + t.line
           c == IF t.line = 0 THEN b.char + t.char ELSE t.char
           u == [line |-> l, char |-> c, what |-> t.what]
<1>1. /\ b.line \in Nat /\ b.char \in Nat /\ b.data \in Seq(Token)
      /\ t.line \in Nat /\ t.char \in Nat /\ t.what \in What
  BY DEF Builders, Token
<1>2. l \in Nat /\ c \in Nat
  BY <1>1
<1>3. Place(b, t) = [line |-> l, char |-> c, data |-> Append(b.data, u)]
  BY DEF Place
<1> HIDE DEF l, c
<1>4. u \in Token
  BY <1>1, <1>2 DEF Token
<1> HIDE DEF u
<1>5. Append(b.data, u) \in Seq(Token) /\ Append(b.data, u) # <<>>
  BY <1>1, <1>4
<1>6. QED
  BY <1>2, <1>3, <1>5 DEF Builders

\* The recursive definitions are of functions that exist, and have these values.
ArePushed(b, marks) ==
  b = [n \in 0 .. Len(marks) |-> IF n = 0 THEN Start ELSE Push(b[n - 1], marks[n])]

LEMMA PushedAre ==
  ASSUME NEW marks \in Seq(Mark)
  PROVE  /\ \A n \in 0 .. Len(marks) : Pushed(marks)[n] \in Builders
         /\ Pushed(marks)[0] = Start
         /\ \A n \in 1 .. Len(marks) :
              Pushed(marks)[n] = Push(Pushed(marks)[n - 1], marks[n])
<1>1. PICK m \in Nat : m = Len(marks)
  OBVIOUS
<1> DEFINE next == [p \in Builders \X (1 .. m) |-> Push(p[1], marks[p[2]])]
           g    == Pushed(marks)
<1>2. next \in [Builders \X (1 .. m) -> Builders]
  <2>1. \A p \in Builders \X (1 .. m) : p[1] \in Builders /\ marks[p[2]] \in Mark
    BY <1>1
  <2>2. QED
    BY <2>1, PushType
<1>3. \A b \in Builders, n \in 1 .. m : next[<<b, n>>] = Push(b, marks[n])
  OBVIOUS
<1> HIDE DEF next
<1>4. PICK f \in [0 .. m -> Builders] : IsRun(f, Start, next, m)
  BY <1>1, <1>2, StartIsBuilder, RunExists
<1>5. \E b : ArePushed(b, marks)
  <2>1. \A n \in 0 .. m : n # 0 => n \in 1 .. m /\ n - 1 \in 0 .. m
    BY <1>1
  <2>2. \A n \in 0 .. m : f[n] = IF n = 0 THEN Start ELSE Push(f[n - 1], marks[n])
    BY <1>3, <1>4, <2>1 DEF IsRun
  <2>3. f = [n \in 0 .. m |-> IF n = 0 THEN Start ELSE Push(f[n - 1], marks[n])]
    BY <1>4, <2>2
  <2>4. QED
    BY <1>1, <2>3 DEF ArePushed
<1>6. g = CHOOSE b : ArePushed(b, marks)
  BY DEF Pushed, ArePushed
<1>7. ArePushed(g, marks)
  BY <1>5, <1>6
<1> HIDE DEF g
<1>8. g[0] = Start /\ \A n \in 1 .. m : g[n] = Push(g[n - 1], marks[n])
  <2>1. \A n \in 0 .. m : g[n] = IF n = 0 THEN Start ELSE Push(g[n - 1], marks[n])
    BY <1>1, <1>7 DEF ArePushed
  <2>2. 0 \in 0 .. m /\ \A n \in 1 .. m : n \in 0 .. m /\ n # 0
    BY <1>1
  <2>3. QED
    BY <2>1, <2>2
<1> DEFINE P == {n \in 0 .. m : g[n] \in Builders}
<1>9. 0 .. m \subseteq P
  <2>1. 0 \in P
    BY <1>1, <1>8, StartIsBuilder
  <2>2. ASSUME NEW n \in P, n \in 0 .. m - 1 PROVE n + 1 \in P
    <3>1. n + 1 \in 1 .. m /\ n + 1 \in 0 .. m /\ (n + 1) - 1 = n /\ marks[n + 1] \in Mark
      BY <1>1, <2>2
    <3>2. g[n + 1] = Push(g[n], marks[n + 1])
      BY <1>8, <3>1
    <3>3. QED
      BY <3>1, <3>2, PushType
  <2> HIDE DEF P
  <2>3. QED
    BY <1>1, <2>1, <2>2, Induct
<1>10. QED
  BY <1>1, <1>8, <1>9 DEF g

ArePlaced(b, tokens) ==
  b = [n \in 0 .. Len(tokens) |-> IF n = 0 THEN Start ELSE Place(b[n - 1], tokens[n])]

LEMMA PlacedAre ==
  ASSUME NEW tokens \in Seq(Token)
  PROVE  /\ \A n \in 0 .. Len(tokens) : Placed(tokens)[n] \in Builders
         /\ Placed(tokens)[0] = Start
         /\ \A n \in 1 .. Len(tokens) :
              Placed(tokens)[n] = Place(Placed(tokens)[n - 1], tokens[n])
<1>1. PICK m \in Nat : m = Len(tokens)
  OBVIOUS
<1> DEFINE next == [p \in Builders \X (1 .. m) |-> Place(p[1], tokens[p[2]])]
           g    == Placed(tokens)
<1>2. next \in [Builders \X (1 .. m) -> Builders]
  <2>1. \A p \in Builders \X (1 .. m) : p[1] \in Builders /\ tokens[p[2]] \in Token
    BY <1>1
  <2>2. QED
    BY <2>1, PlaceType
<1>3. \A b \in Builders, n \in 1 .. m : next[<<b, n>>] = Place(b, tokens[n])
  OBVIOUS
<1> HIDE DEF next
<1>4. PICK f \in [0 .. m -> Builders] : IsRun(f, Start, next, m)
  BY <1>1, <1>2, StartIsBuilder, RunExists
<1>5. \E b : ArePlaced(b, tokens)
  <2>1. \A n \in 0 .. m : n # 0 => n \in 1 .. m /\ n - 1 \in 0 .. m
    BY <1>1
  <2>2. \A n \in 0 .. m : f[n] = IF n = 0 THEN Start ELSE Place(f[n - 1], tokens[n])
    BY <1>3, <1>4, <2>1 DEF IsRun
  <2>3. f = [n \in 0 .. m |-> IF n = 0 THEN Start ELSE Place(f[n - 1], tokens[n])]
    BY <1>4, <2>2
  <2>4. QED
    BY <1>1, <2>3 DEF ArePlaced
<1>6. g = CHOOSE b : ArePlaced(b, tokens)
  BY DEF Placed, ArePlaced
<1>7. ArePlaced(g, tokens)
  BY <1>5, <1>6
<1> HIDE DEF g
<1>8. g[0] = Start /\ \A n \in 1 .. m : g[n] = Place(g[n - 1], tokens[n])
  <2>1. \A n \in 0 .. m : g[n] = IF n = 0 THEN Start ELSE Place(g[n - 1], tokens[n])
    BY <1>1, <1>7 DEF ArePlaced
  <2>2. 0 \in 0 .. m /\ \A n \in 1 .. m : n \in 0 .. m /\ n # 0
    BY <1>1
  <2>3. QED
    BY <2>1, <2>2
<1> DEFINE P == {n \in 0 .. m : g[n] \in Builders}
<1>9. 0 .. m \subseteq P
  <2>1. 0 \in P
    BY <1>1, <1>8, StartIsBuilder
  <2>2. ASSUME NEW n \in P, n \in 0 .. m - 1 PROVE n + 1 \in P
    <3>1. n + 1 \in 1 .. m /\ n + 1 \in 0 .. m /\ (n + 1) - 1 = n /\ tokens[n + 1] \in Token
      BY <1>1, <2>2
    <3>2. g[n + 1] = Place(g[n], tokens[n + 1])
      BY <1>8, <3>1
    <3>3. QED
      BY <3>1, <3>2, PlaceType
  <2> HIDE DEF P
  <2>3. QED
    BY <1>1, <2>1, <2>2, Induct
<1>10. QED
  BY <1>1, <1>8, <1>9 DEF g

AreKept(b, marks) ==
  b = [n \in 0 .. Len(marks) |-> IF n = 0 THEN <<>> ELSE Keep(b[n - 1], marks, n)]

LEMMA KeepType ==
  ASSUME NEW marks, NEW n, NEW kept \in Seq(Mark), marks[n] \in Mark
  PROVE  Keep(kept, marks, n) \in Seq(Mark)
BY DEF Keep

LEMMA KeptAre ==
  ASSUME NEW marks \in Seq(Mark)
  PROVE  /\ \A n \in 0 .. Len(marks) : KeptOf(marks)[n] \in Seq(Mark)
         /\ KeptOf(marks)[0] = <<>>
         /\ \A n \in 1 .. Len(marks) :
              KeptOf(marks)[n] = Keep(KeptOf(marks)[n - 1], marks, n)
<1>1. PICK m \in Nat : m = Len(marks)
  OBVIOUS
<1> DEFINE next == [p \in Seq(Mark) \X (1 .. m) |-> Keep(p[1], marks, p[2])]
           g    == KeptOf(marks)
<1>2. next \in [Seq(Mark) \X (1 .. m) -> Seq(Mark)]
  <2>1. \A p \in Seq(Mark) \X (1 .. m) : p[1] \in Seq(Mark) /\ marks[p[2]] \in Mark
    BY <1>1
  <2>2. QED
    BY <2>1, KeepType
<1>3. \A b \in Seq(Mark), n \in 1 .. m : next[<<b, n>>] = Keep(b, marks, n)
  OBVIOUS
<1> HIDE DEF next
<1>4. PICK f \in [0 .. m -> Seq(Mark)] : IsRun(f, <<>>, next, m)
  <2>1. PICK none \in Seq(Mark) : none = <<>>
    <3>1. <<>> \in Seq(Mark)
      OBVIOUS
    <3>2. QED
      BY <3>1, Zenon
  <2>2. \E f \in [0 .. m -> Seq(Mark)] : IsRun(f, none, next, m)
    BY <1>1, <1>2, RunExists
  <2>3. QED
    BY <2>1, <2>2
<1>5. \E b : AreKept(b, marks)
  <2>1. \A n \in 0 .. m : n # 0 => n \in 1 .. m /\ n - 1 \in 0 .. m
    BY <1>1
  <2>2. \A n \in 0 .. m : f[n] = IF n = 0 THEN <<>> ELSE Keep(f[n - 1], marks, n)
    BY <1>3, <1>4, <2>1 DEF IsRun
  <2>3. f = [n \in 0 .. m |-> IF n = 0 THEN <<>> ELSE Keep(f[n - 1], marks, n)]
    BY <1>4, <2>2
  <2>4. QED
    BY <1>1, <2>3 DEF AreKept
<1>6. g = CHOOSE b : AreKept(b, marks)
  BY DEF KeptOf, AreKept
<1>7. AreKept(g, marks)
  BY <1>5, <1>6
<1> HIDE DEF g
<1>8. g[0] = <<>> /\ \A n \in 1 .. m : g[n] = Keep(g[n - 1], marks, n)
  <2>1. \A n \in 0 .. m : g[n] = IF n = 0 THEN <<>> ELSE Keep(g[n - 1], marks, n)
    BY <1>1, <1>7 DEF AreKept
  <2>2. 0 \in 0 .. m /\ \A n \in 1 .. m : n \in 0 .. m /\ n # 0
    BY <1>1
  <2>3. QED
    BY <2>1, <2>2
<1> DEFINE P == {n \in 0 .. m : g[n] \in Seq(Mark)}
<1>9. 0 .. m \subseteq P
  <2>1. 0 \in P
    <3>1. <<>> \in Seq(Mark) /\ 0 \in 0 .. m /\ g[0] = <<>>
      BY <1>1, <1>8
    <3>2. QED
      BY <3>1
  <2>2. ASSUME NEW n \in P, n \in 0 .. m - 1 PROVE n + 1 \in P
    <3>1. n + 1 \in 1 .. m /\ n + 1 \in 0 .. m /\ (n + 1) - 1 = n /\ marks[n + 1] \in Mark
      BY <1>1, <2>2
    <3>2. g[n + 1] = Keep(g[n], marks, n + 1)
      BY <1>8, <3>1
    <3>3. QED
      BY <3>1, <3>2, KeepType
  <2> HIDE DEF P
  <2>3. QED
    BY <1>1, <2>1, <2>2, Induct
<1>10. QED
  BY <1>1, <1>8, <1>9 DEF g

LEMMA BuildType ==
  ASSUME NEW marks \in Seq(Mark)
  PROVE  Build(marks) \in Seq(Token)
<1>1. Len(marks) \in 0 .. Len(marks)
  OBVIOUS
<1>2. Pushed(marks)[Len(marks)] \in Builders
  BY <1>1, PushedAre
<1>3. QED
  BY <1>2 DEF Build, Builders

\* What a client has placed does not depend on the tokens that follow.
LEMMA PlacedAppend ==
  ASSUME NEW tokens \in Seq(Token), NEW t \in Token
  PROVE  Placed(Append(tokens, t))[Len(tokens) + 1] = Place(Placed(tokens)[Len(tokens)], t)
<1>1. PICK m \in Nat : m = Len(tokens)
  OBVIOUS
<1>2. PICK more \in Seq(Token) : more = Append(tokens, t)
  <2>1. Append(tokens, t) \in Seq(Token)
    OBVIOUS
  <2>2. QED
    BY <2>1, Zenon
<1>3. /\ Len(more) = m + 1 /\ more[m + 1] = t
      /\ \A n \in 1 .. m : more[n] = tokens[n]
  BY <1>1, <1>2
<1> DEFINE f == Placed(tokens)
           g == Placed(more)
           P == {n \in 0 .. m : g[n] = f[n]}
<1>4. /\ f[0] = Start
      /\ \A n \in 1 .. m : f[n] = Place(f[n - 1], tokens[n])
  BY <1>1, PlacedAre
<1>5. /\ g[0] = Start
      /\ \A n \in 1 .. m + 1 : g[n] = Place(g[n - 1], more[n])
  BY <1>3, PlacedAre
<1> HIDE DEF f, g
<1>6. 0 .. m \subseteq P
  <2>1. 0 \in P
    BY <1>1, <1>4, <1>5
  <2>2. ASSUME NEW n \in P, n \in 0 .. m - 1 PROVE n + 1 \in P
    <3>1. n + 1 \in 1 .. m /\ n + 1 \in 1 .. m + 1 /\ n + 1 \in 0 .. m /\ (n + 1) - 1 = n
      BY <1>1, <2>2
    <3>2. g[n + 1] = Place(g[n], more[n + 1]) /\ f[n + 1] = Place(f[n], tokens[n + 1])
      BY <1>4, <1>5, <3>1
    <3>3. g[n] = f[n] /\ more[n + 1] = tokens[n + 1]
      BY <1>3, <2>2, <3>1
    <3>4. QED
      BY <3>1, <3>2, <3>3
  <2> HIDE DEF P
  <2>3. QED
    BY <1>1, <2>1, <2>2, Induct
<1>7. m \in P /\ m + 1 \in 1 .. m + 1 /\ (m + 1) - 1 = m
  BY <1>1, <1>6
<1>8. g[m + 1] = Place(f[m], t)
  BY <1>3, <1>5, <1>7
<1>9. QED
  BY <1>1, <1>2, <1>8 DEF f, g

\* What the client has placed of all the tokens.
Shown(tokens) == Placed(tokens)[Len(tokens)]

LEMMA ShownAppend ==
  ASSUME NEW tokens \in Seq(Token), NEW t \in Token
  PROVE  Shown(Append(tokens, t)) = Place(Shown(tokens), t)
<1>1. Len(Append(tokens, t)) = Len(tokens) + 1
  OBVIOUS
<1>2. QED
  BY <1>1, PlacedAppend DEF Shown

\* A client that is at the builder's place puts the next mark where it is.
LEMMA PlaceOfPush ==
  ASSUME NEW b \in Builders, NEW m \in Mark, ~(b.data # <<>> /\ IsBefore(m, b)),
         NEW kept, Shown(b.data) = [line |-> b.line, char |-> b.char, data |-> kept]
  PROVE  /\ Push(b, m).line = m.line /\ Push(b, m).char = m.char
         /\ Push(b, m).data # <<>>
         /\ Shown(Push(b, m).data)
              = [line |-> m.line, char |-> m.char, data |-> Append(kept, m)]
<1> DEFINE t == [line |-> m.line - b.line,
                 char |-> IF m.line = b.line THEN m.char - b.char ELSE m.char,
                 what |-> m.what]
<1>1. /\ b.line \in Nat /\ b.char \in Nat /\ b.data \in Seq(Token)
      /\ m.line \in Nat /\ m.char \in Nat /\ m.what \in What
      /\ m = [line |-> m.line, char |-> m.char, what |-> m.what]
      /\ b.data = <<>> => b.line = 0 /\ b.char = 0
  BY DEF Builders, Start, Mark
<1>2. m.line >= b.line /\ (m.line = b.line => m.char >= b.char)
  BY <1>1 DEF IsBefore
<1>3. t \in Token
  <2>1. m.line - b.line \in Nat /\ (m.line = b.line => m.char - b.char \in Nat)
    BY <1>1, <1>2
  <2>2. QED
    BY <1>1, <2>1 DEF Token
<1>4. Push(b, m) = [line |-> m.line, char |-> m.char, data |-> Append(b.data, t)]
  BY DEF Push
<1>5. /\ b.line + t.line = m.line /\ t.what = m.what
      /\ (IF t.line = 0 THEN b.char + t.char ELSE t.char) = m.char
  <2>1. t.line = 0 <=> m.line = b.line
    BY <1>1
  <2>2. QED
    BY <1>1, <2>1
<1> HIDE DEF t
<1>6. Append(b.data, t) # <<>>
  BY <1>1, <1>3
<1>7. Place(Shown(b.data), t) = [line |-> m.line, char |-> m.char, data |-> Append(kept, m)]
  <2>1. /\ Shown(b.data).line = b.line /\ Shown(b.data).char = b.char
        /\ Shown(b.data).data = kept
    OBVIOUS
  <2>2. PICK l, c : l = b.line + t.line
                    /\ c = IF t.line = 0 THEN b.char + t.char ELSE t.char
    OBVIOUS
  <2>3. Place(Shown(b.data), t)
          = [line |-> l, char |-> c,
             data |-> Append(kept, [line |-> l, char |-> c, what |-> t.what])]
    BY ONLY <2>1, <2>2 DEF Place
  <2>4. l = m.line /\ c = m.char
    BY <1>5, <2>2
  <2>5. [line |-> l, char |-> c, what |-> t.what] = m
    BY ONLY <1>1, <1>5, <2>4
  <2>6. QED
    BY ONLY <2>3, <2>4, <2>5
<1>8. Shown(Append(b.data, t)) = Place(Shown(b.data), t)
  BY <1>1, <1>3, ShownAppend
<1>9. QED
  BY <1>4, <1>6, <1>7, <1>8

\* A mark is before an earlier one exactly if it is before the last that was pushed,
\* which none of the earlier ones is after.
Follows(b, kept, marks, n) ==
  /\ Shown(b.data) = [line |-> b.line, char |-> b.char, data |-> kept]
  /\ n # 0 => b.data # <<>>
  /\ \A k \in 1 .. n : ~IsBefore(b, marks[k])
  /\ b.data # <<>> => \E k \in 1 .. n : marks[k].line = b.line /\ marks[k].char = b.char

LEMMA PushFollows ==
  ASSUME NEW marks \in Seq(Mark), NEW n \in 0 .. Len(marks) - 1,
         NEW b \in Builders, NEW kept, Follows(b, kept, marks, n)
  PROVE  Follows(Push(b, marks[n + 1]), Keep(kept, marks, n + 1), marks, n + 1)
<1> DEFINE m == marks[n + 1]
           c == Push(b, m)
           more == Keep(kept, marks, n + 1)
<1>1. /\ n \in Nat /\ n + 1 \in 1 .. Len(marks) /\ m \in Mark
      /\ n + 1 # 0 /\ (n + 1) - 1 = n
      /\ 1 .. n + 1 = (1 .. n) \cup {n + 1}
      /\ \A k \in 1 .. n : marks[k] \in Mark
  OBVIOUS
<1>2. /\ m.line \in Nat /\ m.char \in Nat /\ b.line \in Nat /\ b.char \in Nat
      /\ \A k \in 1 .. n : marks[k].line \in Nat /\ marks[k].char \in Nat
  BY <1>1 DEF Mark, Builders
<1>3. b.data # <<>> /\ IsBefore(m, b) <=> \E k \in 1 .. n : IsBefore(m, marks[k])
  <2>1. ASSUME b.data # <<>>, IsBefore(m, b) PROVE \E k \in 1 .. n : IsBefore(m, marks[k])
    <3>1. PICK k \in 1 .. n : marks[k].line = b.line /\ marks[k].char = b.char
      BY <2>1 DEF Follows
    <3>2. IsBefore(m, marks[k])
      BY <2>1, <3>1 DEF IsBefore
    <3>3. QED
      BY <3>2
  <2>2. ASSUME NEW k \in 1 .. n, IsBefore(m, marks[k]) PROVE b.data # <<>> /\ IsBefore(m, b)
    <3>1. ~IsBefore(b, marks[k]) /\ n # 0
      BY <1>1 DEF Follows
    <3>2. IsBefore(m, b)
      <4> HIDE DEF m
      <4>1. PICK p : p = marks[k]
        OBVIOUS
      <4>2. p.line \in Nat /\ p.char \in Nat /\ IsBefore(m, p) /\ ~IsBefore(b, p)
        BY <1>2, <2>2, <3>1, <4>1
      <4>3. QED
        BY ONLY <1>2, <4>2 DEF IsBefore
    <3>3. QED
      BY <3>1, <3>2 DEF Follows
  <2>3. QED
    BY <2>1, <2>2
<1>4. more = IF \E k \in 1 .. n : IsBefore(m, marks[k]) THEN kept ELSE Append(kept, m)
  BY <1>1 DEF Keep
<1>5. CASE b.data # <<>> /\ IsBefore(m, b)
  <2>1. c = b /\ more = kept
    BY <1>3, <1>4, <1>5 DEF Push
  <2>2. ~IsBefore(b, m)
    BY <1>2, <1>5 DEF IsBefore
  <2> HIDE DEF c, more
  <2>3. /\ \A k \in 1 .. n + 1 : ~IsBefore(b, marks[k])
        /\ \E k \in 1 .. n + 1 : marks[k].line = b.line /\ marks[k].char = b.char
    BY <1>1, <1>5, <2>2 DEF Follows
  <2>4. Follows(b, kept, marks, n + 1)
    BY <1>5, <2>3 DEF Follows
  <2>5. QED
    BY <2>1, <2>4 DEF c, more
<1>6. CASE ~(b.data # <<>> /\ IsBefore(m, b))
  <2>1. more = Append(kept, m)
    BY <1>3, <1>4, <1>6
  <2>2. Shown(b.data) = [line |-> b.line, char |-> b.char, data |-> kept]
    BY DEF Follows
  <2> HIDE DEF m
  <2>3. /\ c.line = m.line /\ c.char = m.char /\ c.data # <<>>
        /\ Shown(c.data) = [line |-> m.line, char |-> m.char, data |-> Append(kept, m)]
    BY <1>1, <1>6, <2>2, PlaceOfPush
  <2> HIDE DEF c, more
  <2>4. \A k \in 1 .. n : ~IsBefore(m, marks[k])
    BY <1>3, <1>6
  <2>5. ~IsBefore(c, m) /\ \A k \in 1 .. n : ~IsBefore(c, marks[k])
    BY <1>2, <2>3, <2>4 DEF IsBefore
  <2>6. \A k \in 1 .. n + 1 : ~IsBefore(c, marks[k])
    BY <1>1, <2>5 DEF m
  <2>7. \E k \in 1 .. n + 1 : marks[k].line = c.line /\ marks[k].char = c.char
    BY <1>1, <2>3 DEF m
  <2>8. Follows(c, more, marks, n + 1)
    BY <2>1, <2>3, <2>6, <2>7 DEF Follows
  <2>9. QED
    BY <2>8 DEF c, more, m
<1>7. QED
  BY <1>5, <1>6

\* A client that decodes the tokens of any marks has the marks, in their order, but
\* those that came after a later one.
THEOREM DecodeBuild ==
  ASSUME NEW marks \in Seq(Mark)
  PROVE  Decode(Build(marks)) = InOrder(marks)
<1>1. PICK m \in Nat : m = Len(marks)
  OBVIOUS
<1> DEFINE b    == Pushed(marks)
           kept == KeptOf(marks)
           P    == {n \in 0 .. m : Follows(b[n], kept[n], marks, n)}
<1>2. /\ \A n \in 0 .. m : b[n] \in Builders
      /\ b[0] = Start /\ \A n \in 1 .. m : b[n] = Push(b[n - 1], marks[n])
  BY <1>1, PushedAre
<1>3. kept[0] = <<>> /\ \A n \in 1 .. m : kept[n] = Keep(kept[n - 1], marks, n)
  BY <1>1, KeptAre
<1> HIDE DEF b, kept
<1>4. 0 .. m \subseteq P
  <2>1. 0 \in P
    <3>1. Start.line = 0 /\ Start.char = 0 /\ Start.data = <<>>
      BY DEF Start
    <3>2. Shown(<<>>) = Start
      <4>1. <<>> \in Seq(Token) /\ Len(<<>>) = 0
        OBVIOUS
      <4>2. Placed(<<>>)[0] = Start
        BY <4>1, PlacedAre
      <4>3. QED
        BY <4>1, <4>2 DEF Shown
    <3>3. Start = [line |-> 0, char |-> 0, data |-> <<>>]
      BY DEF Start
    <3>4. Follows(Start, <<>>, marks, 0)
      BY <3>1, <3>2, <3>3 DEF Follows
    <3>5. QED
      BY <1>1, <1>2, <1>3, <3>4
  <2>2. ASSUME NEW n \in P, n \in 0 .. m - 1 PROVE n + 1 \in P
    <3>1. n + 1 \in 1 .. m /\ n + 1 \in 0 .. m /\ (n + 1) - 1 = n /\ n \in 0 .. m
      BY <1>1, <2>2
    <3>2. b[n] \in Builders /\ Follows(b[n], kept[n], marks, n)
      BY <1>2, <2>2, <3>1
    <3>3. Follows(Push(b[n], marks[n + 1]), Keep(kept[n], marks, n + 1), marks, n + 1)
      BY <1>1, <2>2, <3>2, PushFollows
    <3>4. b[n + 1] = Push(b[n], marks[n + 1]) /\ kept[n + 1] = Keep(kept[n], marks, n + 1)
      BY <1>2, <1>3, <3>1
    <3>5. QED
      BY <3>1, <3>3, <3>4
  <2> HIDE DEF P
  <2>3. QED
    BY <1>1, <2>1, <2>2, Induct
<1>5. Follows(b[m], kept[m], marks, m)
  BY <1>1, <1>4
<1>6. Shown(b[m].data).data = kept[m]
  BY <1>5 DEF Follows
<1>7. QED
  BY <1>1, <1>6 DEF Decode, Build, InOrder, Shown, b, kept

LEMMA ColourType ==
  ASSUME NEW v \in Snapshot
  PROVE  Colour(v) \in Seq(Token)
BY MarksAssumption, BuildType DEF Colour, TokensOf, Snapshot

\* What is in sight stays as it is.
LEMMA Unmoved ==
  ASSUME TokensInv, TypeOK', UNCHANGED workVars, outbox' = outbox, Current' = Current,
         cache' \in {cache, None}, held' \in {held, None}
  PROVE  TokensInv'
<1>1. issued' = issued /\ jobs' = jobs /\ tasks' = tasks
  BY DEF workVars
<1>2. KnownOrNone(cache)' /\ KnownOrNone(held)'
  BY <1>1 DEF TokensInv, KnownOrNone, Known
<1>3. \A j \in jobs : GoodJob(j)'
  BY <1>1 DEF TokensInv, GoodJob, KnownOrNone, Known, Colour
<1>4. \A i \in DOMAIN tasks : GoodTask(tasks[i])'
  BY <1>1 DEF TokensInv, GoodTask, GoodResponse, KnownOrNone, Known, Colour
<1>5. \A i \in DOMAIN outbox : GoodAnswer(outbox[i])'
  BY <1>1 DEF TokensInv, GoodAnswer, Known, Colour
<1>6. InOrderOfText'
  BY <1>1 DEF TokensInv, InOrderOfText, AnswersKeepOrder
<1>7. QED
  BY <1>1, <1>2, <1>3, <1>4, <1>5, <1>6 DEF TokensInv

LEMMA NotificationsKeepInv ==
  ASSUME TokensInv,
         \/ \E req \in waiting : Cancel(req)
         \/ \E text \in Texts : DidOpen(text) \/ DidChange(text) \/ DiskChange(text)
         \/ DidClose
         \/ \E setting \in Settings : UpdateConfiguration(setting)
  PROVE  TokensInv'
<1>1. CASE \E req \in waiting : Cancel(req)
  <2>1. TypeOK'
    BY <1>1 DEF TokensInv, TypeOK, Cancel, clientVars, workVars
  <2>2. QED
    BY <1>1, <2>1, Unmoved DEF Cancel, clientVars, workVars, Current
<1>2. ASSUME NEW text \in Texts, DidOpen(text) \/ DidChange(text) \/ DiskChange(text)
      PROVE  TokensInv'
  <2>1. snap' \in Snapshot /\ phase' \in {"idle", "write"} /\ Current' = Current
    <3>1. phase = "idle" /\ (Write(text) \/ UNCHANGED <<snap, phase>>)
      BY <1>2 DEF DidOpen, DidChange, DiskChange, Move
    <3>2. CASE Write(text)
      <4>1. /\ snap \in Snapshot /\ phase' = "write"
            /\ snap' = [snap EXCEPT !.text = text, !.version = snap.version + 1]
        BY <3>2 DEF TokensInv, TypeOK, Write
      <4>2. snap.setting \in Settings /\ snap.version \in Nat
        BY <4>1 DEF Snapshot
      <4>3. snap' = [text |-> text, setting |-> snap.setting, version |-> snap.version + 1]
        BY <4>1 DEF Snapshot
      <4>4. snap' \in Snapshot /\ snap'.version = snap.version + 1
        BY <4>2, <4>3 DEF Snapshot
      <4>5. QED
        BY <3>1, <4>1, <4>2, <4>4 DEF Current
    <3>3. CASE UNCHANGED <<snap, phase>>
      BY <3>3 DEF TokensInv, TypeOK, Current
    <3>4. QED
      BY <3>1, <3>2, <3>3
  <2>2. TypeOK'
    <3>1. /\ moves' \in Nat /\ open' \in BOOLEAN /\ cache' \in {cache, None}
          /\ UNCHANGED <<held, asked, waiting, outbox, issued, jobs, tasks>>
      <4>1. CASE DidOpen(text)
        BY <4>1 DEF TokensInv, TypeOK, DidOpen, Move, workVars
      <4>2. CASE DidChange(text)
        BY <4>2 DEF TokensInv, TypeOK, DidChange, Move, workVars
      <4>3. CASE DiskChange(text)
        BY <4>3 DEF TokensInv, TypeOK, DiskChange, Move, workVars
      <4>4. QED
        BY <1>2, <4>1, <4>2, <4>3
    <3>2. QED
      BY <2>1, <3>1 DEF TokensInv, TypeOK, Maybe
  <2>3. QED
    BY <1>2, <2>1, <2>2, Unmoved DEF DidOpen, DidChange, DiskChange
<1>3. CASE DidClose
  <2>1. TypeOK'
    <3>1. /\ moves' \in Nat /\ open' = FALSE /\ cache' = None /\ held' = None
          /\ UNCHANGED <<asked, phase, snap, waiting, outbox, issued, jobs, tasks>>
      BY <1>3 DEF TokensInv, TypeOK, DidClose, Move, workVars
    <3>2. QED
      BY <3>1 DEF TokensInv, TypeOK, Maybe
  <2>2. QED
    BY <1>3, <2>1, Unmoved DEF DidClose, Current
<1>4. ASSUME NEW setting \in Settings, UpdateConfiguration(setting) PROVE TokensInv'
  <2>1. snap' \in Snapshot /\ Current' = Current
    <3>1. /\ snap \in Snapshot /\ phase' = phase
          /\ snap' = [snap EXCEPT !.setting = setting]
      BY <1>4 DEF TokensInv, TypeOK, UpdateConfiguration
    <3>2. snap' \in Snapshot /\ snap'.version = snap.version
      BY <3>1 DEF Snapshot
    <3>3. QED
      BY <3>1, <3>2 DEF Current
  <2>2. TypeOK'
    <3>1. /\ moves' \in Nat /\ cache' = None
          /\ UNCHANGED <<open, held, asked, phase, waiting, outbox, issued, jobs, tasks>>
      BY <1>4 DEF TokensInv, TypeOK, UpdateConfiguration, Move, workVars
    <3>2. QED
      BY <2>1, <3>1 DEF TokensInv, TypeOK, Maybe
  <2>3. QED
    BY <1>4, <2>1, <2>2, Unmoved DEF UpdateConfiguration
<1>5. QED
  BY <1>1, <1>2, <1>3, <1>4

LEMMA FinishWriteKeepsInv ==
  ASSUME TokensInv, FinishWrite
  PROVE  TokensInv'
<1>1. /\ phase = "write" /\ phase' = "idle" /\ jobs = {} /\ jobs' = jobs
      /\ UNCHANGED <<open, held, asked, moves, snap, cache, waiting, outbox, issued, tasks>>
  BY DEF FinishWrite, clientVars, workVars
<1>2. TypeOK'
  BY <1>1 DEF TokensInv, TypeOK
<1>3. snap.version \in Nat /\ Current = snap.version - 1 /\ Current' = snap.version
  BY <1>1 DEF TokensInv, TypeOK, Snapshot, Current
<1>4. KnownOrNone(cache)' /\ KnownOrNone(held)'
  BY <1>1 DEF TokensInv, KnownOrNone, Known
<1>5. \A i \in DOMAIN tasks : GoodTask(tasks[i])'
  <2>1. SUFFICES ASSUME NEW i \in DOMAIN tasks PROVE GoodTask(tasks[i])'
    OBVIOUS
  <2>2. GoodTask(tasks[i]) /\ tasks[i] \in Task
    BY DEF TokensInv, TypeOK
  <2>3. KnownOrNone(tasks[i].base)'
    BY <1>1, <2>2 DEF GoodTask, KnownOrNone, Known
  <2>4. ASSUME ~tasks[i].retry PROVE GoodResponse(tasks[i])'
    <3>1. tasks[i].snap.version \in Nat
      BY <2>2, <2>4 DEF Task, Snapshot
    <3>2. GoodResponse(tasks[i])
      BY <2>2, <2>4 DEF GoodTask
    <3>3. tasks[i].snap.version <= Current'
      BY <1>3, <3>1, <3>2 DEF GoodResponse
    <3>4. /\ Known(tasks[i].result) /\ tasks[i].result.data = Colour(tasks[i].snap)
          /\ tasks[i].reply.id = tasks[i].result.id
          /\ Restored(tasks[i].reply, tasks[i].base) = Colour(tasks[i].snap)
      BY <3>2 DEF GoodResponse
    <3>5. QED
      BY <1>1, <3>3, <3>4 DEF GoodResponse, Known
  <2>5. QED
    BY <1>1, <2>3, <2>4 DEF GoodTask
<1>6. \A i \in DOMAIN outbox : GoodAnswer(outbox[i])'
  <2>1. SUFFICES ASSUME NEW i \in DOMAIN outbox PROVE GoodAnswer(outbox[i])'
    OBVIOUS
  <2>2. GoodAnswer(outbox[i]) /\ outbox[i] \in Answer
    BY DEF TokensInv, TypeOK
  <2>3. outbox[i].snap.version \in Nat
    BY <2>2 DEF Answer, Snapshot
  <2>4. QED
    BY <1>1, <1>3, <2>2, <2>3 DEF GoodAnswer, Known, Colour
<1>7. InOrderOfText'
  BY <1>1 DEF TokensInv, InOrderOfText, AnswersKeepOrder
<1>8. QED
  BY <1>1, <1>2, <1>4, <1>5, <1>6, <1>7 DEF TokensInv

\* A snapshot is taken while the loop is idle, of what it has then.
LEMMA DispatchIsGood ==
  ASSUME TokensInv, phase = "idle", NEW req \in Nat, NEW base \in Maybe(Result),
         KnownOrNone(base), Dispatch(req, base), UNCHANGED <<phase, snap, issued>>
  PROVE  jobs' \subseteq Job /\ \A j \in jobs' : GoodJob(j)'
<1> DEFINE new == [req |-> req, base |-> base, snap |-> snap, result |-> None]
<1>1. jobs' = jobs \cup {new} /\ new \in Job
  BY DEF TokensInv, TypeOK, Dispatch, Job, Maybe
<1>2. Current' = Current /\ Current = snap.version
  BY DEF Current
<1>3. GoodJob(new)'
  <2>1. new.base = base /\ new.result = None /\ new.snap = snap
    OBVIOUS
  <2> HIDE DEF new
  <2>2. new' = new
    BY DEF new
  <2>3. KnownOrNone(new.base)' /\ new.snap.version = Current' /\ new.result = None
    BY <1>2, <2>1, <2>2 DEF KnownOrNone, Known
  <2>4. QED
    BY <2>2, <2>3 DEF GoodJob
<1>4. \A j \in jobs : GoodJob(j)'
  BY <1>2 DEF TokensInv, GoodJob, KnownOrNone, Known, Colour
<1>5. QED
  BY <1>1, <1>3, <1>4 DEF TokensInv, TypeOK

LEMMA AskKeepsInv ==
  ASSUME TokensInv, Ask
  PROVE  TokensInv'
<1>1. PICK base \in {None, held} : Dispatch(asked', base)
  BY DEF Ask
<1>2. /\ phase = "idle" /\ asked' = asked + 1 /\ waiting' = waiting \cup {asked'}
      /\ UNCHANGED <<open, held, moves, phase, snap, cache, outbox, issued, tasks>>
  BY DEF Ask
<1>3. base \in Maybe(Result) /\ KnownOrNone(base) /\ asked' \in Nat
  BY <1>2 DEF TokensInv, TypeOK, Maybe, KnownOrNone
<1>4. jobs' \subseteq Job /\ \A j \in jobs' : GoodJob(j)'
  BY <1>1, <1>2, <1>3, DispatchIsGood
<1>5. TypeOK'
  BY <1>2, <1>3, <1>4 DEF TokensInv, TypeOK
<1>6. Current' = Current
  BY <1>2 DEF Current
<1>7. KnownOrNone(cache)' /\ KnownOrNone(held)'
  BY <1>2 DEF TokensInv, KnownOrNone, Known
<1>8. \A i \in DOMAIN tasks : GoodTask(tasks[i])'
  BY <1>2, <1>6 DEF TokensInv, GoodTask, GoodResponse, KnownOrNone, Known, Colour
<1>9. \A i \in DOMAIN outbox : GoodAnswer(outbox[i])'
  BY <1>2, <1>6 DEF TokensInv, GoodAnswer, Known, Colour
<1>10. InOrderOfText'
  BY <1>2 DEF TokensInv, InOrderOfText, AnswersKeepOrder
<1>11. QED
  BY <1>2, <1>4, <1>5, <1>7, <1>8, <1>9, <1>10 DEF TokensInv

\* The next id is new, and no result loses its own.
LEMMA ComputeKeepsInv ==
  ASSUME TokensInv, NEW j \in jobs, Compute(j)
  PROVE  TokensInv'
<1> DEFINE r   == [id |-> Len(issued) + 1, data |-> Colour(j.snap)]
           new == [req |-> j.req, base |-> j.base, snap |-> j.snap, result |-> r]
<1>a. j \in Job
  BY DEF TokensInv, TypeOK
<1>0. j \in Job /\ [j EXCEPT !.result = r] = new
  BY <1>a, Z3 DEF Job
<1>1. /\ issued' = Append(issued, Colour(j.snap)) /\ jobs' = (jobs \ {j}) \cup {new}
      /\ UNCHANGED <<open, held, asked, moves, phase, snap, cache, waiting, outbox, tasks>>
  BY <1>0 DEF Compute, NextId, clientVars, loopVars
<1>2. j \in Job /\ Colour(j.snap) \in Seq(Token) /\ issued \in Seq(Seq(Token))
  BY ColourType DEF TokensInv, TypeOK, Job
<1>3. /\ issued' \in Seq(Seq(Token)) /\ Len(issued') = Len(issued) + 1
      /\ \A i \in 1 .. Len(issued) : issued'[i] = issued[i]
      /\ issued'[Len(issued) + 1] = Colour(j.snap)
  BY <1>1, <1>2
<1>4. ASSUME NEW x, Known(x) PROVE Known(x)'
  BY <1>2, <1>3, <1>4 DEF Known
<1>5. r \in Result
  BY <1>2 DEF Result
<1>6. /\ new.req = j.req /\ new.base = j.base /\ new.snap = j.snap /\ new.result = r
      /\ new \in Job
  BY <1>0, <1>5 DEF Job, Maybe
<1>7. r.id \in 1 .. Len(issued') /\ issued'[r.id] = r.data /\ r.data = Colour(j.snap)
  BY <1>2, <1>3
<1>8. Current' = Current
  BY <1>1 DEF Current
<1>9. \A k \in jobs' : GoodJob(k)'
  <2>1. ASSUME NEW k \in jobs PROVE GoodJob(k)'
    BY <1>4, <1>8 DEF TokensInv, GoodJob, KnownOrNone, Colour
  <2>2. GoodJob(j)
    BY DEF TokensInv
  <2>3. KnownOrNone(j.base)'
    BY <1>4, <2>2 DEF GoodJob, KnownOrNone
  <2>4. \A k \in jobs' : k \notin jobs => k = new
    BY <1>1
  <2>5. ASSUME NEW k \in jobs', k = new PROVE GoodJob(k)'
    <3>1. /\ k.base = j.base /\ k.snap = j.snap /\ k.result = r
      BY <1>6, <2>5
    <3> HIDE DEF new, r
    <3>2. KnownOrNone(k.base)'
      BY <2>3, <3>1
    <3>3. Known(k.result)' /\ k.result.data = Colour(k.snap)
      BY <1>7, <3>1 DEF Known, Colour
    <3>4. k.snap.version = Current'
      BY <1>8, <2>2, <3>1 DEF GoodJob
    <3>5. QED
      BY <3>2, <3>3, <3>4 DEF GoodJob, Colour
  <2>6. QED
    BY <1>1, <2>1, <2>4, <2>5
<1>10. TypeOK'
  BY <1>1, <1>3, <1>6 DEF TokensInv, TypeOK
<1>11. KnownOrNone(cache)' /\ KnownOrNone(held)'
  BY <1>1, <1>4 DEF TokensInv, KnownOrNone
<1>12. \A i \in DOMAIN tasks : GoodTask(tasks[i])'
  BY <1>1, <1>4, <1>8 DEF TokensInv, GoodTask, GoodResponse, KnownOrNone, Colour
<1>13. \A i \in DOMAIN outbox : GoodAnswer(outbox[i])'
  BY <1>1, <1>4, <1>8 DEF TokensInv, GoodAnswer, Colour
<1>14. InOrderOfText'
  BY <1>1 DEF TokensInv, InOrderOfText, AnswersKeepOrder
<1>15. QED
  BY <1>1, <1>9, <1>10, <1>11, <1>12, <1>13, <1>14 DEF TokensInv

\* The reply of a worker restores what it computed, whatever the cache holds.
LEMMA ReplyRestores ==
  ASSUME TokensInv, NEW j \in jobs, j.result # None
  PROVE  /\ ReplyTo(j) \in Reply /\ ReplyTo(j).id = j.result.id
         /\ Restored(ReplyTo(j), j.base) = j.result.data
<1>1. j \in Job /\ GoodJob(j) /\ cache \in Maybe(Result) /\ KnownOrNone(cache)
  BY DEF TokensInv, TypeOK
<1>2. j.result \in Result /\ j.result.id \in Nat /\ j.result.data \in Seq(Token)
  BY <1>1 DEF Job, Maybe, Result
<1>3. CASE j.base # None /\ cache # None /\ cache.id = j.base.id
  <2>1. cache \in Result /\ cache.data \in Seq(Token) /\ cache.data = j.base.data
    BY <1>1, <1>3 DEF GoodJob, KnownOrNone, Known, Maybe, Result
  <2> DEFINE edits == SemanticTokenEdits(cache.data, j.result.data)
  <2>2. edits \in Seq(Edit) /\ ApplyEdits(edits, cache.data) = j.result.data
    BY <1>2, <2>1, DeltaRestores, EditsType
  <2> HIDE DEF edits
  <2>3. ReplyTo(j) = [full |-> FALSE, id |-> j.result.id, edits |-> edits]
    BY <1>3 DEF ReplyTo, edits
  <2>4. ReplyTo(j) \in Reply /\ ReplyTo(j).id = j.result.id /\ ~ReplyTo(j).full
        /\ ReplyTo(j).edits = edits
    BY <1>2, <2>2, <2>3 DEF Reply
  <2>5. QED
    BY <2>1, <2>2, <2>4 DEF Restored
<1>4. CASE ~(j.base # None /\ cache # None /\ cache.id = j.base.id)
  <2>1. ReplyTo(j) = [full |-> TRUE, id |-> j.result.id, data |-> j.result.data]
    BY <1>4 DEF ReplyTo
  <2>2. QED
    BY <1>2, <2>1 DEF Reply, Restored
<1>5. QED
  BY <1>3, <1>4

\* Whether the queue grows at its end by a good task, or not at all, the rest of the
\* invariant stays.
LEMMA WorkerEnds ==
  ASSUME TokensInv, NEW j \in jobs, jobs' = jobs \ {j}, UNCHANGED <<clientVars, loopVars, issued>>,
         \/ tasks' = tasks
         \/ \E t \in Task : /\ tasks' = Append(tasks, t) /\ GoodTask(t)
                            /\ ~t.retry => t.snap.version = Current
  PROVE  TokensInv'
<1>1. UNCHANGED <<open, held, asked, moves, phase, snap, cache, waiting, outbox, issued>>
  BY DEF clientVars, loopVars
<1>2. Current' = Current
  BY <1>1 DEF Current
<1>3. KnownOrNone(cache)' /\ KnownOrNone(held)'
  BY <1>1 DEF TokensInv, KnownOrNone, Known
<1>4. \A k \in jobs' : GoodJob(k)'
  BY <1>1, <1>2 DEF TokensInv, GoodJob, KnownOrNone, Known, Colour
<1>5. \A i \in DOMAIN outbox : GoodAnswer(outbox[i])'
  BY <1>1, <1>2 DEF TokensInv, GoodAnswer, Known, Colour
<1>6. ASSUME NEW t, GoodTask(t) PROVE GoodTask(t)'
  BY <1>1, <1>2, <1>6 DEF GoodTask, GoodResponse, KnownOrNone, Known, Colour
<1>7. CASE tasks' = tasks
  <2>1. TypeOK'
    BY <1>1, <1>7 DEF TokensInv, TypeOK
  <2>2. InOrderOfText'
    BY <1>1, <1>7 DEF TokensInv, InOrderOfText, AnswersKeepOrder
  <2>3. QED
    BY <1>1, <1>3, <1>4, <1>5, <1>6, <1>7, <2>1, <2>2 DEF TokensInv
<1>8. CASE tasks' # tasks
  <2>1. PICK t \in Task : /\ tasks' = Append(tasks, t) /\ GoodTask(t)
                          /\ ~t.retry => t.snap.version = Current
    BY <1>8
  <2>2. tasks \in Seq(Task) /\ Len(tasks) \in Nat /\ DOMAIN tasks = 1 .. Len(tasks)
    BY DEF TokensInv, TypeOK
  <2>3. /\ tasks' \in Seq(Task)
        /\ \A i \in DOMAIN tasks' : i \in DOMAIN tasks \/ i = Len(tasks) + 1
        /\ \A i \in DOMAIN tasks : i <= Len(tasks) /\ tasks'[i] = tasks[i]
        /\ tasks'[Len(tasks) + 1] = t
    <3>1. t \in Task
      OBVIOUS
    <3>2. QED
      BY ONLY <2>1, <2>2, <3>1, AddLast
  <2>4. TypeOK'
    <3>1. TypeOK /\ jobs' \subseteq Job /\ tasks' \in Seq(Task)
      BY <2>3 DEF TokensInv, TypeOK
    <3>2. QED
      BY ONLY <3>1, <1>1 DEF TypeOK
  <2>5. (\A i \in DOMAIN tasks : GoodTask(tasks[i]))'
    <3>1. ASSUME NEW i \in DOMAIN tasks', NEW x, x = tasks'[i] PROVE GoodTask(x)
      <4>1. CASE i \in DOMAIN tasks
        BY <2>3, <3>1, <4>1 DEF TokensInv
      <4>2. CASE i = Len(tasks) + 1
        BY <2>1, <2>3, <3>1, <4>2
      <4>3. QED
        BY <2>3, <4>1, <4>2
    <3>2. \A i \in DOMAIN tasks' : GoodTask(tasks'[i])
      BY <3>1
    <3>3. QED
      BY ONLY <3>2, <1>1, <1>2
          DEF GoodTask, GoodResponse, KnownOrNone, Known, Colour
  <2>6. InOrderOfText'
    <3>1. ASSUME NEW i \in DOMAIN tasks, ~tasks[i].retry
          PROVE  tasks[i].snap.version <= Current
      <4>1. GoodTask(tasks[i])
        BY DEF TokensInv
      <4>2. QED
        BY <3>1, <4>1 DEF GoodTask, GoodResponse
    <3>2. ASSUME NEW i \in DOMAIN outbox PROVE outbox[i].snap.version <= Current
      <4>1. GoodAnswer(outbox[i])
        BY DEF TokensInv
      <4>2. QED
        BY <4>1 DEF GoodAnswer
    <3>3. ASSUME NEW i \in DOMAIN tasks', NEW k \in DOMAIN tasks',
                 i < k, ~tasks'[i].retry, ~tasks'[k].retry
          PROVE  tasks'[i].snap.version <= tasks'[k].snap.version
      <4>1. i \in DOMAIN tasks
        BY <2>2, <2>3, <3>3
      <4>2. CASE k \in DOMAIN tasks
        BY <2>3, <3>3, <4>1, <4>2 DEF TokensInv, InOrderOfText
      <4>3. CASE k = Len(tasks) + 1
        BY <2>1, <2>3, <3>1, <3>3, <4>1, <4>3
      <4>4. QED
        BY <2>3, <4>2, <4>3
    <3>4. ASSUME NEW i \in DOMAIN outbox, NEW k \in DOMAIN tasks', ~tasks'[k].retry
          PROVE  outbox[i].snap.version <= tasks'[k].snap.version
      <4>1. CASE k \in DOMAIN tasks
        BY <2>3, <3>4, <4>1 DEF TokensInv, InOrderOfText
      <4>2. CASE k = Len(tasks) + 1
        BY <2>1, <2>3, <3>2, <3>4, <4>2
      <4>3. QED
        BY <2>3, <4>1, <4>2
    <3>5. AnswersKeepOrder'
      BY <1>1 DEF TokensInv, InOrderOfText, AnswersKeepOrder
    <3>6. QED
      BY <1>1, <3>3, <3>4, <3>5 DEF InOrderOfText
  <2>7. QED
    BY ONLY <1>1, <1>3, <1>4, <1>5, <2>4, <2>5, <2>6 DEF TokensInv
<1>9. QED
  BY <1>7, <1>8

LEMMA ReturnKeepsInv ==
  ASSUME TokensInv, NEW j \in jobs, Return(j)
  PROVE  TokensInv'
<1> DEFINE t == [retry |-> FALSE, req |-> j.req, base |-> j.base, snap |-> j.snap,
                 result |-> j.result, reply |-> ReplyTo(j)]
<1>1. /\ j.result # None /\ jobs' = jobs \ {j} /\ tasks' = Append(tasks, t)
      /\ UNCHANGED <<clientVars, loopVars, issued>>
  BY DEF Return
<1>2. j \in Job /\ GoodJob(j)
  BY DEF TokensInv, TypeOK
<1>3. /\ ReplyTo(j) \in Reply /\ ReplyTo(j).id = j.result.id
      /\ Restored(ReplyTo(j), j.base) = j.result.data
  BY <1>1, ReplyRestores
<1>4. j.snap.version \in Nat /\ j.result \in Result
  BY <1>1, <1>2 DEF Job, Snapshot, Maybe
<1>5. /\ t.retry = FALSE /\ t.req = j.req /\ t.base = j.base /\ t.snap = j.snap
      /\ t.result = j.result /\ t.reply = ReplyTo(j)
  OBVIOUS
<1>6. t \in Task
  BY <1>2, <1>3, <1>4 DEF Task, Job
<1> HIDE DEF t
<1>7. GoodTask(t) /\ t.snap.version = Current
  <2>1. GoodResponse(t)
    BY <1>1, <1>2, <1>3, <1>4, <1>5 DEF GoodJob, GoodResponse
  <2>2. QED
    BY <1>2, <1>5, <2>1 DEF GoodJob, GoodTask
<1>8. QED
  BY <1>1, <1>6, <1>7, WorkerEnds

LEMMA InterruptKeepsInv ==
  ASSUME TokensInv, NEW j \in jobs, Interrupt(j)
  PROVE  TokensInv'
<1> DEFINE t == [retry |-> TRUE, req |-> j.req, base |-> j.base]
<1>1. /\ jobs' = jobs \ {j} /\ (tasks' = Append(tasks, t) \/ tasks' = tasks)
      /\ UNCHANGED <<clientVars, loopVars, issued>>
  BY DEF Interrupt
<1>2. j \in Job /\ GoodJob(j)
  BY DEF TokensInv, TypeOK
<1>3. t \in Task /\ t.retry /\ t.base = j.base
  BY <1>2 DEF Task, Job
<1> HIDE DEF t
<1>4. GoodTask(t)
  BY <1>2, <1>3 DEF GoodJob, GoodTask
<1>5. QED
  BY <1>1, <1>3, <1>4, WorkerEnds DEF Interrupt

\* What is good stays so when the queue of tasks loses its head and the answers and
\* the cache are told.
LEMMA TaskTaken ==
  ASSUME TokensInv, tasks # <<>>, tasks' = Tail(tasks),
         UNCHANGED <<clientVars, phase, snap, issued>>
  PROVE  /\ tasks' \in Seq(Task) /\ Head(tasks) \in Task /\ GoodTask(Head(tasks))
         /\ \A i \in DOMAIN tasks' : i + 1 \in DOMAIN tasks /\ tasks'[i] = tasks[i + 1]
         /\ (\A i \in DOMAIN tasks : GoodTask(tasks[i]))'
         /\ \A i, k \in DOMAIN tasks' :
              i < k /\ ~tasks'[i].retry /\ ~tasks'[k].retry
                => tasks'[i].snap.version <= tasks'[k].snap.version
         /\ \A k \in DOMAIN tasks' :
              ~Head(tasks).retry /\ ~tasks'[k].retry
                => Head(tasks).snap.version <= tasks'[k].snap.version
         /\ \A i \in DOMAIN outbox, k \in DOMAIN tasks' :
              ~tasks'[k].retry => outbox[i].snap.version <= tasks'[k].snap.version
         /\ Current' = Current
<1>1. tasks \in Seq(Task) /\ DOMAIN tasks = 1 .. Len(tasks) /\ Len(tasks) \in Nat
  BY DEF TokensInv, TypeOK
<1>2. /\ Head(tasks) \in Task /\ Head(tasks) = tasks[1] /\ 1 \in DOMAIN tasks
      /\ tasks' \in Seq(Task)
      /\ \A i \in DOMAIN tasks' : i + 1 \in DOMAIN tasks /\ tasks'[i] = tasks[i + 1]
  BY ONLY <1>1, tasks # <<>>, tasks' = Tail(tasks), TakeHead
<1>3. GoodTask(Head(tasks)) /\ \A i \in DOMAIN tasks' : GoodTask(tasks'[i])
  BY <1>2 DEF TokensInv
<1>4. Current' = Current
  BY DEF Current
<1>5. (\A i \in DOMAIN tasks : GoodTask(tasks[i]))'
  BY ONLY <1>3, <1>4, issued' = issued, UNCHANGED <<clientVars, phase, snap, issued>>
     DEF GoodTask, GoodResponse, KnownOrNone, Known, Colour
<1>6. DOMAIN tasks' \subseteq Nat \ {0}
  BY <1>2
<1>7. QED
  BY <1>1, <1>2, <1>3, <1>4, <1>5, <1>6 DEF TokensInv, InOrderOfText

LEMMA RetryKeepsInv ==
  ASSUME TokensInv, ProcessTask, Head(tasks).retry
  PROVE  TokensInv'
<1> DEFINE t == Head(tasks)
<1>1. /\ phase = "idle" /\ tasks # <<>> /\ tasks' = Tail(tasks)
      /\ UNCHANGED <<clientVars, phase, snap, issued>>
      /\ ProcessRetry(t)
  BY DEF ProcessTask
<1>2. /\ UNCHANGED <<open, held, asked, moves, phase, snap, issued, outbox, cache, waiting>>
      /\ Dispatch(t.req, t.base) \/ jobs' = jobs
  BY <1>1 DEF ProcessRetry, clientVars
<1>3. /\ tasks' \in Seq(Task) /\ t \in Task /\ GoodTask(t)
      /\ (\A i \in DOMAIN tasks : GoodTask(tasks[i]))'
      /\ Current' = Current
  BY <1>1, TaskTaken
<1>4. t.req \in Nat /\ t.base \in Maybe(Result) /\ KnownOrNone(t.base)
  BY <1>3 DEF Task, GoodTask
<1> HIDE DEF t
<1>5. jobs' \subseteq Job /\ \A j \in jobs' : GoodJob(j)'
  <2>1. CASE Dispatch(t.req, t.base)
    BY <1>1, <1>4, <2>1, DispatchIsGood
  <2>2. CASE jobs' = jobs
    BY <1>2, <1>3, <2>2 DEF TokensInv, TypeOK, GoodJob, KnownOrNone, Known, Colour
  <2>3. QED
    BY <1>2, <2>1, <2>2
<1>6. TypeOK'
  BY <1>2, <1>3, <1>5 DEF TokensInv, TypeOK
<1>7. KnownOrNone(cache)' /\ KnownOrNone(held)'
  BY <1>2 DEF TokensInv, KnownOrNone, Known
<1>8. \A i \in DOMAIN outbox : GoodAnswer(outbox[i])'
  BY <1>2, <1>3 DEF TokensInv, GoodAnswer, Known, Colour
<1>9. InOrderOfText'
  <2>1. AnswersKeepOrder'
    BY <1>2 DEF TokensInv, InOrderOfText, AnswersKeepOrder
  <2>2. /\ \A i, k \in DOMAIN tasks' :
              i < k /\ ~tasks'[i].retry /\ ~tasks'[k].retry
                => tasks'[i].snap.version <= tasks'[k].snap.version
        /\ \A i \in DOMAIN outbox, k \in DOMAIN tasks' :
              ~tasks'[k].retry => outbox[i].snap.version <= tasks'[k].snap.version
    BY <1>1, TaskTaken
  <2>3. QED
    BY <1>2, <2>1, <2>2 DEF InOrderOfText
<1>10. QED
  BY ONLY <1>2, <1>3, <1>5, <1>6, <1>7, <1>8, <1>9 DEF TokensInv

LEMMA ResponseKeepsInv ==
  ASSUME TokensInv, ProcessTask, ~Head(tasks).retry
  PROVE  TokensInv'
<1> DEFINE t == Head(tasks)
           a == [base |-> t.base, snap |-> t.snap, reply |-> t.reply]
<1>1. /\ phase = "idle" /\ tasks # <<>> /\ tasks' = Tail(tasks)
      /\ UNCHANGED <<clientVars, phase, snap, issued>>
      /\ ProcessResponse(t)
  BY DEF ProcessTask
<1>2. /\ UNCHANGED <<open, held, asked, moves, phase, snap, issued, jobs>>
      /\ waiting' = waiting \ {t.req}
      /\ \/ outbox' = Append(outbox, a) /\ cache' = t.result
         \/ outbox' = outbox /\ cache' = cache
  BY <1>1 DEF ProcessResponse, clientVars
<1>3. /\ tasks' \in Seq(Task) /\ t \in Task /\ GoodTask(t)
      /\ (\A i \in DOMAIN tasks : GoodTask(tasks[i]))'
      /\ Current' = Current
  BY <1>1, TaskTaken
<1>4. ~t.retry
  OBVIOUS
<1>5. /\ t.req \in Nat /\ t.base \in Maybe(Result) /\ t.snap \in Snapshot
      /\ t.result \in Result /\ t.reply \in Reply
  BY <1>3, <1>4 DEF Task
<1>6. GoodResponse(t)
  BY <1>3, <1>4 DEF GoodTask
<1>7. a \in Answer /\ a.base = t.base /\ a.snap = t.snap /\ a.reply = t.reply
  BY <1>5 DEF Answer
<1>8. /\ \A i, k \in DOMAIN tasks' :
            i < k /\ ~tasks'[i].retry /\ ~tasks'[k].retry
              => tasks'[i].snap.version <= tasks'[k].snap.version
      /\ \A k \in DOMAIN tasks' : ~tasks'[k].retry => t.snap.version <= tasks'[k].snap.version
      /\ \A i \in DOMAIN outbox, k \in DOMAIN tasks' :
            ~tasks'[k].retry => outbox[i].snap.version <= tasks'[k].snap.version
  BY <1>1, <1>4, TaskTaken
<1>9. \A i \in DOMAIN outbox : outbox[i].snap.version <= t.snap.version
  BY <1>1, <1>4, TakeHead DEF TokensInv, TypeOK, InOrderOfText
<1> HIDE DEF t, a
<1>10. GoodAnswer(a)
  <2>1. Known([id |-> a.reply.id, data |-> Colour(a.snap)])
    BY <1>6, <1>7 DEF GoodResponse, Known
  <2>2. QED
    BY <1>6, <1>7, <2>1 DEF GoodResponse, GoodAnswer
<1>11. cache' \in Maybe(Result) /\ KnownOrNone(cache)'
  <2>1. cache \in Maybe(Result) /\ KnownOrNone(cache) /\ t.result \in Maybe(Result)
        /\ Known(t.result)
    BY <1>5, <1>6 DEF TokensInv, TypeOK, GoodResponse, Maybe
  <2>2. cache' \in Maybe(Result) /\ (cache' # None => Known(cache'))
    BY <1>2, <2>1 DEF KnownOrNone
  <2>3. QED
    BY ONLY <1>2, <2>2 DEF KnownOrNone, Known
<1>12. KnownOrNone(held)' /\ \A j \in jobs' : GoodJob(j)'
  BY <1>2, <1>3 DEF TokensInv, GoodJob, KnownOrNone, Known, Colour
<1>13. outbox \in Seq(Answer) /\ DOMAIN outbox = 1 .. Len(outbox) /\ Len(outbox) \in Nat
  BY DEF TokensInv, TypeOK
<1>14. /\ outbox' \in Seq(Answer)
       /\ \A i \in DOMAIN outbox' :
            /\ GoodAnswer(outbox'[i])
            /\ \A k \in DOMAIN outbox' :
                 i < k => outbox'[i].snap.version <= outbox'[k].snap.version
            /\ \A k \in DOMAIN tasks' :
                 ~tasks'[k].retry => outbox'[i].snap.version <= tasks'[k].snap.version
  <2>1. \A i \in DOMAIN outbox : GoodAnswer(outbox[i])
    BY DEF TokensInv
  <2>2. \A i, k \in DOMAIN outbox : i < k => outbox[i].snap.version <= outbox[k].snap.version
    BY DEF TokensInv, InOrderOfText, AnswersKeepOrder
  <2>3. CASE outbox' = outbox
    BY <1>8, <1>13, <2>1, <2>2, <2>3
  <2>4. CASE outbox' = Append(outbox, a)
    <3>1. /\ outbox' \in Seq(Answer)
          /\ \A i \in DOMAIN outbox' : i \in DOMAIN outbox \/ i = Len(outbox) + 1
          /\ \A i \in DOMAIN outbox : i <= Len(outbox) /\ outbox'[i] = outbox[i]
          /\ outbox'[Len(outbox) + 1] = a
      BY ONLY <1>7, <1>13, <2>4, AddLast
    <3>2. \A i \in DOMAIN outbox' : GoodAnswer(outbox'[i])
      BY ONLY <1>10, <2>1, <3>1
    <3>3. ASSUME NEW i \in DOMAIN outbox', NEW k \in DOMAIN outbox', i < k
          PROVE  outbox'[i].snap.version <= outbox'[k].snap.version
      <4>1. i \in DOMAIN outbox
        BY <1>13, <3>1, <3>3
      <4>2. CASE k \in DOMAIN outbox
        BY <2>2, <3>1, <3>3, <4>1, <4>2
      <4>3. CASE k = Len(outbox) + 1
        BY <1>7, <1>9, <3>1, <4>1, <4>3
      <4>4. QED
        BY <3>1, <4>2, <4>3
    <3>4. ASSUME NEW i \in DOMAIN outbox', NEW k \in DOMAIN tasks', ~tasks'[k].retry
          PROVE  outbox'[i].snap.version <= tasks'[k].snap.version
      BY <1>7, <1>8, <3>1, <3>4
    <3>5. QED
      BY <3>1, <3>2, <3>3, <3>4
  <2>5. QED
    BY <1>2, <2>3, <2>4
<1>15. (\A i \in DOMAIN outbox : GoodAnswer(outbox[i]))'
  BY ONLY <1>2, <1>3, <1>14 DEF GoodAnswer, Known, Colour
<1>16. InOrderOfText'
  BY ONLY <1>8, <1>14 DEF InOrderOfText, AnswersKeepOrder
<1>17. TypeOK'
  BY <1>2, <1>3, <1>11, <1>14 DEF TokensInv, TypeOK
<1>18. QED
  BY ONLY <1>3, <1>11, <1>12, <1>15, <1>16, <1>17 DEF TokensInv

\* What the client shows is again a result it was given.
LEMMA ReceiveKeepsInv ==
  ASSUME TokensInv, Receive
  PROVE  TokensInv'
<1> DEFINE a == Head(outbox)
           r == [id |-> a.reply.id, data |-> Restored(a.reply, a.base)]
<1>1. /\ outbox # <<>> /\ outbox' = Tail(outbox) /\ held' \in {r, held}
      /\ UNCHANGED <<open, asked, moves, phase, snap, cache, waiting, issued, jobs, tasks>>
  BY DEF Receive, workVars
<1>2. outbox \in Seq(Answer) /\ DOMAIN outbox = 1 .. Len(outbox) /\ Len(outbox) \in Nat
  BY DEF TokensInv, TypeOK
<1>3. /\ a \in Answer /\ a = outbox[1] /\ 1 \in DOMAIN outbox /\ outbox' \in Seq(Answer)
      /\ \A i \in DOMAIN outbox' : i + 1 \in DOMAIN outbox /\ outbox'[i] = outbox[i + 1]
  BY ONLY <1>1, <1>2, TakeHead
<1>4. GoodAnswer(a)
  BY <1>3 DEF TokensInv
<1>5. a.reply \in Reply /\ a.snap \in Snapshot
  BY <1>3 DEF Answer
<1>6. a.reply.id \in Nat /\ Restored(a.reply, a.base) = Colour(a.snap)
      /\ Colour(a.snap) \in Seq(Token)
  BY <1>4, <1>5, ColourType DEF Reply, GoodAnswer
<1>7. r \in Result /\ Known(r)
  BY <1>4, <1>6 DEF GoodAnswer, Known, Result
<1> HIDE DEF a, r
<1>8. Current' = Current
  BY <1>1 DEF Current
<1>9. held' \in Maybe(Result) /\ KnownOrNone(held)'
  <2>1. held \in Maybe(Result) /\ KnownOrNone(held) /\ r \in Maybe(Result)
    BY <1>7 DEF TokensInv, TypeOK, Maybe
  <2>2. held' \in Maybe(Result) /\ (held' # None => Known(held'))
    BY <1>1, <1>7, <2>1 DEF KnownOrNone
  <2>3. QED
    BY ONLY <1>1, <2>2 DEF KnownOrNone, Known
<1>10. TypeOK'
  BY <1>1, <1>3, <1>9 DEF TokensInv, TypeOK
<1>11. KnownOrNone(cache)' /\ \A j \in jobs' : GoodJob(j)'
  BY <1>1, <1>8 DEF TokensInv, GoodJob, KnownOrNone, Known, Colour
<1>12. \A i \in DOMAIN tasks' : GoodTask(tasks[i])'
  BY <1>1, <1>8 DEF TokensInv, GoodTask, GoodResponse, KnownOrNone, Known, Colour
<1>13. (\A i \in DOMAIN outbox : GoodAnswer(outbox[i]))'
  <2>1. \A i \in DOMAIN outbox' : GoodAnswer(outbox'[i])
    BY <1>3 DEF TokensInv
  <2>2. QED
    BY ONLY <1>1, <1>8, <2>1 DEF GoodAnswer, Known, Colour
<1>14. InOrderOfText'
  BY <1>1, <1>2, <1>3 DEF TokensInv, InOrderOfText, AnswersKeepOrder
<1>15. QED
  BY <1>1, <1>9, <1>10, <1>11, <1>12, <1>13, <1>14 DEF TokensInv

------------------------------------------------------------------------------
(* The theorems.                                                           *)

LEMMA InitOK == Init => TokensInv
<1> SUFFICES ASSUME Init PROVE TokensInv
  OBVIOUS
<1>1. PICK text \in Texts, setting \in Settings :
        snap = [text |-> text, setting |-> setting, version |-> 0]
  BY DEF Init
<1>2. snap \in Snapshot /\ Current = 0
  BY <1>1 DEF Init, Snapshot, Current
<1>3. TypeOK
  BY <1>2 DEF Init, TypeOK, Maybe
<1>4. QED
  BY <1>3 DEF Init, TokensInv, KnownOrNone, InOrderOfText, AnswersKeepOrder

LEMMA StepOK == TokensInv /\ [Next]_vars => TokensInv'
<1> SUFFICES ASSUME TokensInv, [Next]_vars PROVE TokensInv'
  OBVIOUS
<1>1. CASE Worker
  BY <1>1, ComputeKeepsInv, ReturnKeepsInv, InterruptKeepsInv DEF Worker
<1>2. CASE Ask
  BY <1>2, AskKeepsInv
<1>3. CASE ProcessTask
  BY <1>3, RetryKeepsInv, ResponseKeepsInv
<1>4. CASE FinishWrite
  BY <1>4, FinishWriteKeepsInv
<1>5. CASE \/ \E req \in waiting : Cancel(req)
           \/ \E text \in Texts : DidOpen(text) \/ DidChange(text) \/ DiskChange(text)
           \/ DidClose
           \/ \E setting \in Settings : UpdateConfiguration(setting)
  BY <1>5, NotificationsKeepInv
<1>6. CASE Receive
  BY <1>6, ReceiveKeepsInv
<1>7. CASE UNCHANGED vars
  <2>1. /\ UNCHANGED <<open, held, asked, moves, phase, snap, cache, waiting, outbox>>
        /\ UNCHANGED workVars
    BY <1>7 DEF vars, clientVars, loopVars
  <2>2. TypeOK'
    BY <2>1 DEF TokensInv, TypeOK, workVars
  <2>3. QED
    BY <2>1, <2>2, Unmoved DEF Current
<1>8. QED
  BY <1>1, <1>2, <1>3, <1>4, <1>5, <1>6, <1>7 DEF Next, Loop

LEMMA TokensInvHolds == Spec => []TokensInv
  BY InitOK, StepOK, PTL DEF Spec

\* Every variable keeps the type its Rust counterpart has.
THEOREM TypeOKHolds == Spec => []TypeOK
<1>1. TokensInv => TypeOK
  BY DEF TokensInv
<1>2. QED
  BY <1>1, TokensInvHolds, PTL

\* Whatever any other answer, edit, close or cancellation does to the cache between
\* the worker's look into it and the arrival of the answer, the client that applies
\* the answer to the result it named has the tokens of the text the worker saw.
THEOREM AnswersRestoreHolds == Spec => []AnswersRestore
<1>1. TokensInv => AnswersRestore
  BY DEF TokensInv, AnswersRestore, GoodAnswer
<1>2. QED
  BY <1>1, TokensInvHolds, PTL

\* Answers never go back to an older text.
THEOREM AnswersKeepOrderHolds == Spec => []AnswersKeepOrder
<1>1. TokensInv => AnswersKeepOrder
  BY DEF TokensInv, InOrderOfText
<1>2. QED
  BY <1>1, TokensInvHolds, PTL

\* What the client shows of an answer, once it applied and decoded it, are the marks
\* the worker pushed, but those that came after a later one.
THEOREM ScreenShowsMarksHolds == Spec => []ScreenShowsMarks
<1>1. TokensInv => ScreenShowsMarks
  <2> SUFFICES ASSUME TokensInv, NEW i \in DOMAIN outbox
               PROVE  Decode(Restored(outbox[i].reply, outbox[i].base))
                        = InOrder(MarksOf[<<outbox[i].snap.text, outbox[i].snap.setting>>])
    BY DEF ScreenShowsMarks
  <2> DEFINE v == outbox[i].snap
  <2>1. outbox[i] \in Answer
    BY DEF TokensInv, TypeOK
  <2>2. v \in Snapshot /\ Restored(outbox[i].reply, outbox[i].base) = Colour(v)
    BY <2>1 DEF TokensInv, GoodAnswer, Answer
  <2> HIDE DEF v
  <2>3. <<v.text, v.setting>> \in Texts \X Settings
    BY <2>2 DEF Snapshot
  <2>4. Colour(v) = Build(MarksOf[<<v.text, v.setting>>])
        /\ MarksOf[<<v.text, v.setting>>] \in Seq(Mark)
    BY <2>3, MarksAssumption DEF Colour, TokensOf
  <2>5. Decode(Colour(v)) = InOrder(MarksOf[<<v.text, v.setting>>])
    BY <2>4, DecodeBuild
  <2>6. QED
    BY <2>2, <2>5 DEF v
<1>2. QED
  BY <1>1, TokensInvHolds, PTL
==============================================================================
