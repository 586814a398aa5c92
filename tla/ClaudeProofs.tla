------------------------------ MODULE ClaudeProofs ------------------------------
(***************************************************************************)
(* Proofs about Claude, for replies up to any length, any threads and any  *)
(* confidences.                                                            *)
(*                                                                         *)
(* Most of the module is about extractJsonObject: the loop that counts     *)
(* braces and a grammar that says what an object is agree on every text.   *)
(* The grammar is first turned from sets of texts into rules about where a *)
(* slice of one text begins and ends (StringRule, ContentRule).  The rules *)
(* and the loop are then compared, in both directions, by taking a         *)
(* shortest slice they would not agree on (Least).  The state machine      *)
(* around it needs an inductive invariant that ties a result to the reply  *)
(* it was read from (CInv).                                                *)
(***************************************************************************)
EXTENDS Claude, SequenceTheorems, WellFoundedInduction, TLAPS

(* A nonempty set of natural numbers has a least one. *)
LEMMA Least ==
    ASSUME NEW T, T \subseteq Nat, T # {}
    PROVE  \E x \in T : \A y \in T : x <= y
<1>1. PICK x \in T : \A y \in T : ~ (<<y, x>> \in OpToRel(<, Nat))
  <2> IsWellFoundedOn(OpToRel(<, Nat), Nat)
    BY NatLessThanWellFounded
  <2> QED
    BY WFMin
<1>2. ASSUME NEW y \in T PROVE ~ (y < x)
  BY <1>1, <1>2, Zenon DEF OpToRel
<1> QED
  BY <1>2

(* What the loop has after a character follows from what it had before it. *)
LEMMA Scanned ==
    ASSUME NEW t \in Seq(Chars)
    PROVE  scanned(t) = [i \in 0..Len(t) |-> IF i = 0 THEN scanStart ELSE scan(scanned(t)[i - 1], t[i])]
<1> DEFINE Traces(f, k) == f = [i \in 0..k |-> IF i = 0 THEN scanStart ELSE scan(f[i - 1], t[i])]
           Bad == {k \in 0..Len(t) : ~ \E f : Traces(f, k)}
<1>1. Bad = {}
  <2> SUFFICES ASSUME Bad # {} PROVE FALSE
    OBVIOUS
  <2>1. PICK k \in Bad : \A j \in Bad : k <= j
    <3> Bad \subseteq Nat
      OBVIOUS
    <3> HIDE DEF Bad
    <3> QED
      BY Least
  <2>2. CASE k = 0
    <3>1. Traces([i \in 0..0 |-> scanStart], 0)
      OBVIOUS
    <3> QED
      BY <2>2, <3>1
  <2>3. CASE k # 0
    <3>1. k - 1 \in 0..Len(t) /\ k - 1 \notin Bad
      BY <2>1, <2>3
    <3>2. PICK g : Traces(g, k - 1)
      BY <3>1
    <3> DEFINE f == [i \in 0..k |-> IF i = 0 THEN scanStart ELSE scan(g[i - 1], t[i])]
    <3>3. ASSUME NEW i \in 0..k, i # 0 PROVE f[i - 1] = g[i - 1]
      <4>1. i - 1 \in 0..(k - 1)
        BY <3>3, <2>1
      <4> QED
        BY <3>2, <4>1
    <3>4. Traces(f, k)
      BY <3>3
    <3> QED
      BY <3>4
  <2> QED
    BY <2>2, <2>3
<1>2. \E f : Traces(f, Len(t))
  BY <1>1
<1>3. Traces(CHOOSE f : Traces(f, Len(t)), Len(t))
  BY <1>2
<1>4. scanned(t) = CHOOSE f : Traces(f, Len(t))
  BY DEF scanned
<1> QED
  BY <1>3, <1>4

(* What f is to give for n when it gives the same language's shorter       *)
(* texts.                                                                  *)
StringOf(f, n) ==
    IF n = 0 THEN {<<>>}
    ELSE anyOf(Chars \ {"quote", "backslash"}, f[n - 1]) \cup
         (IF n = 1 THEN {} ELSE escaped(f[n - 2]))

ContentOf(f, n) ==
    IF n = 0 THEN {<<>>}
    ELSE anyOf({"backslash", "other"}, f[n - 1]) \cup
         UNION {between("open", f[m], "close", f[n - 2 - m]) \cup
                between("quote", StringBody[m], "quote", f[n - 2 - m])
                : m \in 0..(n - 2)}

(* Both look at shorter ones only. *)
LEMMA StringLocal ==
    ASSUME NEW n \in Nat, NEW f, NEW g, \A j \in 0..(n - 1) : f[j] = g[j]
    PROVE  StringOf(f, n) = StringOf(g, n)
<1>1. n # 0 => f[n - 1] = g[n - 1]
  OBVIOUS
<1>2. n \notin {0, 1} => f[n - 2] = g[n - 2]
  OBVIOUS
<1> QED
  BY <1>1, <1>2 DEF StringOf

(* The content of an object is made of shorter ones only, too. *)
LEMMA ContentLocal ==
    ASSUME NEW n \in Nat, NEW f, NEW g, \A j \in 0..(n - 1) : f[j] = g[j]
    PROVE  ContentOf(f, n) = ContentOf(g, n)
<1>1. n # 0 => f[n - 1] = g[n - 1]
  OBVIOUS
<1>2. \A m \in 0..(n - 2) : f[m] = g[m] /\ f[n - 2 - m] = g[n - 2 - m]
  OBVIOUS
<1> QED
  BY <1>1, <1>2 DEF ContentOf

(* The recursive definition of a string's body has a solution: StringBody  *)
(* satisfies it.                                                           *)
LEMMA StringBodyIs ==
    \A n \in 0..MaxLength : StringBody[n] = StringOf(StringBody, n)
<1> MaxLength \in Nat
  BY ClaudeAssumption
<1> DEFINE Fits(f, k) == f = [n \in 0..k |-> StringOf(f, n)]
           Bad == {k \in 0..MaxLength : ~ \E f : Fits(f, k)}
<1>1. Bad = {}
  <2> SUFFICES ASSUME Bad # {} PROVE FALSE
    OBVIOUS
  <2>1. PICK k \in Bad : \A j \in Bad : k <= j
    <3> Bad \subseteq Nat
      OBVIOUS
    <3> HIDE DEF Bad
    <3> QED
      BY Least
  <2>2. CASE k = 0
    <3>1. Fits([n \in 0..0 |-> {<<>>}], 0)
      BY DEF StringOf
    <3> QED
      BY <2>2, <3>1
  <2>3. CASE k # 0
    <3>1. k - 1 \in 0..MaxLength /\ k - 1 \notin Bad
      BY <2>1, <2>3
    <3>2. PICK g : Fits(g, k - 1)
      BY <3>1
    <3> DEFINE f == [n \in 0..k |-> StringOf(g, n)]
    <3>3. \A n \in 0..(k - 1) : f[n] = g[n]
      BY <3>2
    <3>4. ASSUME NEW n \in 0..k PROVE StringOf(f, n) = StringOf(g, n)
      <4>1. \A j \in 0..(n - 1) : f[j] = g[j]
        BY <3>3
      <4> HIDE DEF f
      <4> QED
        BY <4>1, StringLocal
    <3>5. Fits(f, k)
      BY <3>4
    <3> QED
      BY <3>5
  <2> QED
    BY <2>2, <2>3
<1>2. \E f : Fits(f, MaxLength)
  BY <1>1
<1>3. Fits(CHOOSE f : Fits(f, MaxLength), MaxLength)
  BY <1>2
<1>4. StringBody = CHOOSE f : Fits(f, MaxLength)
  BY DEF StringBody, StringOf
<1>5. StringBody = [n \in 0..MaxLength |-> StringOf(StringBody, n)]
  BY <1>3, <1>4
<1> QED
  BY <1>5

(* And so has the definition of an object's content, Content satisfies it. *)
LEMMA ContentIs ==
    \A n \in 0..MaxLength : Content[n] = ContentOf(Content, n)
<1> MaxLength \in Nat
  BY ClaudeAssumption
<1> DEFINE Fits(f, k) == f = [n \in 0..k |-> ContentOf(f, n)]
           Bad == {k \in 0..MaxLength : ~ \E f : Fits(f, k)}
<1>1. Bad = {}
  <2> SUFFICES ASSUME Bad # {} PROVE FALSE
    OBVIOUS
  <2>1. PICK k \in Bad : \A j \in Bad : k <= j
    <3> Bad \subseteq Nat
      OBVIOUS
    <3> HIDE DEF Bad
    <3> QED
      BY Least
  <2>2. CASE k = 0
    <3>1. Fits([n \in 0..0 |-> {<<>>}], 0)
      BY DEF ContentOf
    <3> QED
      BY <2>2, <3>1
  <2>3. CASE k # 0
    <3>1. k - 1 \in 0..MaxLength /\ k - 1 \notin Bad
      BY <2>1, <2>3
    <3>2. PICK g : Fits(g, k - 1)
      BY <3>1
    <3> DEFINE f == [n \in 0..k |-> ContentOf(g, n)]
    <3>3. \A n \in 0..(k - 1) : f[n] = g[n]
      BY <3>2
    <3>4. ASSUME NEW n \in 0..k PROVE ContentOf(f, n) = ContentOf(g, n)
      <4>1. \A j \in 0..(n - 1) : f[j] = g[j]
        BY <3>3
      <4> HIDE DEF f
      <4> QED
        BY <4>1, ContentLocal
    <3>5. Fits(f, k)
      BY <3>4
    <3> QED
      BY <3>5
  <2> QED
    BY <2>2, <2>3
<1>2. \E f : Fits(f, MaxLength)
  BY <1>1
<1>3. Fits(CHOOSE f : Fits(f, MaxLength), MaxLength)
  BY <1>2
<1>4. Content = CHOOSE f : Fits(f, MaxLength)
  BY DEF Content, ContentOf
<1>5. Content = [n \in 0..MaxLength |-> ContentOf(Content, n)]
  BY <1>3, <1>4
<1> QED
  BY <1>5

-----------------------------------------------------------------------------
(* Parts of a text: what stands after its i-th and up to its j-th          *)
(* character.                                                              *)
Slice(t, i, j) == SubSeq(t, i + 1, j)

(* A slice has the text's characters, from the one after its i-th on. *)
LEMMA SliceType ==
    ASSUME NEW t \in Seq(Chars), NEW i \in Nat, NEW j \in Nat, i <= j, j <= Len(t)
    PROVE  /\ Slice(t, i, j) \in Seq(Chars)
           /\ Len(Slice(t, i, j)) = j - i
           /\ \A k \in 1..(j - i) : Slice(t, i, j)[k] = t[i + k]
<1>1. \A k \in (i + 1)..j : t[k] \in Chars
  BY ElementOfSeq
<1>2. /\ SubSeq(t, i + 1, j) \in Seq(Chars)
      /\ Len(SubSeq(t, i + 1, j)) = IF i + 1 <= j THEN j - (i + 1) + 1 ELSE 0
      /\ \A k \in 1..(j - (i + 1) + 1) : SubSeq(t, i + 1, j)[k] = t[(i + 1) + k - 1]
  BY <1>1, SubSeqProperties
<1>3. \A k \in 1..(j - i) : k \in 1..(j - (i + 1) + 1) /\ (i + 1) + k - 1 = i + k
  OBVIOUS
<1> QED
  BY <1>2, <1>3 DEF Slice

(* A slice is made of the two that meet anywhere in it. *)
LEMMA SliceSplits ==
    ASSUME NEW t \in Seq(Chars), NEW i \in Nat, NEW k \in Nat, NEW j \in Nat,
           i <= k, k <= j, j <= Len(t)
    PROVE  Slice(t, i, j) = Slice(t, i, k) \o Slice(t, k, j)
<1>1. Len(t) \in Nat
  BY LenProperties
<1>2. i + 1 \in 1..(Len(t) + 1) /\ k \in (i + 1 - 1)..Len(t) /\ j \in k..Len(t)
  BY <1>1
<1> QED
  BY <1>2, ConcatAdjacentSubSeq DEF Slice

(* The text of one character. *)
One(c) == <<c>>

(* It is a text, it has one character, and that is c. *)
LEMMA OneType ==
    ASSUME NEW c \in Chars
    PROVE  One(c) \in Seq(Chars) /\ Len(One(c)) = 1 /\ One(c)[1] = c
BY DEF One

(* A slice of length one holds the character after its beginning. *)
LEMMA SliceOne ==
    ASSUME NEW t \in Seq(Chars), NEW i \in Nat, i < Len(t)
    PROVE  Slice(t, i, i + 1) = One(t[i + 1]) /\ t[i + 1] \in Chars
<1>1. Len(t) \in Nat /\ i + 1 \in 1..Len(t)
  BY LenProperties
<1>2. t[i + 1] \in Chars
  BY <1>1, ElementOfSeq
<1>3. /\ Slice(t, i, i + 1) \in Seq(Chars)
      /\ Len(Slice(t, i, i + 1)) = 1
      /\ Slice(t, i, i + 1)[1] = t[i + 1]
  <2>1. i + 1 \in Nat /\ i <= i + 1 /\ i + 1 <= Len(t)
    BY <1>1
  <2>2. /\ Slice(t, i, i + 1) \in Seq(Chars)
        /\ Len(Slice(t, i, i + 1)) = (i + 1) - i
        /\ \A k \in 1..((i + 1) - i) : Slice(t, i, i + 1)[k] = t[i + k]
    BY <2>1, SliceType, Zenon
  <2>3. (i + 1) - i = 1 /\ 1 \in 1..1
    OBVIOUS
  <2> QED
    BY <2>2, <2>3
<1> QED
  BY <1>2, <1>3, OneType, SeqEqual

(* Where two parts that make up a slice lie. *)
LieAt(t, i, j, a, b) ==
    /\ i + Len(a) <= j
    /\ a = Slice(t, i, i + Len(a))
    /\ b = Slice(t, i + Len(a), j)

(* Two texts that make up a slice are slices themselves. *)
LEMMA SliceParts ==
    ASSUME NEW t \in Seq(Chars), NEW i \in Nat, NEW j \in Nat, i <= j, j <= Len(t),
           NEW a \in Seq(Chars), NEW b \in Seq(Chars), Slice(t, i, j) = a \o b
    PROVE  LieAt(t, i, j, a, b)
<1> DEFINE k == i + Len(a)
<1>1. Len(a) \in Nat /\ Len(b) \in Nat
  BY LenProperties
<1>2. Len(a) + Len(b) = j - i
  <2>1. Len(Slice(t, i, j)) = j - i
    BY SliceType, Zenon
  <2> QED
    BY <2>1, ConcatProperties
<1>3. k \in Nat /\ k <= j /\ i <= k /\ j - k = Len(b)
  BY <1>1, <1>2
<1>4. /\ Slice(t, i, k) \in Seq(Chars) /\ Len(Slice(t, i, k)) = Len(a)
      /\ \A x \in 1..(k - i) : Slice(t, i, k)[x] = t[i + x]
  <2>1. k <= Len(t) /\ k - i = Len(a)
    BY <1>1, <1>3, LenProperties
  <2> HIDE DEF k
  <2>2. /\ Slice(t, i, k) \in Seq(Chars) /\ Len(Slice(t, i, k)) = k - i
        /\ \A x \in 1..(k - i) : Slice(t, i, k)[x] = t[i + x]
    BY <1>3, <2>1, SliceType, Zenon
  <2> QED
    BY <2>1, <2>2
<1>5. /\ Slice(t, k, j) \in Seq(Chars) /\ Len(Slice(t, k, j)) = Len(b)
      /\ \A x \in 1..(j - k) : Slice(t, k, j)[x] = t[k + x]
  BY <1>3, SliceType
<1>6. \A x \in 1..(j - i) : (a \o b)[x] = t[i + x]
  <2>1. \A x \in 1..(j - i) : Slice(t, i, j)[x] = t[i + x]
    BY SliceType, Zenon
  <2> QED
    BY <2>1
<1>7. \A x \in 1..(Len(a) + Len(b)) : (a \o b)[x] = IF x <= Len(a) THEN a[x] ELSE b[x - Len(a)]
  BY ConcatProperties
<1>8. ASSUME NEW x \in 1..Len(a) PROVE a[x] = Slice(t, i, k)[x]
  <2>1. x \in 1..(Len(a) + Len(b)) /\ x <= Len(a) /\ x \in 1..(j - i) /\ x \in 1..(k - i)
    BY <1>1, <1>2
  <2> HIDE DEF k
  <2> QED
    BY <2>1, <1>4, <1>6, <1>7
<1>9. ASSUME NEW x \in 1..Len(b) PROVE b[x] = Slice(t, k, j)[x]
  <2> DEFINE y == Len(a) + x
  <2>1. y \in 1..(Len(a) + Len(b)) /\ ~ (y <= Len(a)) /\ y \in 1..(j - i) /\ y - Len(a) = x
        /\ x \in 1..(j - k) /\ i + y = k + x
    BY <1>1, <1>2, <1>3
  <2>2. b[x] = t[i + y]
    <3> HIDE DEF y, k
    <3> QED
      BY <2>1, <1>6, <1>7
  <2>3. Slice(t, k, j)[x] = t[k + x]
    <3> HIDE DEF y, k
    <3> QED
      BY <2>1, <1>5
  <2> QED
    BY <2>1, <2>2, <2>3
<1>10. a = Slice(t, i, k)
  <2> HIDE DEF k
  <2> QED
    BY <1>4, <1>8, SeqEqual
<1>11. b = Slice(t, k, j)
  <2> HIDE DEF k
  <2> QED
    BY <1>5, <1>9, SeqEqual
<1> QED
  BY <1>3, <1>10, <1>11 DEF LieAt

-----------------------------------------------------------------------------
(* The productions of the grammar make texts of the lengths they say. *)
Texts(n) == {s \in Seq(Chars) : Len(s) = n}

(* What anyOf has in it, without its comprehension. *)
LEMMA AnyOfMembers ==
    ASSUME NEW chars, NEW rest, NEW x
    PROVE  x \in anyOf(chars, rest) <=> \E c \in chars, s \in rest : x = One(c) \o s
BY DEF anyOf, One

(* What joined has in it, without its comprehension. *)
LEMMA JoinedMembers ==
    ASSUME NEW texts, NEW rest, NEW x
    PROVE  x \in joined(texts, rest) <=> \E a \in texts, s \in rest : x = a \o s
BY DEF joined

(* One character more makes texts longer by one. *)
LEMMA AnyOfTexts ==
    ASSUME NEW chars, chars \subseteq Chars, NEW n \in Nat, NEW rest, rest \subseteq Texts(n)
    PROVE  anyOf(chars, rest) \subseteq Texts(n + 1)
<1> SUFFICES ASSUME NEW x \in anyOf(chars, rest) PROVE x \in Texts(n + 1)
  OBVIOUS
<1> PICK c \in chars, s \in rest : x = One(c) \o s
  BY AnyOfMembers
<1>1. One(c) \in Seq(Chars) /\ Len(One(c)) = 1
  BY OneType
<1>2. s \in Seq(Chars) /\ Len(s) = n
  BY DEF Texts
<1>3. x \in Seq(Chars) /\ Len(x) = 1 + n
  BY <1>1, <1>2, ConcatProperties
<1> QED
  BY <1>3 DEF Texts

(* Joined texts are as long as the two together. *)
LEMMA JoinedTexts ==
    ASSUME NEW m \in Nat, NEW texts, texts \subseteq Texts(m),
           NEW n \in Nat, NEW rest, rest \subseteq Texts(n)
    PROVE  joined(texts, rest) \subseteq Texts(m + n)
<1> SUFFICES ASSUME NEW x \in joined(texts, rest) PROVE x \in Texts(m + n)
  OBVIOUS
<1> PICK a \in texts, s \in rest : x = a \o s
  BY JoinedMembers
<1>1. a \in Seq(Chars) /\ Len(a) = m /\ s \in Seq(Chars) /\ Len(s) = n
  BY DEF Texts
<1> QED
  BY <1>1, ConcatProperties DEF Texts

(* Two delimiters make texts longer by two. *)
LEMMA BetweenTexts ==
    ASSUME NEW left \in Chars, NEW right \in Chars, NEW m \in Nat, NEW n \in Nat,
           NEW inside, inside \subseteq Texts(m), NEW rest, rest \subseteq Texts(n)
    PROVE  between(left, inside, right, rest) \subseteq Texts(m + n + 2)
<1>1. anyOf({right}, rest) \subseteq Texts(n + 1)
  BY AnyOfTexts
<1>2. joined(inside, anyOf({right}, rest)) \subseteq Texts(m + (n + 1))
  <2> n + 1 \in Nat
    OBVIOUS
  <2> QED
    BY <1>1, JoinedTexts, Zenon
<1>3. anyOf({left}, joined(inside, anyOf({right}, rest))) \subseteq Texts(m + (n + 1) + 1)
  <2> DEFINE k == m + (n + 1)
             r == joined(inside, anyOf({right}, rest))
  <2>1. k \in Nat
    OBVIOUS
  <2> HIDE DEF k, r
  <2>2. anyOf({left}, r) \subseteq Texts(k + 1)
    <3> r \subseteq Texts(k)
      BY <1>2 DEF k, r
    <3> QED
      BY <2>1, AnyOfTexts
  <2> QED
    BY <2>2 DEF k, r
<1>4. m + (n + 1) + 1 = m + n + 2
  OBVIOUS
<1> QED
  BY <1>3, <1>4 DEF between

(* StringBody[n] are texts of length n. *)
LEMMA StringTexts == \A n \in 0..MaxLength : StringBody[n] \subseteq Texts(n)
<1> MaxLength \in Nat
  BY ClaudeAssumption
<1> DEFINE Bad == {n \in 0..MaxLength : ~ StringBody[n] \subseteq Texts(n)}
<1> SUFFICES ASSUME Bad # {} PROVE FALSE
  OBVIOUS
<1>1. PICK n \in Bad : \A m \in Bad : n <= m
  <2> Bad \subseteq Nat
    OBVIOUS
  <2> HIDE DEF Bad
  <2> QED
    BY Least
<1>2. \A m \in 0..(n - 1) : StringBody[m] \subseteq Texts(m)
  BY <1>1
<1>3. StringBody[n] = StringOf(StringBody, n) /\ n \in Nat
  BY <1>1, StringBodyIs
<1>4. n = 0 => {<<>>} \subseteq Texts(n)
  BY DEF Texts
<1>5. ASSUME n # 0 PROVE anyOf(Chars \ {"quote", "backslash"}, StringBody[n - 1]) \subseteq Texts(n)
  <2>1. n - 1 \in Nat /\ (n - 1) + 1 = n /\ StringBody[n - 1] \subseteq Texts(n - 1)
    BY <1>2, <1>3, <1>5
  <2>2. anyOf(Chars \ {"quote", "backslash"}, StringBody[n - 1]) \subseteq Texts((n - 1) + 1)
    BY <2>1, AnyOfTexts
  <2> QED
    BY <2>1, <2>2
<1>6. ASSUME n \notin {0, 1} PROVE escaped(StringBody[n - 2]) \subseteq Texts(n)
  <2>1. n - 2 \in Nat /\ n - 1 \in Nat /\ StringBody[n - 2] \subseteq Texts(n - 2)
        /\ (n - 2) + 1 = n - 1 /\ (n - 1) + 1 = n
    BY <1>2, <1>3, <1>6
  <2>2. anyOf(Chars, StringBody[n - 2]) \subseteq Texts((n - 2) + 1)
    BY <2>1, AnyOfTexts
  <2>3. anyOf({"backslash"}, anyOf(Chars, StringBody[n - 2])) \subseteq Texts((n - 1) + 1)
    <3> {"backslash"} \subseteq Chars
      BY DEF Chars
    <3> QED
      BY <2>1, <2>2, AnyOfTexts
  <2> QED
    BY <2>1, <2>3 DEF escaped
<1>7. StringBody[n] \subseteq Texts(n)
  BY <1>3, <1>4, <1>5, <1>6 DEF StringOf
<1> QED
  BY <1>1, <1>7

(* Content[n] are texts of length n. *)
LEMMA ContentTexts == \A n \in 0..MaxLength : Content[n] \subseteq Texts(n)
<1> MaxLength \in Nat
  BY ClaudeAssumption
<1> DEFINE Bad == {n \in 0..MaxLength : ~ Content[n] \subseteq Texts(n)}
<1> SUFFICES ASSUME Bad # {} PROVE FALSE
  OBVIOUS
<1>1. PICK n \in Bad : \A m \in Bad : n <= m
  <2> Bad \subseteq Nat
    OBVIOUS
  <2> HIDE DEF Bad
  <2> QED
    BY Least
<1>2. \A m \in 0..(n - 1) : Content[m] \subseteq Texts(m)
  BY <1>1
<1>3. Content[n] = ContentOf(Content, n) /\ n \in Nat /\ n <= MaxLength
  BY <1>1, ContentIs
<1>4. n = 0 => {<<>>} \subseteq Texts(n)
  BY DEF Texts
<1>5. ASSUME n # 0 PROVE anyOf({"backslash", "other"}, Content[n - 1]) \subseteq Texts(n)
  <2>1. n - 1 \in Nat /\ (n - 1) + 1 = n /\ Content[n - 1] \subseteq Texts(n - 1)
    BY <1>2, <1>3, <1>5
  <2>2. anyOf({"backslash", "other"}, Content[n - 1]) \subseteq Texts((n - 1) + 1)
    <3> {"backslash", "other"} \subseteq Chars
      BY DEF Chars
    <3> QED
      BY <2>1, AnyOfTexts
  <2> QED
    BY <2>1, <2>2
<1>6. ASSUME NEW m \in 0..(n - 2)
      PROVE  /\ between("open", Content[m], "close", Content[n - 2 - m]) \subseteq Texts(n)
             /\ between("quote", StringBody[m], "quote", Content[n - 2 - m]) \subseteq Texts(n)
  <2> DEFINE k == n - 2 - m
  <2>1. m \in Nat /\ k \in Nat /\ m + k + 2 = n /\ m \in 0..(n - 1) /\ k \in 0..(n - 1)
        /\ m \in 0..MaxLength
    BY <1>3
  <2> HIDE DEF k
  <2>2. Content[m] \subseteq Texts(m) /\ StringBody[m] \subseteq Texts(m) /\ Content[k] \subseteq Texts(k)
    BY <1>2, <2>1, StringTexts
  <2>3. {"open", "close", "quote"} \subseteq Chars
    BY DEF Chars
  <2>4. /\ between("open", Content[m], "close", Content[k]) \subseteq Texts(m + k + 2)
        /\ between("quote", StringBody[m], "quote", Content[k]) \subseteq Texts(m + k + 2)
    BY <2>1, <2>2, <2>3, BetweenTexts
  <2> QED
    BY <2>1, <2>4 DEF k
<1>7. Content[n] \subseteq Texts(n)
  BY <1>3, <1>4, <1>5, <1>6 DEF ContentOf
<1> QED
  BY <1>1, <1>7

-----------------------------------------------------------------------------
(* The productions, read off a slice of a text. *)
LEMMA AnyOfSlice ==
    ASSUME NEW t \in Seq(Chars), NEW i \in Nat, NEW j \in Nat, i <= j, j <= Len(t),
           NEW chars, chars \subseteq Chars, NEW rest, rest \subseteq Seq(Chars)
    PROVE  Slice(t, i, j) \in anyOf(chars, rest) <=>
               i < j /\ t[i + 1] \in chars /\ Slice(t, i + 1, j) \in rest
<1>1. ASSUME Slice(t, i, j) \in anyOf(chars, rest)
      PROVE  i < j /\ t[i + 1] \in chars /\ Slice(t, i + 1, j) \in rest
  <2>1. PICK c \in chars, s \in rest : Slice(t, i, j) = One(c) \o s
    BY <1>1, AnyOfMembers
  <2>2. One(c) \in Seq(Chars) /\ Len(One(c)) = 1 /\ One(c)[1] = c /\ s \in Seq(Chars)
    BY OneType
  <2>3. LieAt(t, i, j, One(c), s)
    BY <2>1, <2>2, SliceParts
  <2>4. i + 1 <= j /\ One(c) = Slice(t, i, i + 1) /\ s = Slice(t, i + 1, j)
    BY <2>2, <2>3 DEF LieAt
  <2>5. i < Len(t)
    BY <2>4, LenProperties
  <2>6. c = t[i + 1]
    <3>1. Slice(t, i, i + 1) = One(t[i + 1]) /\ t[i + 1] \in Chars
      BY <2>5, SliceOne
    <3>2. One(t[i + 1])[1] = t[i + 1]
      BY <3>1, OneType
    <3> QED
      BY <2>2, <2>4, <3>1, <3>2
  <2> QED
    BY <2>4, <2>6
<1>2. ASSUME i < j, t[i + 1] \in chars, Slice(t, i + 1, j) \in rest
      PROVE  Slice(t, i, j) \in anyOf(chars, rest)
  <2>1. i + 1 \in Nat /\ i <= i + 1 /\ i + 1 <= j /\ i < Len(t)
    BY <1>2, LenProperties
  <2>2. Slice(t, i, j) = Slice(t, i, i + 1) \o Slice(t, i + 1, j)
    BY <2>1, SliceSplits, Zenon
  <2>3. Slice(t, i, i + 1) = One(t[i + 1])
    BY <2>1, SliceOne
  <2>4. Slice(t, i, j) = One(t[i + 1]) \o Slice(t, i + 1, j)
    BY <2>2, <2>3, Zenon
  <2> QED
    BY <1>2, <2>4, AnyOfMembers
<1> QED
  BY <1>1, <1>2

(* A slice is of two languages joined when it is cut where the first one's *)
(* length says.                                                            *)
LEMMA JoinedSlice ==
    ASSUME NEW t \in Seq(Chars), NEW i \in Nat, NEW j \in Nat, i <= j, j <= Len(t),
           NEW m \in Nat, NEW texts, texts \subseteq Texts(m), NEW rest, rest \subseteq Seq(Chars)
    PROVE  Slice(t, i, j) \in joined(texts, rest) <=>
               i + m <= j /\ Slice(t, i, i + m) \in texts /\ Slice(t, i + m, j) \in rest
<1>1. ASSUME Slice(t, i, j) \in joined(texts, rest)
      PROVE  i + m <= j /\ Slice(t, i, i + m) \in texts /\ Slice(t, i + m, j) \in rest
  <2>1. PICK a \in texts, s \in rest : Slice(t, i, j) = a \o s
    BY <1>1, JoinedMembers
  <2>2. a \in Seq(Chars) /\ Len(a) = m /\ s \in Seq(Chars)
    BY DEF Texts
  <2>3. LieAt(t, i, j, a, s)
    BY <2>1, <2>2, SliceParts
  <2> QED
    BY <2>2, <2>3 DEF LieAt
<1>2. ASSUME i + m <= j, Slice(t, i, i + m) \in texts, Slice(t, i + m, j) \in rest
      PROVE  Slice(t, i, j) \in joined(texts, rest)
  <2>1. i + m \in Nat /\ i <= i + m
    OBVIOUS
  <2>2. Slice(t, i, j) = Slice(t, i, i + m) \o Slice(t, i + m, j)
    BY <1>2, <2>1, SliceSplits, Zenon
  <2> QED
    BY <1>2, <2>2, JoinedMembers
<1> QED
  BY <1>1, <1>2

(* anyOf makes texts of texts, of whatever lengths. *)
LEMMA AnyOfSeq ==
    ASSUME NEW chars, chars \subseteq Chars, NEW rest, rest \subseteq Seq(Chars)
    PROVE  anyOf(chars, rest) \subseteq Seq(Chars)
<1> SUFFICES ASSUME NEW x \in anyOf(chars, rest) PROVE x \in Seq(Chars)
  OBVIOUS
<1> PICK c \in chars, s \in rest : x = One(c) \o s
  BY AnyOfMembers
<1> QED
  BY OneType, ConcatProperties

(* joined makes texts of texts, of whatever lengths. *)
LEMMA JoinedSeq ==
    ASSUME NEW texts, texts \subseteq Seq(Chars), NEW rest, rest \subseteq Seq(Chars)
    PROVE  joined(texts, rest) \subseteq Seq(Chars)
<1> SUFFICES ASSUME NEW x \in joined(texts, rest) PROVE x \in Seq(Chars)
  OBVIOUS
<1> PICK a \in texts, s \in rest : x = a \o s
  BY JoinedMembers
<1> QED
  BY ConcatProperties

(* A slice begins with an escape when it begins with a backslash and goes  *)
(* on for another character at least.                                      *)
LEMMA EscapedSlice ==
    ASSUME NEW t \in Seq(Chars), NEW i \in Nat, NEW j \in Nat, i <= j, j <= Len(t),
           NEW rest, rest \subseteq Seq(Chars)
    PROVE  Slice(t, i, j) \in escaped(rest) <=>
               i + 2 <= j /\ t[i + 1] = "backslash" /\ Slice(t, i + 2, j) \in rest
<1>1. anyOf(Chars, rest) \subseteq Seq(Chars) /\ {"backslash"} \subseteq Chars
  BY AnyOfSeq DEF Chars
<1>2. Slice(t, i, j) \in escaped(rest) <=>
          i < j /\ t[i + 1] \in {"backslash"} /\ Slice(t, i + 1, j) \in anyOf(Chars, rest)
  BY <1>1, AnyOfSlice DEF escaped
<1>3. ASSUME i < j
      PROVE  Slice(t, i + 1, j) \in anyOf(Chars, rest) <=>
                 i + 2 <= j /\ t[i + 2] \in Chars /\ Slice(t, i + 2, j) \in rest
  <2> DEFINE k == i + 1
  <2>1. k \in Nat /\ k <= j /\ k + 1 = i + 2 /\ (k < j <=> i + 2 <= j)
    BY <1>3
  <2> HIDE DEF k
  <2>2. Slice(t, k, j) \in anyOf(Chars, rest) <=>
            k < j /\ t[k + 1] \in Chars /\ Slice(t, k + 1, j) \in rest
    BY <2>1, AnyOfSlice
  <2>3. Slice(t, k, j) \in anyOf(Chars, rest) <=>
            i + 2 <= j /\ t[i + 2] \in Chars /\ Slice(t, i + 2, j) \in rest
    BY <2>1, <2>2
  <2> QED
    BY <2>3 DEF k
<1>4. i + 2 <= j => t[i + 2] \in Chars /\ i < j
  <2>1. i + 2 <= j => i + 2 \in 1..Len(t)
    BY LenProperties
  <2> QED
    BY <2>1, ElementOfSeq
<1> QED
  BY <1>2, <1>3, <1>4

(* A slice stands between delimiters exactly when both stand where the     *)
(* length of what is inside puts them.                                     *)
ReadsBetween(t, i, j, left, m, inside, right, rest) ==
    Slice(t, i, j) \in between(left, inside, right, rest) <=>
        /\ i + m + 2 <= j
        /\ t[i + 1] = left
        /\ Slice(t, i + 1, i + m + 1) \in inside
        /\ t[i + m + 2] = right
        /\ Slice(t, i + m + 2, j) \in rest

(* And that is so of every slice. *)
LEMMA BetweenSlice ==
    ASSUME NEW t \in Seq(Chars), NEW i \in Nat, NEW j \in Nat, i <= j, j <= Len(t),
           NEW left \in Chars, NEW right \in Chars,
           NEW m \in Nat, NEW inside, inside \subseteq Texts(m),
           NEW rest, rest \subseteq Seq(Chars)
    PROVE  ReadsBetween(t, i, j, left, m, inside, right, rest)
<1> DEFINE closed == anyOf({right}, rest)
           body == joined(inside, closed)
           k == i + 1
           l == i + m + 1
<1>1. closed \subseteq Seq(Chars) /\ body \subseteq Seq(Chars)
  <2>1. closed \subseteq Seq(Chars)
    BY AnyOfSeq
  <2>2. inside \subseteq Seq(Chars)
    BY DEF Texts
  <2> QED
    BY <2>1, <2>2, JoinedSeq
<1>2. between(left, inside, right, rest) = anyOf({left}, body)
  BY DEF between
<1>3. k \in Nat /\ l \in Nat /\ k + m = l /\ l + 1 = i + m + 2
  OBVIOUS
<1>4. i + m + 2 <= j <=> i < j /\ l < j
  OBVIOUS
<1>5. i < j => k <= j
  OBVIOUS
<1>6. Slice(t, i, j) \in anyOf({left}, body) <=>
          i < j /\ t[i + 1] \in {left} /\ Slice(t, i + 1, j) \in body
  <2> HIDE DEF body
  <2> QED
    BY <1>1, AnyOfSlice
<1>7. ASSUME i < j
      PROVE  Slice(t, k, j) \in body <=>
                 k + m <= j /\ Slice(t, k, k + m) \in inside /\ Slice(t, k + m, j) \in closed
  <2> HIDE DEF closed, k, l
  <2> QED
    BY <1>1, <1>3, <1>5, <1>7, JoinedSlice
<1>8. ASSUME l <= j
      PROVE  Slice(t, l, j) \in closed <=>
                 l < j /\ t[l + 1] \in {right} /\ Slice(t, l + 1, j) \in rest
  <2> HIDE DEF k, l
  <2> QED
    BY <1>3, <1>8, AnyOfSlice
<1> HIDE DEF closed, body, l
<1> QED
  BY <1>2, <1>3, <1>4, <1>6, <1>7, <1>8 DEF l, ReadsBetween

-----------------------------------------------------------------------------
(* The grammar as rules about the slices of one text.                      *)
InString(t, i, j) == Slice(t, i, j) \in StringBody[j - i]

InContent(t, i, j) == Slice(t, i, j) \in Content[j - i]

(* The text from i to j can be a string's body: it is empty, or its first  *)
(* character is neither a quote nor a backslash and the rest can, or it    *)
(* begins with an escape and what follows that can.                        *)
LEMMA StringRule ==
    ASSUME NEW t \in Seq(Chars), Len(t) <= MaxLength,
           NEW i \in Nat, NEW j \in Nat, i <= j, j <= Len(t)
    PROVE  InString(t, i, j) <=>
               \/ i = j
               \/ i < j /\ t[i + 1] \in Chars \ {"quote", "backslash"} /\ InString(t, i + 1, j)
               \/ i + 2 <= j /\ t[i + 1] = "backslash" /\ InString(t, i + 2, j)
<1> DEFINE n == j - i
<1>1. MaxLength \in Nat /\ Len(t) \in Nat
  BY ClaudeAssumption, LenProperties
<1>2. n \in 0..MaxLength /\ (n = 0 <=> i = j)
  BY <1>1
<1>3. StringBody[n] = StringOf(StringBody, n)
  <2> HIDE DEF n
  <2> QED
    BY <1>2, StringBodyIs
<1>4. i = j => Slice(t, i, j) = <<>>
  BY SubSeqEmpty DEF Slice
<1>5. i = j => Slice(t, i, j) \in StringOf(StringBody, n)
  BY <1>4 DEF StringOf
<1>6. ASSUME i < j
      PROVE  Slice(t, i, j) \in anyOf(Chars \ {"quote", "backslash"}, StringBody[n - 1]) <=>
                 t[i + 1] \in Chars \ {"quote", "backslash"} /\ InString(t, i + 1, j)
  <2>1. n - 1 \in 0..MaxLength /\ n - 1 = j - (i + 1)
    BY <1>1, <1>6
  <2>2. StringBody[n - 1] \subseteq Seq(Chars)
    <3> HIDE DEF n
    <3> QED
      BY <2>1, StringTexts DEF Texts
  <2>3. Slice(t, i, j) \in anyOf(Chars \ {"quote", "backslash"}, StringBody[n - 1]) <=>
            i < j /\ t[i + 1] \in Chars \ {"quote", "backslash"} /\ Slice(t, i + 1, j) \in StringBody[n - 1]
    <3> HIDE DEF n
    <3> QED
      BY <2>2, AnyOfSlice
  <2> QED
    BY <1>6, <2>1, <2>3 DEF InString
<1>7. ASSUME i + 2 <= j
      PROVE  Slice(t, i, j) \in escaped(StringBody[n - 2]) <=>
                 t[i + 1] = "backslash" /\ InString(t, i + 2, j)
  <2>1. n - 2 \in 0..MaxLength /\ n - 2 = j - (i + 2)
    BY <1>1, <1>7
  <2>2. StringBody[n - 2] \subseteq Seq(Chars)
    <3> HIDE DEF n
    <3> QED
      BY <2>1, StringTexts DEF Texts
  <2>3. Slice(t, i, j) \in escaped(StringBody[n - 2]) <=>
            i + 2 <= j /\ t[i + 1] = "backslash" /\ Slice(t, i + 2, j) \in StringBody[n - 2]
    <3> HIDE DEF n
    <3> QED
      BY <2>2, EscapedSlice
  <2> QED
    BY <1>7, <2>1, <2>3 DEF InString
<1>8. (n \notin {0, 1} <=> i + 2 <= j) /\ (n # 0 <=> i < j)
  OBVIOUS
<1>9. Slice(t, i, j) \in StringOf(StringBody, n) <=>
          \/ n = 0 /\ Slice(t, i, j) = <<>>
          \/ n # 0 /\ Slice(t, i, j) \in anyOf(Chars \ {"quote", "backslash"}, StringBody[n - 1])
          \/ n \notin {0, 1} /\ Slice(t, i, j) \in escaped(StringBody[n - 2])
  BY DEF StringOf
<1> QED
  BY <1>2, <1>3, <1>4, <1>6, <1>7, <1>8, <1>9 DEF InString

(* The text from i to j can be an object's content: it is empty, or it     *)
(* begins with a character that delimits nothing, or with an object or a   *)
(* string that ends before k, and the rest from k on can.                  *)
LEMMA ContentRule ==
    ASSUME NEW t \in Seq(Chars), Len(t) <= MaxLength,
           NEW i \in Nat, NEW j \in Nat, i <= j, j <= Len(t)
    PROVE  InContent(t, i, j) <=>
               \/ i = j
               \/ i < j /\ t[i + 1] \in {"backslash", "other"} /\ InContent(t, i + 1, j)
               \/ \E k \in (i + 2)..j :
                      /\ InContent(t, k, j)
                      /\ \/ t[i + 1] = "open" /\ InContent(t, i + 1, k - 1) /\ t[k] = "close"
                         \/ t[i + 1] = "quote" /\ InString(t, i + 1, k - 1) /\ t[k] = "quote"
<1> DEFINE n == j - i
           s == Slice(t, i, j)
<1>1. MaxLength \in Nat /\ Len(t) \in Nat
  BY ClaudeAssumption, LenProperties
<1>2. n \in 0..MaxLength /\ (n = 0 <=> i = j) /\ (n # 0 <=> i < j)
  BY <1>1
<1>3. Content[n] = ContentOf(Content, n)
  <2> HIDE DEF n
  <2> QED
    BY <1>2, ContentIs
<1>4. i = j => s = <<>>
  BY SubSeqEmpty DEF Slice
<1>5. {"backslash", "other"} \subseteq Chars /\ {"open", "close", "quote"} \subseteq Chars
  BY DEF Chars
<1>6. ASSUME i < j
      PROVE  s \in anyOf({"backslash", "other"}, Content[n - 1]) <=>
                 t[i + 1] \in {"backslash", "other"} /\ InContent(t, i + 1, j)
  <2>1. n - 1 \in 0..MaxLength /\ n - 1 = j - (i + 1)
    BY <1>1, <1>6
  <2>2. Content[n - 1] \subseteq Seq(Chars)
    <3> HIDE DEF n
    <3> QED
      BY <2>1, ContentTexts DEF Texts
  <2>3. s \in anyOf({"backslash", "other"}, Content[n - 1]) <=>
            i < j /\ t[i + 1] \in {"backslash", "other"} /\ Slice(t, i + 1, j) \in Content[n - 1]
    <3> HIDE DEF n
    <3> QED
      BY <1>5, <2>2, AnyOfSlice
  <2> QED
    BY <1>6, <2>1, <2>3 DEF InContent
<1>7. ASSUME NEW m \in 0..(n - 2)
      PROVE  /\ s \in between("open", Content[m], "close", Content[n - 2 - m]) <=>
                    /\ t[i + 1] = "open" /\ InContent(t, i + 1, i + m + 1)
                    /\ t[i + m + 2] = "close" /\ InContent(t, i + m + 2, j)
             /\ s \in between("quote", StringBody[m], "quote", Content[n - 2 - m]) <=>
                    /\ t[i + 1] = "quote" /\ InString(t, i + 1, i + m + 1)
                    /\ t[i + m + 2] = "quote" /\ InContent(t, i + m + 2, j)
  <2> DEFINE r == n - 2 - m
  <2>1. /\ m \in Nat /\ m \in 0..MaxLength /\ r \in 0..MaxLength /\ i + m + 2 <= j
        /\ (i + m + 1) - (i + 1) = m /\ j - (i + m + 2) = r
    BY <1>1, <1>2
  <2> HIDE DEF r, n
  <2>2. Content[m] \subseteq Texts(m) /\ StringBody[m] \subseteq Texts(m) /\ Content[r] \subseteq Seq(Chars)
    BY <2>1, ContentTexts, StringTexts DEF Texts
  <2>3. s \in between("open", Content[m], "close", Content[r]) <=>
            /\ i + m + 2 <= j /\ t[i + 1] = "open" /\ Slice(t, i + 1, i + m + 1) \in Content[m]
            /\ t[i + m + 2] = "close" /\ Slice(t, i + m + 2, j) \in Content[r]
    <3> "open" \in Chars /\ "close" \in Chars
      BY DEF Chars
    <3>1. ReadsBetween(t, i, j, "open", m, Content[m], "close", Content[r])
      BY <2>1, <2>2, BetweenSlice
    <3> QED
      BY <3>1 DEF ReadsBetween
  <2>4. s \in between("quote", StringBody[m], "quote", Content[r]) <=>
            /\ i + m + 2 <= j /\ t[i + 1] = "quote" /\ Slice(t, i + 1, i + m + 1) \in StringBody[m]
            /\ t[i + m + 2] = "quote" /\ Slice(t, i + m + 2, j) \in Content[r]
    <3> "quote" \in Chars /\ "quote" \in Chars
      BY DEF Chars
    <3>1. ReadsBetween(t, i, j, "quote", m, StringBody[m], "quote", Content[r])
      BY <2>1, <2>2, BetweenSlice
    <3> QED
      BY <3>1 DEF ReadsBetween
  <2> QED
    BY <2>1, <2>3, <2>4 DEF InContent, InString, r
<1>8. s \in ContentOf(Content, n) <=>
          \/ n = 0 /\ s = <<>>
          \/ n # 0 /\ s \in anyOf({"backslash", "other"}, Content[n - 1])
          \/ n # 0 /\ \E m \in 0..(n - 2) :
                 \/ s \in between("open", Content[m], "close", Content[n - 2 - m])
                 \/ s \in between("quote", StringBody[m], "quote", Content[n - 2 - m])
  BY DEF ContentOf
<1> DEFINE Nested(k) ==
               /\ InContent(t, k, j)
               /\ \/ t[i + 1] = "open" /\ InContent(t, i + 1, k - 1) /\ t[k] = "close"
                  \/ t[i + 1] = "quote" /\ InString(t, i + 1, k - 1) /\ t[k] = "quote"
<1>9. (n # 0 /\ \E m \in 0..(n - 2) :
                 \/ s \in between("open", Content[m], "close", Content[n - 2 - m])
                 \/ s \in between("quote", StringBody[m], "quote", Content[n - 2 - m]))
      <=> \E k \in (i + 2)..j : Nested(k)
  <2>1. ASSUME NEW m \in 0..(n - 2)
        PROVE  /\ i + m + 2 \in (i + 2)..j /\ i < j
               /\ Nested(i + m + 2) <=>
                      \/ s \in between("open", Content[m], "close", Content[n - 2 - m])
                      \/ s \in between("quote", StringBody[m], "quote", Content[n - 2 - m])
    <3>1. i + m + 2 \in (i + 2)..j /\ i < j /\ (i + m + 2) - 1 = i + m + 1
      OBVIOUS
    <3> QED
      BY <3>1, <1>7
  <2>2. ASSUME NEW k \in (i + 2)..j
        PROVE  k - i - 2 \in 0..(n - 2) /\ i + (k - i - 2) + 2 = k
    OBVIOUS
  <2> HIDE DEF Nested, s
  <2>3. ASSUME NEW m \in 0..(n - 2), n # 0,
               \/ s \in between("open", Content[m], "close", Content[n - 2 - m])
               \/ s \in between("quote", StringBody[m], "quote", Content[n - 2 - m])
        PROVE  \E k \in (i + 2)..j : Nested(k)
    BY <2>1, <2>3
  <2>4. ASSUME NEW k \in (i + 2)..j, Nested(k)
        PROVE  n # 0 /\ \E m \in 0..(n - 2) :
                 \/ s \in between("open", Content[m], "close", Content[n - 2 - m])
                 \/ s \in between("quote", StringBody[m], "quote", Content[n - 2 - m])
    <3> DEFINE m == k - i - 2
    <3>1. m \in 0..(n - 2) /\ i + m + 2 = k /\ n # 0
      BY <2>2
    <3> HIDE DEF m, n
    <3>2. \/ s \in between("open", Content[m], "close", Content[n - 2 - m])
          \/ s \in between("quote", StringBody[m], "quote", Content[n - 2 - m])
      BY <2>1, <2>4, <3>1
    <3> QED
      BY <3>1, <3>2
  <2> QED
    BY <2>3, <2>4
<1> QED
  BY <1>2, <1>3, <1>4, <1>6, <1>8, <1>9 DEF InContent

-----------------------------------------------------------------------------
(* The states the loop can be in, at a depth of braces. *)
Outside(d) == [depth |-> d, inStr |-> FALSE, escaped |-> FALSE]

Inside(d) == [depth |-> d, inStr |-> TRUE, escaped |-> FALSE]

Escaping(d) == [depth |-> d, inStr |-> TRUE, escaped |-> TRUE]

(* The states are what they say and no two of them the same. *)
LEMMA StatesDiffer ==
    ASSUME NEW d, NEW e
    PROVE  /\ Outside(d).depth = d /\ Inside(d).depth = d /\ Escaping(d).depth = d
           /\ ~ Outside(d).inStr /\ Inside(d).inStr /\ Escaping(d).inStr
           /\ Outside(d) # Inside(e) /\ Outside(d) # Escaping(e) /\ Inside(d) # Escaping(e)
           /\ Outside(d) = Outside(e) => d = e
           /\ Inside(d) = Inside(e) => d = e
<1>1. Outside(d).depth = d /\ Inside(d).depth = d /\ Escaping(d).depth = d
  BY DEF Outside, Inside, Escaping
<1>2. Outside(d).inStr = FALSE /\ Inside(d).inStr = TRUE /\ Escaping(d).inStr = TRUE
  BY DEF Outside, Inside, Escaping
<1>3. Outside(d).escaped = FALSE /\ Inside(d).escaped = FALSE /\ Escaping(e).escaped = TRUE
  BY DEF Outside, Inside, Escaping
<1>4. Inside(e).inStr = TRUE /\ Escaping(e).inStr = TRUE /\ Outside(e).depth = e /\ Inside(e).depth = e
  BY DEF Outside, Inside, Escaping
<1> QED
  BY <1>1, <1>2, <1>3, <1>4

(* One turn of the loop. *)
LEMMA ScanStep ==
    ASSUME NEW d \in Int
    PROVE  /\ scan(Outside(d), "quote") = Inside(d)
           /\ scan(Outside(d), "open") = Outside(d + 1)
           /\ scan(Outside(d), "close") = Outside(d - 1)
           /\ \A c \in {"backslash", "other"} : scan(Outside(d), c) = Outside(d)
           /\ scan(Inside(d), "quote") = Outside(d)
           /\ scan(Inside(d), "backslash") = Escaping(d)
           /\ \A c \in Chars \ {"quote", "backslash"} : scan(Inside(d), c) = Inside(d)
           /\ \A c \in Chars : scan(Escaping(d), c) = Inside(d)
BY DEF scan, Outside, Inside, Escaping, Chars

(* The loop begins outside of strings at depth zero, and each turn is scan *)
(* of the next character.                                                  *)
LEMMA ScannedSteps ==
    ASSUME NEW t \in Seq(Chars)
    PROVE  /\ scanned(t)[0] = Outside(0)
           /\ \A i \in Nat : i < Len(t) =>
                  /\ t[i + 1] \in Chars
                  /\ scanned(t)[i + 1] = scan(scanned(t)[i], t[i + 1])
<1>1. Len(t) \in Nat
  BY LenProperties
<1>2. scanned(t)[0] = Outside(0)
  <2>1. 0 \in 0..Len(t)
    BY <1>1
  <2>2. scanned(t)[0] = scanStart
    BY <2>1, Scanned
  <2> QED
    BY <2>2 DEF scanStart, Outside
<1>3. ASSUME NEW i \in Nat, i < Len(t)
      PROVE  t[i + 1] \in Chars /\ scanned(t)[i + 1] = scan(scanned(t)[i], t[i + 1])
  <2> DEFINE k == i + 1
  <2>1. k \in 0..Len(t) /\ k # 0 /\ k - 1 = i /\ k \in 1..Len(t)
    BY <1>1, <1>3
  <2>2. scanned(t)[k] = scan(scanned(t)[k - 1], t[k])
    <3> HIDE DEF k
    <3> QED
      BY <2>1, Scanned
  <2>3. t[k] \in Chars
    <3> HIDE DEF k
    <3> QED
      BY <2>1, ElementOfSeq
  <2> QED
    BY <2>1, <2>2, <2>3
<1> QED
  BY <1>2, <1>3

(* The loop is never in any other state. *)
LEMMA ScannedStates ==
    ASSUME NEW t \in Seq(Chars)
    PROVE  \A i \in Nat : i <= Len(t) =>
               \E d \in Int : scanned(t)[i] \in {Outside(d), Inside(d), Escaping(d)}
<1> DEFINE Fine(i) == \E d \in Int : scanned(t)[i] \in {Outside(d), Inside(d), Escaping(d)}
           Bad == {i \in Nat : i <= Len(t) /\ ~ Fine(i)}
<1> SUFFICES ASSUME Bad # {} PROVE FALSE
  OBVIOUS
<1>1. PICK n \in Bad : \A m \in Bad : n <= m
  <2> Bad \subseteq Nat
    OBVIOUS
  <2> HIDE DEF Bad
  <2> QED
    BY Least
<1>2. n # 0
  BY <1>1, ScannedSteps
<1> DEFINE i == n - 1
<1>3. i \in Nat /\ i + 1 = n /\ i < Len(t) /\ i <= Len(t) /\ ~ (n <= i)
  BY <1>1, <1>2, LenProperties
<1>4. PICK d \in Int : scanned(t)[i] \in {Outside(d), Inside(d), Escaping(d)}
  BY <1>1, <1>3
<1>5. t[n] \in Chars /\ scanned(t)[n] = scan(scanned(t)[i], t[n])
  <2> HIDE DEF i
  <2> QED
    BY <1>3, ScannedSteps
<1>6. d + 1 \in Int /\ d - 1 \in Int
  OBVIOUS
<1>7. Fine(n)
  <2>1. CASE scanned(t)[i] = Outside(d)
    <3>1. scanned(t)[n] \in {Outside(d), Outside(d + 1), Outside(d - 1), Inside(d)}
      BY <1>5, <2>1, ScanStep DEF Chars
    <3> QED
      BY <1>6, <3>1
  <2>2. CASE scanned(t)[i] \in {Inside(d), Escaping(d)}
    <3>1. CASE scanned(t)[i] = Inside(d)
      <4>1. \/ t[n] = "quote" \/ t[n] = "backslash" \/ t[n] \in Chars \ {"quote", "backslash"}
        BY <1>5
      <4>2. scanned(t)[n] \in {Outside(d), Inside(d), Escaping(d)}
        BY <1>5, <3>1, <4>1, ScanStep
      <4> QED
        BY <4>2
    <3>2. CASE scanned(t)[i] = Escaping(d)
      BY <1>5, <3>2, ScanStep
    <3> QED
      BY <2>2, <3>1, <3>2
  <2> QED
    BY <1>4, <2>1, <2>2
<1> QED
  BY <1>1, <1>7

(* The depth is always a number. *)
LEMMA ScannedDepth ==
    ASSUME NEW t \in Seq(Chars), NEW i \in Nat, i <= Len(t)
    PROVE  scanned(t)[i].depth \in Int
<1>1. PICK d \in Int : scanned(t)[i] \in {Outside(d), Inside(d), Escaping(d)}
  BY ScannedStates
<1> QED
  BY <1>1, StatesDiffer

(* Only a closing brace outside of a string lessens the depth. *)
LEMMA DepthFalls ==
    ASSUME NEW f \in Int, NEW st \in {Outside(f), Inside(f), Escaping(f)}, NEW c \in Chars,
           scan(st, c).depth < f
    PROVE  st = Outside(f) /\ c = "close" /\ scan(st, c) = Outside(f - 1)
<1>1. /\ Outside(f).depth = f /\ Outside(f + 1).depth = f + 1
      /\ Inside(f).depth = f /\ Escaping(f).depth = f
  BY StatesDiffer
<1>2. CASE st = Outside(f)
  <2>1. \/ c = "close"
        \/ scan(st, c) \in {Outside(f), Inside(f), Outside(f + 1)}
    BY <1>2, ScanStep DEF Chars
  <2>2. c = "close"
    BY <1>1, <2>1
  <2> QED
    BY <1>2, <2>2, ScanStep
<1>3. CASE st \in {Inside(f), Escaping(f)}
  <2>1. \/ c = "quote" \/ c = "backslash" \/ c \in Chars \ {"quote", "backslash"}
    OBVIOUS
  <2>2. scan(Inside(f), c) \in {Outside(f), Inside(f), Escaping(f)}
    BY <2>1, ScanStep
  <2>3. scan(Escaping(f), c) = Inside(f)
    BY ScanStep
  <2> QED
    BY <1>1, <1>3, <2>2, <2>3
<1> QED
  BY <1>2, <1>3

(* Only a quote that no backslash takes ends a string. *)
LEMMA StringEnds ==
    ASSUME NEW f \in Int, NEW st \in {Outside(f), Inside(f), Escaping(f)}, NEW c \in Chars,
           st.inStr, ~ scan(st, c).inStr
    PROVE  st = Inside(f) /\ c = "quote" /\ scan(st, c) = Outside(f)
<1>1. ~ Outside(f).inStr /\ Inside(f).inStr /\ Escaping(f).inStr
  BY StatesDiffer
<1>2. scan(Escaping(f), c) = Inside(f)
  BY ScanStep
<1>3. st = Inside(f)
  BY <1>1, <1>2
<1>4. c = "quote" \/ scan(Inside(f), c) \in {Inside(f), Escaping(f)}
  <2>1. \/ c = "quote" \/ c = "backslash" \/ c \in Chars \ {"quote", "backslash"}
    OBVIOUS
  <2> QED
    BY <2>1, ScanStep
<1>5. c = "quote"
  BY <1>1, <1>3, <1>4
<1> QED
  BY <1>3, <1>5, ScanStep

-----------------------------------------------------------------------------
(* Inside a string: the loop is back in the string, where it was, after    *)
(* exactly the texts that can be a string's body.                          *)
StringKept(t, i, j, d) ==
    scanned(t)[j] = Inside(d) /\ \A k \in i..j : scanned(t)[k].depth = d

(* A string's body leaves the loop in the string, and at the same depth    *)
(* all through it.                                                         *)
LEMMA StringIsScanned ==
    ASSUME NEW t \in Seq(Chars), Len(t) <= MaxLength
    PROVE  \A n \in Nat, i \in Nat, d \in Int :
               i + n <= Len(t) /\ InString(t, i, i + n) /\ scanned(t)[i] = Inside(d)
                   => StringKept(t, i, i + n, d)
<1> DEFINE A == scanned(t)
           Fine(n) == \A i \in Nat, d \in Int :
               i + n <= Len(t) /\ InString(t, i, i + n) /\ A[i] = Inside(d)
                   => StringKept(t, i, i + n, d)
           Bad == {n \in Nat : ~ Fine(n)}
<1> SUFFICES ASSUME Bad # {} PROVE FALSE
  OBVIOUS
<1>1. PICK n \in Bad : \A m \in Bad : n <= m
  <2> Bad \subseteq Nat
    OBVIOUS
  <2> HIDE DEF Bad
  <2> QED
    BY Least
<1>2. \A m \in Nat : m < n => Fine(m)
  BY <1>1
<1>3. ASSUME NEW i \in Nat, NEW d \in Int, i + n <= Len(t), InString(t, i, i + n), A[i] = Inside(d)
      PROVE  StringKept(t, i, i + n, d)
  <2> DEFINE j == i + n
  <2>0. n \in Nat /\ j \in Nat /\ i <= j /\ j <= Len(t) /\ Len(t) \in Nat
    BY <1>1, <1>3, LenProperties
  <2>1. \/ i = j
        \/ i < j /\ t[i + 1] \in Chars \ {"quote", "backslash"} /\ InString(t, i + 1, j)
        \/ i + 2 <= j /\ t[i + 1] = "backslash" /\ InString(t, i + 2, j)
    <3> HIDE DEF j
    <3>1. InString(t, i, j)
      BY <1>3 DEF j
    <3> QED
      BY <2>0, <3>1, StringRule
  <2>2. A[i].depth = d
    BY <1>3, StatesDiffer
  <2>3. CASE i = j
    BY <1>3, <2>2, <2>3 DEF StringKept
  <2>4. CASE i < j /\ t[i + 1] \in Chars \ {"quote", "backslash"} /\ InString(t, i + 1, j)
    <3>1. A[i + 1] = scan(A[i], t[i + 1])
      BY <2>0, <2>4, ScannedSteps
    <3>2. A[i + 1] = Inside(d)
      BY <1>3, <2>4, <3>1, ScanStep
    <3>3. n - 1 \in Nat /\ n - 1 < n /\ i + 1 \in Nat /\ (i + 1) + (n - 1) = j
      BY <2>0, <2>4
    <3>4. StringKept(t, i + 1, j, d)
      <4> HIDE DEF j
      <4>1. Fine(n - 1)
        BY <1>2, <3>3
      <4> QED
        BY <2>0, <2>4, <3>2, <3>3, <4>1
    <3>5. \A k \in i..j : k = i \/ k \in (i + 1)..j
      BY <2>0
    <3> QED
      BY <2>2, <3>4, <3>5 DEF StringKept
  <2>5. CASE i + 2 <= j /\ t[i + 1] = "backslash" /\ InString(t, i + 2, j)
    <3> DEFINE x == i + 1
    <3>0. x \in Nat /\ i < Len(t) /\ x < Len(t) /\ x + 1 = i + 2
      BY <2>0, <2>5
    <3>1. A[x] = scan(A[i], t[x])
      BY <3>0, ScannedSteps
    <3>2. A[x] = Escaping(d)
      BY <1>3, <2>5, <3>1, ScanStep
    <3>3. A[x + 1] = scan(A[x], t[x + 1]) /\ t[x + 1] \in Chars
      <4> HIDE DEF x
      <4> QED
        BY <3>0, ScannedSteps
    <3>4. A[x + 1] = Inside(d)
      BY <3>2, <3>3, ScanStep
    <3>5. n - 2 \in Nat /\ n - 2 < n /\ i + 2 \in Nat /\ (i + 2) + (n - 2) = j
      BY <2>0, <2>5
    <3>6. StringKept(t, i + 2, j, d)
      <4>1. A[i + 2] = Inside(d)
        BY <3>0, <3>4
      <4> HIDE DEF j, x
      <4>2. Fine(n - 2)
        BY <1>2, <3>5
      <4> QED
        BY <2>0, <2>5, <3>5, <4>1, <4>2
    <3>7. \A k \in i..j : k = i \/ k = i + 1 \/ k \in (i + 2)..j
      BY <2>0
    <3>8. A[i + 1].depth = d
      BY <3>2, StatesDiffer
    <3> QED
      BY <2>2, <3>6, <3>7, <3>8 DEF StringKept
  <2> QED
    BY <2>1, <2>3, <2>4, <2>5
<1> QED
  BY <1>1, <1>3

(* The loop is in a string all the way from i to j. *)
StaysInString(t, i, j) == \A k \in i..j : scanned(t)[k].inStr

(* And what keeps the loop in a string, with no escape open at the end, is *)
(* a string's body.                                                        *)
LEMMA ScannedIsString ==
    ASSUME NEW t \in Seq(Chars), Len(t) <= MaxLength
    PROVE  \A n \in Nat, i \in Nat, d \in Int, e \in Int :
               i + n <= Len(t) /\ scanned(t)[i] = Inside(d) /\ scanned(t)[i + n] = Inside(e) /\ StaysInString(t, i, i + n)
                   => InString(t, i, i + n)
<1> DEFINE A == scanned(t)
           Fine(n) == \A i \in Nat, d \in Int, e \in Int :
               i + n <= Len(t) /\ A[i] = Inside(d) /\ A[i + n] = Inside(e) /\ StaysInString(t, i, i + n)
                   => InString(t, i, i + n)
           Bad == {n \in Nat : ~ Fine(n)}
<1> SUFFICES ASSUME Bad # {} PROVE FALSE
  OBVIOUS
<1>1. PICK n \in Bad : \A m \in Bad : n <= m
  <2> Bad \subseteq Nat
    OBVIOUS
  <2> HIDE DEF Bad
  <2> QED
    BY Least
<1>2. \A m \in Nat : m < n => Fine(m)
  BY <1>1
<1>3. ASSUME NEW i \in Nat, NEW d \in Int, NEW e \in Int,
             i + n <= Len(t), A[i] = Inside(d), A[i + n] = Inside(e),
             StaysInString(t, i, i + n)
      PROVE  InString(t, i, i + n)
  <2> DEFINE j == i + n
  <2>0. n \in Nat /\ j \in Nat /\ i <= j /\ j <= Len(t) /\ Len(t) \in Nat
    BY <1>1, <1>3, LenProperties
  <2>1. InString(t, i, j) <=>
        \/ i = j
        \/ i < j /\ t[i + 1] \in Chars \ {"quote", "backslash"} /\ InString(t, i + 1, j)
        \/ i + 2 <= j /\ t[i + 1] = "backslash" /\ InString(t, i + 2, j)
    <3> HIDE DEF j
    <3> QED
      BY <2>0, StringRule
  <2>4. \A k \in i..j : A[k].inStr
    BY <1>3 DEF StaysInString
  <2>2. CASE i = j
    BY <2>1, <2>2
  <2>3. ASSUME i < j PROVE InString(t, i, j)
    <3> DEFINE x == i + 1
    <3>1. x \in Nat /\ x <= j /\ i < Len(t) /\ x \in i..j
      BY <2>0, <2>3
    <3>2. A[x] = scan(A[i], t[x]) /\ t[x] \in Chars
      BY <3>1, ScannedSteps
    <3>3. CASE t[x] = "quote"
      <4>1. A[x] = Outside(d)
        BY <1>3, <3>2, <3>3, ScanStep
      <4>2. ~ A[x].inStr
        BY <4>1, StatesDiffer
      <4> QED
        BY <2>4, <3>1, <4>2
    <3>4. CASE t[x] = "backslash"
      <4>1. A[x] = Escaping(d)
        BY <1>3, <3>2, <3>4, ScanStep
      <4>2. x # j
        <5>1. A[j] = Inside(e)
          BY <1>3
        <5> HIDE DEF A, x, j
        <5>2. Inside(e) # Escaping(d)
          BY StatesDiffer
        <5> QED
          BY <4>1, <5>1, <5>2
      <4> DEFINE y == i + 2
      <4>3. y \in Nat /\ y <= j /\ x < Len(t) /\ y = x + 1 /\ n - 2 \in Nat /\ n - 2 < n
            /\ y + (n - 2) = j /\ y..j \subseteq i..j
        BY <2>0, <3>1, <4>2
      <4>4. A[y] = scan(A[x], t[y]) /\ t[y] \in Chars
        <5> HIDE DEF x, y
        <5> QED
          BY <3>1, <4>3, ScannedSteps
      <4>5. A[y] = Inside(d)
        <5> HIDE DEF x, y
        <5> QED
          BY <4>1, <4>4, ScanStep
      <4>6. Fine(n - 2)
        BY <1>2, <4>3
      <4>7. StaysInString(t, y, j)
        BY <2>4, <4>3 DEF StaysInString
      <4>8. InString(t, y, j)
        <5>1. A[j] = Inside(e) /\ y + (n - 2) <= Len(t)
          BY <1>3, <2>0, <4>3
        <5> HIDE DEF y, j
        <5> QED
          BY <4>3, <4>5, <4>6, <4>7, <5>1
      <4> QED
        BY <2>1, <3>4, <4>3, <4>8
    <3>5. CASE t[x] \in Chars \ {"quote", "backslash"}
      <4>1. A[x] = Inside(d)
        <5>1. A[i] = Inside(d)
          BY <1>3
        <5> HIDE DEF x
        <5> QED
          BY <3>2, <3>5, <5>1, ScanStep
      <4>2. n - 1 \in Nat /\ n - 1 < n /\ x + (n - 1) = j /\ x..j \subseteq i..j
        BY <2>0, <2>3, <3>1
      <4>3. Fine(n - 1)
        BY <1>2, <4>2
      <4>4. StaysInString(t, x, j)
        BY <2>4, <4>2 DEF StaysInString
      <4>5. InString(t, x, j)
        <5>1. A[j] = Inside(e) /\ x + (n - 1) <= Len(t)
          BY <1>3, <2>0, <4>2
        <5> HIDE DEF x, j
        <5> QED
          BY <3>1, <4>1, <4>2, <4>3, <4>4, <5>1
      <4> QED
        BY <2>1, <2>3, <3>5, <4>5
    <3> QED
      BY <3>2, <3>3, <3>4, <3>5
  <2> QED
    BY <2>0, <2>2, <2>3
<1> QED
  BY <1>1, <1>3

-----------------------------------------------------------------------------
(* Outside of strings: the loop is back at the depth it was at, and has    *)
(* never been above it, after exactly the texts that can stand between two *)
(* braces.                                                                 *)
NeverAbove(t, i, j, d) == \A k \in i..j : scanned(t)[k].depth >= d

ContentKept(t, i, j, d) == scanned(t)[j] = Outside(d) /\ NeverAbove(t, i, j, d)

(* Two such texts in a row, and one that begins a character earlier. *)
LEMMA KeptTogether ==
    ASSUME NEW t, NEW i \in Nat, NEW k \in Nat, NEW j \in Nat, NEW d \in Int, i <= k, k <= j,
           NeverAbove(t, i, k, d), ContentKept(t, k, j, d)
    PROVE  ContentKept(t, i, j, d)
<1>1. \A x \in i..j : x \in i..k \/ x \in k..j
  OBVIOUS
<1> QED
  BY <1>1 DEF ContentKept, NeverAbove

(* An object's content brings the loop back to where it was, and never to  *)
(* a lesser depth.                                                         *)
LEMMA ContentIsScanned ==
    ASSUME NEW t \in Seq(Chars), Len(t) <= MaxLength
    PROVE  \A n \in Nat, i \in Nat, d \in Int :
               i + n <= Len(t) /\ InContent(t, i, i + n) /\ scanned(t)[i] = Outside(d)
                   => ContentKept(t, i, i + n, d)
<1> DEFINE A == scanned(t)
           Fine(n) == \A i \in Nat, d \in Int :
               i + n <= Len(t) /\ InContent(t, i, i + n) /\ A[i] = Outside(d)
                   => ContentKept(t, i, i + n, d)
           Bad == {n \in Nat : ~ Fine(n)}
<1> SUFFICES ASSUME Bad # {} PROVE FALSE
  OBVIOUS
<1>1. PICK n \in Bad : \A m \in Bad : n <= m
  <2> Bad \subseteq Nat
    OBVIOUS
  <2> HIDE DEF Bad
  <2> QED
    BY Least
<1>2. \A m \in Nat : m < n => Fine(m)
  BY <1>1
<1>3. ASSUME NEW i \in Nat, NEW d \in Int, i + n <= Len(t), InContent(t, i, i + n), A[i] = Outside(d)
      PROVE  ContentKept(t, i, i + n, d)
  <2> DEFINE j == i + n
             x == i + 1
  <2>0. n \in Nat /\ j \in Nat /\ i <= j /\ j <= Len(t) /\ Len(t) \in Nat /\ x \in Nat
    BY <1>1, <1>3, LenProperties
  <2>1. \/ i = j
        \/ i < j /\ t[x] \in {"backslash", "other"} /\ InContent(t, x, j)
        \/ \E k \in (i + 2)..j :
               /\ InContent(t, k, j)
               /\ \/ t[x] = "open" /\ InContent(t, x, k - 1) /\ t[k] = "close"
                  \/ t[x] = "quote" /\ InString(t, x, k - 1) /\ t[k] = "quote"
    <3> HIDE DEF j
    <3>1. InContent(t, i, j)
      BY <1>3 DEF j
    <3> QED
      BY <2>0, <3>1, ContentRule
  <2>2. A[i].depth = d
    BY <1>3, StatesDiffer
  <2>3. i < j => A[x] = scan(A[i], t[x])
    BY <2>0, ScannedSteps
  \* A text after this one is a shorter one.
  <2>4. ASSUME NEW k \in Nat, i < k, k <= j, InContent(t, k, j), A[k] = Outside(d)
        PROVE  ContentKept(t, k, j, d)
    <3> DEFINE m == j - k
    <3>1. m \in Nat /\ m < n /\ k + m = j
      BY <2>0, <2>4
    <3> HIDE DEF j, m
    <3>2. Fine(m)
      BY <1>2, <3>1
    <3> QED
      BY <2>0, <2>4, <3>1, <3>2
  <2>5. CASE i = j
    <3> \A k \in i..j : k = i
      BY <2>5
    <3> QED
      BY <1>3, <2>2, <2>5 DEF ContentKept, NeverAbove
  <2>6. CASE i < j /\ t[x] \in {"backslash", "other"} /\ InContent(t, x, j)
    <3>1. A[x] = Outside(d)
      <4> HIDE DEF x, A
      <4>1. A[i] = Outside(d)
        BY <1>3 DEF A
      <4> QED
        BY <2>3, <2>6, <4>1, ScanStep
    <3>2. A[x].depth = d
      BY <3>1, StatesDiffer
    <3>3. i < x /\ x <= j /\ i <= x /\ \A k \in i..x : k = i \/ k = x
      BY <2>0, <2>6
    <3>4. ContentKept(t, x, j, d)
      <4> HIDE DEF x, j, A
      <4> QED
        BY <2>0, <2>4, <2>6, <3>1, <3>3
    <3>5. NeverAbove(t, i, x, d)
      BY <2>2, <3>2, <3>3 DEF NeverAbove
    <3> QED
      <4> HIDE DEF x, j
      <4>1. ContentKept(t, i, j, d)
        BY <2>0, <3>3, <3>4, <3>5, KeptTogether
      <4> QED
        BY <4>1 DEF j
  <2>7. ASSUME NEW k \in (i + 2)..j, InContent(t, k, j),
               \/ t[x] = "open" /\ InContent(t, x, k - 1) /\ t[k] = "close"
               \/ t[x] = "quote" /\ InString(t, x, k - 1) /\ t[k] = "quote"
        PROVE  ContentKept(t, i, j, d)
    <3> DEFINE y == k - 1
               m == y - x
    <3>1. /\ k \in Nat /\ y \in Nat /\ m \in Nat /\ x + m = y /\ m < n /\ y + 1 = k
          /\ i < j /\ i < k /\ k <= j /\ i <= k /\ y < Len(t) /\ y <= Len(t)
          /\ \A z \in i..k : z = i \/ z = k \/ z \in x..y
      BY <2>0, <2>7
    <3>2. A[k] = scan(A[y], t[k])
      <4>1. A[y + 1] = scan(A[y], t[y + 1])
        <5> HIDE DEF y
        <5> QED
          BY <3>1, ScannedSteps
      <4> QED
        BY <3>1, <4>1
    <3>3. A[k] = Outside(d) /\ \A z \in x..y : A[z].depth >= d
      <4>1. CASE t[x] = "open" /\ InContent(t, x, y) /\ t[k] = "close"
        <5> DEFINE e == d + 1
        <5>0. e \in Int /\ e - 1 = d /\ \A z \in Int : z >= e => z >= d
          OBVIOUS
        <5>1. A[x] = Outside(e)
          <6>1. A[i] = Outside(d)
            BY <1>3
          <6> HIDE DEF x, A
          <6> QED
            BY <2>3, <3>1, <4>1, <6>1, ScanStep
        <5>2. ContentKept(t, x, y, e)
          <6>1. Fine(m)
            BY <1>2, <3>1
          <6> HIDE DEF x, y, m, e, A
          <6> QED
            BY <2>0, <3>1, <4>1, <5>0, <5>1, <6>1 DEF A
        <5>3. A[y] = Outside(e)
          BY <5>2 DEF ContentKept
        <5>4. A[k] = Outside(d)
          <6> HIDE DEF y, e, A
          <6> QED
            BY <3>2, <4>1, <5>0, <5>3, ScanStep
        <5>5. ASSUME NEW z \in x..y PROVE A[z].depth >= d
          <6>1. A[z].depth >= e
            BY <5>2 DEF ContentKept, NeverAbove
          <6>2. A[z].depth \in Int
            BY <2>0, <3>1, ScannedDepth
          <6> QED
            BY <6>1, <6>2
        <5> QED
          BY <5>4, <5>5
      <4>2. CASE t[x] = "quote" /\ InString(t, x, y) /\ t[k] = "quote"
        <5>1. A[x] = Inside(d)
          <6>1. A[i] = Outside(d)
            BY <1>3
          <6> HIDE DEF x, A
          <6> QED
            BY <2>3, <3>1, <4>2, <6>1, ScanStep
        <5>2. StringKept(t, x, y, d)
          <6> HIDE DEF x, y, m
          <6> QED
            BY <2>0, <3>1, <4>2, <5>1, StringIsScanned
        <5>3. A[y] = Inside(d) /\ \A z \in x..y : A[z].depth = d
          BY <5>2 DEF StringKept
        <5>4. A[k] = Outside(d)
          <6> HIDE DEF y, A
          <6> QED
            BY <3>2, <4>2, <5>3, ScanStep
        <5> QED
          BY <5>3, <5>4
      <4> QED
        BY <2>7, <4>1, <4>2
    <3>4. A[k].depth = d
      BY <3>3, StatesDiffer
    <3>5. NeverAbove(t, i, k, d)
      BY <2>2, <3>1, <3>3, <3>4 DEF NeverAbove
    <3>6. ContentKept(t, k, j, d)
      <4> HIDE DEF j, A
      <4> QED
        BY <2>4, <2>7, <3>1, <3>3
    <3> QED
      <4> HIDE DEF j
      <4> QED
        BY <2>0, <3>1, <3>5, <3>6, KeptTogether
  <2> QED
    BY <2>1, <2>5, <2>6, <2>7
<1> QED
  BY <1>1, <1>3

(* And what brings the loop back to where it was, and never to a lesser    *)
(* depth, is an object's content: an opening brace in it is closed where   *)
(* the depth first is what it was, and a string in it ends where the loop  *)
(* first leaves it.                                                        *)
LEMMA ScannedIsContent ==
    ASSUME NEW t \in Seq(Chars), Len(t) <= MaxLength
    PROVE  \A n \in Nat, i \in Nat, d \in Int :
               i + n <= Len(t) /\ scanned(t)[i] = Outside(d) /\ ContentKept(t, i, i + n, d)
                   => InContent(t, i, i + n)
<1> DEFINE A == scanned(t)
           Fine(n) == \A i \in Nat, d \in Int :
               i + n <= Len(t) /\ A[i] = Outside(d) /\ ContentKept(t, i, i + n, d)
                   => InContent(t, i, i + n)
           Bad == {n \in Nat : ~ Fine(n)}
<1> SUFFICES ASSUME Bad # {} PROVE FALSE
  OBVIOUS
<1>1. PICK n \in Bad : \A m \in Bad : n <= m
  <2> Bad \subseteq Nat
    OBVIOUS
  <2> HIDE DEF Bad
  <2> QED
    BY Least
<1>2. \A m \in Nat : m < n => Fine(m)
  BY <1>1
<1>3. ASSUME NEW i \in Nat, NEW d \in Int, i + n <= Len(t), A[i] = Outside(d), ContentKept(t, i, i + n, d)
      PROVE  InContent(t, i, i + n)
  <2> DEFINE j == i + n
             x == i + 1
  <2>0. n \in Nat /\ j \in Nat /\ i <= j /\ j <= Len(t) /\ Len(t) \in Nat /\ x \in Nat
    BY <1>1, <1>3, LenProperties
  <2>1. InContent(t, i, j) <=>
        \/ i = j
        \/ i < j /\ t[x] \in {"backslash", "other"} /\ InContent(t, x, j)
        \/ \E k \in (i + 2)..j :
               /\ InContent(t, k, j)
               /\ \/ t[x] = "open" /\ InContent(t, x, k - 1) /\ t[k] = "close"
                  \/ t[x] = "quote" /\ InString(t, x, k - 1) /\ t[k] = "quote"
    <3> HIDE DEF j
    <3> QED
      BY <2>0, ContentRule
  <2>2. A[j] = Outside(d) /\ \A k \in i..j : A[k].depth >= d
    BY <1>3 DEF ContentKept, NeverAbove
  <2>3. \A k \in Nat : k <= j => A[k].depth \in Int
    BY <2>0, ScannedDepth
  <2>4. CASE i = j
    BY <2>1, <2>4
  <2>5. ASSUME i < j PROVE InContent(t, i, j)
    <3>1. A[x] = scan(A[i], t[x]) /\ t[x] \in Chars
      BY <2>0, <2>5, ScannedSteps
    <3>2. A[i] = Outside(d)
      BY <1>3
    <3>3. x <= j /\ x \in i..j
      BY <2>0, <2>5
    \* What follows a character at the same depth is a shorter such text.
    <3>4. ASSUME NEW k \in Nat, i < k, k <= j, A[k] = Outside(d)
          PROVE  InContent(t, k, j)
      <4> DEFINE m == j - k
      <4>1. m \in Nat /\ m < n /\ k + m = j /\ k..j \subseteq i..j
        BY <2>0, <3>4
      <4>2. ContentKept(t, k, j, d)
        BY <2>2, <4>1 DEF ContentKept, NeverAbove
      <4>3. Fine(m)
        BY <1>2, <4>1
      <4> HIDE DEF j, m
      <4> QED
        BY <2>0, <3>4, <4>1, <4>2, <4>3
    <3>5. t[x] # "close"
      <4> SUFFICES ASSUME t[x] = "close" PROVE FALSE
        OBVIOUS
      <4>1. A[x] = Outside(d - 1)
        <5> HIDE DEF x, A
        <5> QED
          BY <3>1, <3>2, ScanStep
      <4>2. A[x].depth = d - 1
        BY <4>1, StatesDiffer
      <4> QED
        BY <2>2, <3>3, <4>2
    <3>6. CASE t[x] \in {"backslash", "other"}
      <4>1. A[x] = Outside(d)
        <5> HIDE DEF x, A
        <5> QED
          BY <3>1, <3>2, <3>6, ScanStep
      <4>2. InContent(t, x, j)
        <5> i < x
          OBVIOUS
        <5> HIDE DEF x, j, A
        <5> QED
          BY <2>0, <3>3, <3>4, <4>1
      <4> QED
        BY <2>1, <2>5, <3>6, <4>2
    <3>7. CASE t[x] = "open"
      <4> DEFINE e == d + 1
                 T == {k \in x..j : A[k].depth <= d}
      <4>0. e \in Int /\ e - 1 = d
        OBVIOUS
      <4>1. A[x] = Outside(e)
        <5> HIDE DEF x, A
        <5> QED
          BY <3>1, <3>2, <3>7, ScanStep
      <4>2. A[x].depth = e
        BY <4>1, StatesDiffer
      <4>3. A[j].depth = d
        BY <2>2, StatesDiffer
      <4>4. j \in T /\ x \notin T
        BY <2>0, <3>3, <4>2, <4>3
      <4>5. PICK k \in T : \A z \in T : k <= z
        <5> T \subseteq Nat /\ T # {}
          BY <2>0, <4>4
        <5> HIDE DEF T
        <5> QED
          BY Least
      <4> DEFINE y == k - 1
                 m == y - x
      <4>6. /\ k \in Nat /\ k \in (i + 2)..j /\ k \in i..j /\ i < k /\ k <= j
            /\ y \in Nat /\ x <= y /\ y < Len(t) /\ y <= Len(t) /\ y + 1 = k
            /\ m \in Nat /\ m < n /\ x + m = y
            /\ \A z \in x..y : z \in Nat /\ z <= j /\ z \notin T
        BY <2>0, <4>4, <4>5
      <4>7. A[k].depth = d
        <5>1. A[k].depth >= d
          BY <2>2, <4>6
        <5>2. A[k].depth <= d
          BY <4>5
        <5>3. A[k].depth \in Int
          BY <2>3, <4>6
        <5> QED
          BY <5>1, <5>2, <5>3
      <4>8. \A z \in x..y : A[z].depth >= e
        BY <2>3, <4>6
      <4>9. A[k] = scan(A[y], t[k]) /\ t[k] \in Chars
        <5>1. A[y + 1] = scan(A[y], t[y + 1]) /\ t[y + 1] \in Chars
          <6> HIDE DEF y, m, T
          <6> QED
            BY <4>6, ScannedSteps
        <5> QED
          BY <4>6, <5>1
      <4>10. A[y] = Outside(e) /\ t[k] = "close" /\ A[k] = Outside(d)
        <5>1. PICK f \in Int : A[y] \in {Outside(f), Inside(f), Escaping(f)}
          <6> HIDE DEF y, m, T
          <6> QED
            BY <4>6, ScannedStates
        <5>2. A[y].depth = f
          BY <5>1, StatesDiffer
        <5>3. f >= e
          <6>1. y \in x..y
            BY <4>6
          <6> QED
            BY <4>8, <5>2, <6>1
        <5>4. A[y] = Outside(f) /\ t[k] = "close" /\ A[k] = Outside(f - 1)
          <6>1. A[k].depth < f
            BY <4>7, <5>3
          <6> HIDE DEF y, A, e, T
          <6> QED
            BY <4>9, <5>1, <6>1, DepthFalls
        <5>5. f - 1 = d
          <6>1. Outside(f - 1).depth = f - 1
            BY StatesDiffer
          <6> QED
            BY <4>7, <5>4, <6>1
        <5>6. f = e
          BY <5>5
        <5> QED
          BY <5>4, <5>5, <5>6
      <4>11. InContent(t, x, y)
        <5>1. ContentKept(t, x, y, e)
          BY <4>8, <4>10 DEF ContentKept, NeverAbove
        <5>2. Fine(m)
          BY <1>2, <4>6
        <5> HIDE DEF x, y, m, e, T
        <5> QED
          BY <2>0, <4>0, <4>1, <4>6, <5>1, <5>2
      <4>12. InContent(t, k, j)
        <5> HIDE DEF j, A, T, y, m
        <5> QED
          BY <3>4, <4>6, <4>10
      <4> QED
        BY <2>1, <3>7, <4>6, <4>10, <4>11, <4>12
    <3>8. CASE t[x] = "quote"
      <4> DEFINE T == {k \in x..j : ~ A[k].inStr}
      <4>1. A[x] = Inside(d)
        <5> HIDE DEF x, A
        <5> QED
          BY <3>1, <3>2, <3>8, ScanStep
      <4>2. A[x].inStr
        BY <4>1, StatesDiffer
      <4>3. ~ A[j].inStr
        BY <2>2, StatesDiffer
      <4>4. j \in T /\ x \notin T
        BY <2>0, <3>3, <4>2, <4>3
      <4>5. PICK k \in T : \A z \in T : k <= z
        <5> T \subseteq Nat /\ T # {}
          BY <2>0, <4>4
        <5> HIDE DEF T
        <5> QED
          BY Least
      <4> DEFINE y == k - 1
                 m == y - x
      <4>6. /\ k \in Nat /\ k \in (i + 2)..j /\ k \in i..j /\ i < k /\ k <= j
            /\ y \in Nat /\ x <= y /\ y < Len(t) /\ y <= Len(t) /\ y + 1 = k
            /\ m \in Nat /\ x + m = y
            /\ \A z \in x..y : z \in Nat /\ z <= j /\ z \notin T
        BY <2>0, <4>4, <4>5
      <4>7. \A z \in x..y : A[z].inStr
        BY <2>0, <4>6
      <4>8. A[k] = scan(A[y], t[k]) /\ t[k] \in Chars
        <5>1. A[y + 1] = scan(A[y], t[y + 1]) /\ t[y + 1] \in Chars
          <6> HIDE DEF y, m, T
          <6> QED
            BY <4>6, ScannedSteps
        <5> QED
          BY <4>6, <5>1
      <4>9. PICK f \in Int : A[y] \in {Outside(f), Inside(f), Escaping(f)}
        <5> HIDE DEF y, m, T
        <5> QED
          BY <4>6, ScannedStates
      <4>10. A[y] = Inside(f) /\ t[k] = "quote" /\ A[k] = Outside(f)
        <5>1. A[y].inStr
          <6> y \in x..y
            BY <4>6
          <6> QED
            BY <4>7
        <5>2. ~ A[k].inStr
          BY <4>5
        <5> HIDE DEF y, A, T
        <5> QED
          BY <4>8, <4>9, <5>1, <5>2, StringEnds
      <4>11. InString(t, x, y)
        <5>1. StaysInString(t, x, y)
          BY <4>7 DEF StaysInString
        <5> HIDE DEF x, y, m, T
        <5> QED
          BY <2>0, <4>1, <4>6, <4>10, <5>1, ScannedIsString
      <4>12. f = d
        <5>1. StringKept(t, x, y, d)
          <6> HIDE DEF x, y, m, T
          <6> QED
            BY <2>0, <4>1, <4>6, <4>11, StringIsScanned
        <5>2. A[y] = Inside(d)
          BY <5>1 DEF StringKept
        <5> QED
          BY <4>10, <5>2, StatesDiffer
      <4>13. InContent(t, k, j)
        <5> HIDE DEF j, A, T, y, m
        <5> QED
          BY <3>4, <4>6, <4>10, <4>12
      <4> QED
        BY <2>1, <3>8, <4>6, <4>10, <4>11, <4>13
    <3> QED
      BY <3>1, <3>5, <3>6, <3>7, <3>8 DEF Chars
  <2> QED
    BY <2>0, <2>4, <2>5
<1> QED
  BY <1>1, <1>3

-----------------------------------------------------------------------------
(* The text extractJsonObject reads begins with a brace.                   *)
FirstZero(t, n) ==
    scanned(t)[n].depth = 0 /\ \A k \in 1..(n - 1) : scanned(t)[k].depth # 0

(* After the first brace the loop is at depth one. *)
LEMMA FirstBrace ==
    ASSUME NEW t \in Seq(Chars), Len(t) > 0, t[1] = "open"
    PROVE  scanned(t)[1] = Outside(1)
<1> DEFINE z == 0
<1>1. z \in Nat /\ z < Len(t) /\ z + 1 = 1 /\ z \in Int
  BY LenProperties
<1>2. scanned(t)[z] = Outside(z)
  BY ScannedSteps
<1>3. scanned(t)[z + 1] = scan(scanned(t)[z], t[z + 1])
  <2> HIDE DEF z
  <2> QED
    BY <1>1, ScannedSteps
<1>4. scan(Outside(z), "open") = Outside(z + 1)
  <2> HIDE DEF z
  <2> QED
    BY <1>1, ScanStep
<1> QED
  BY <1>1, <1>2, <1>3, <1>4

(* Before its depth is zero for the first time it is at least one. *)
LEMMA NotYetZero ==
    ASSUME NEW t \in Seq(Chars), NEW n \in Nat, 0 < n, n <= Len(t), t[1] = "open",
           \A k \in 1..(n - 1) : scanned(t)[k].depth # 0
    PROVE  \A k \in 1..(n - 1) : scanned(t)[k].depth >= 1
<1> DEFINE A == scanned(t)
           T == {k \in 1..(n - 1) : ~ (A[k].depth >= 1)}
<1> SUFFICES ASSUME T # {} PROVE FALSE
  OBVIOUS
<1>1. PICK k \in T : \A x \in T : k <= x
  <2> T \subseteq Nat
    OBVIOUS
  <2> HIDE DEF T
  <2> QED
    BY Least
<1>2. k # 1
  <2>1. A[1] = Outside(1)
    <3> Len(t) > 0
      BY LenProperties
    <3> QED
      BY FirstBrace
  <2>2. A[1].depth = 1
    BY <2>1, StatesDiffer
  <2> QED
    BY <1>1, <2>2
<1> DEFINE y == k - 1
<1>3. /\ k \in 1..(n - 1) /\ y \in Nat /\ y \in 1..(n - 1) /\ y < Len(t) /\ y <= Len(t)
      /\ y + 1 = k /\ k \in Nat /\ k <= Len(t) /\ y \notin T
  BY <1>1, <1>2, LenProperties
<1>4. A[y].depth >= 1
  BY <1>3
<1>5. PICK f \in Int : A[y] \in {Outside(f), Inside(f), Escaping(f)}
  <2> HIDE DEF y, T
  <2> QED
    BY <1>3, ScannedStates
<1>6. A[y].depth = f
  BY <1>5, StatesDiffer
<1>7. A[k] = scan(A[y], t[k]) /\ t[k] \in Chars
  <2>1. A[y + 1] = scan(A[y], t[y + 1]) /\ t[y + 1] \in Chars
    <3> HIDE DEF y, T
    <3> QED
      BY <1>3, ScannedSteps
  <2> QED
    BY <1>3, <2>1
<1>8. ~ (A[k].depth >= 1) /\ A[k].depth \in Int /\ A[k].depth # 0
  <2>1. A[k].depth \in Int
    <3> HIDE DEF T, y
    <3> QED
      BY <1>3, ScannedDepth
  <2> QED
    BY <1>1, <1>3, <2>1
<1>9. A[k] = Outside(f - 1)
  <2>1. A[k].depth < f
    BY <1>4, <1>6, <1>8
  <2> HIDE DEF A, T, y
  <2> QED
    BY <1>5, <1>7, <2>1, DepthFalls
<1>10. A[k].depth = f - 1
  BY <1>9, StatesDiffer
<1> QED
  BY <1>4, <1>6, <1>8, <1>10

(* The loop stops at the brace that closes the first one. *)
LEMMA StopsAtItsBrace ==
    ASSUME NEW t \in Seq(Chars), Len(t) <= MaxLength, NEW n \in Nat, 0 < n, n <= Len(t), t[1] = "open"
    PROVE  FirstZero(t, n) <=> n > 1 /\ t[n] = "close" /\ InContent(t, 1, n - 1)
<1> DEFINE A == scanned(t)
           y == n - 1
<1>0. Len(t) \in Nat /\ Len(t) > 0 /\ y \in Nat /\ y < Len(t) /\ y <= Len(t) /\ y + 1 = n /\ 1 \in Int /\ 1 \in Nat
  BY LenProperties
<1>1. A[1] = Outside(1)
  BY <1>0, FirstBrace
<1>2. A[1].depth = 1
  BY <1>1, StatesDiffer
<1>3. A[n] = scan(A[y], t[n]) /\ t[n] \in Chars
  <2>1. A[y + 1] = scan(A[y], t[y + 1]) /\ t[y + 1] \in Chars
    <3> HIDE DEF y
    <3> QED
      BY <1>0, ScannedSteps
  <2> QED
    BY <1>0, <2>1
<1>4. ASSUME n > 1, t[n] = "close", InContent(t, 1, n - 1)
      PROVE  FirstZero(t, n)
  <2> DEFINE m == y - 1
             one == 1
  <2>1. m \in Nat /\ one + m = y /\ one + m <= Len(t) /\ one \in Nat /\ one \in Int
    BY <1>0, <1>4
  <2>2. InContent(t, one, one + m) /\ A[one] = Outside(one)
    BY <1>1, <1>4, <2>1
  <2>3. ContentKept(t, one, one + m, one)
    <3> HIDE DEF m, one
    <3> QED
      BY <2>1, <2>2, ContentIsScanned
  <2>4. A[y] = Outside(1) /\ \A k \in 1..y : A[k].depth >= 1
    BY <2>1, <2>3 DEF ContentKept, NeverAbove
  <2>5. scan(Outside(1), "close") = Outside(1 - 1)
    BY <1>0, ScanStep
  <2>6. A[n].depth = 0
    <3>1. A[n] = Outside(1 - 1)
      BY <1>3, <1>4, <2>4, <2>5
    <3>2. Outside(1 - 1).depth = 1 - 1
      BY StatesDiffer
    <3> QED
      BY <3>1, <3>2
  <2>7. \A k \in 1..y : A[k].depth # 0
    BY <2>4
  <2> QED
    BY <2>6, <2>7 DEF FirstZero
<1>5. ASSUME FirstZero(t, n)
      PROVE  n > 1 /\ t[n] = "close" /\ InContent(t, 1, n - 1)
  <2>1. A[n].depth = 0 /\ \A k \in 1..(n - 1) : A[k].depth # 0
    BY <1>5 DEF FirstZero
  <2>2. n > 1
    BY <1>2, <2>1
  <2>3. \A k \in 1..(n - 1) : A[k].depth >= 1
    BY <2>1, NotYetZero
  <2>4. PICK f \in Int : A[y] \in {Outside(f), Inside(f), Escaping(f)}
    <3> HIDE DEF y
    <3> QED
      BY <1>0, ScannedStates
  <2>5. f >= 1
    <3>1. A[y].depth = f
      BY <2>4, StatesDiffer
    <3>2. y \in 1..(n - 1)
      BY <2>2
    <3> QED
      BY <2>3, <3>1, <3>2
  <2>6. A[y] = Outside(f) /\ t[n] = "close" /\ A[n] = Outside(f - 1)
    <3>1. A[n].depth < f
      BY <2>1, <2>5
    <3> HIDE DEF A, y
    <3> QED
      BY <1>3, <2>4, <3>1, DepthFalls
  <2>7. f = 1
    <3>1. Outside(f - 1).depth = f - 1
      BY StatesDiffer
    <3> QED
      BY <2>1, <2>6, <3>1
  <2> DEFINE m == y - 1
             one == 1
  <2>8. m \in Nat /\ one + m = y /\ one + m <= Len(t) /\ one \in Nat /\ one \in Int
    BY <1>0, <2>2
  <2>9. ContentKept(t, one, one + m, one) /\ A[one] = Outside(one)
    BY <1>1, <2>3, <2>6, <2>7, <2>8 DEF ContentKept, NeverAbove
  <2>10. InContent(t, one, one + m)
    <3> HIDE DEF m, one
    <3> QED
      BY <2>8, <2>9, ScannedIsContent
  <2> QED
    BY <2>2, <2>6, <2>8, <2>10
<1> QED
  BY <1>4, <1>5

(* What a text has up to its n-th character, and inside of that. *)
LEMMA PrefixIs ==
    ASSUME NEW t \in Seq(Chars), NEW n \in Nat, n <= Len(t)
    PROVE  /\ SubSeq(t, 1, n) \in Seq(Chars)
           /\ Len(SubSeq(t, 1, n)) = n
           /\ \A k \in 1..n : SubSeq(t, 1, n)[k] = t[k]
<1>1. Len(t) \in Nat
  BY LenProperties
<1>2. \A k \in 1..n : t[k] \in Chars
  BY <1>1, ElementOfSeq
<1>3. /\ SubSeq(t, 1, n) \in Seq(Chars)
      /\ Len(SubSeq(t, 1, n)) = IF 1 <= n THEN n - 1 + 1 ELSE 0
      /\ \A k \in 1..(n - 1 + 1) : SubSeq(t, 1, n)[k] = t[1 + k - 1]
  BY <1>2, SubSeqProperties
<1>4. \A k \in 1..n : k \in 1..(n - 1 + 1) /\ 1 + k - 1 = k
  OBVIOUS
<1> QED
  BY <1>3, <1>4

(* The text up to its n-th character is an object when that closes the     *)
(* first brace and what is between them is an object's content.            *)
LEMMA PrefixIsObject ==
    ASSUME NEW t \in Seq(Chars), NEW n \in Nat, 0 < n, n <= Len(t), t[1] = "open"
    PROVE  IsObject(SubSeq(t, 1, n)) <=> n > 1 /\ t[n] = "close" /\ InContent(t, 1, n - 1)
<1> DEFINE s == SubSeq(t, 1, n)
           a == SubSeq(s, 2, n - 1)
           b == Slice(t, 1, n - 1)
<1>0. Len(t) \in Nat
  BY LenProperties
<1>1. s \in Seq(Chars) /\ Len(s) = n /\ \A k \in 1..n : s[k] = t[k]
  BY PrefixIs
<1>2. s[1] = t[1] /\ s[n] = t[n]
  <2> 1 \in 1..n /\ n \in 1..n
    OBVIOUS
  <2> HIDE DEF s
  <2> QED
    BY <1>1
<1>3. ASSUME n > 1 PROVE a = b
  <2>1. \A k \in 2..(n - 1) : k \in 1..n /\ s[k] \in Chars
    <3>1. \A k \in 2..(n - 1) : k \in 1..n
      OBVIOUS
    <3> HIDE DEF s
    <3> QED
      BY <1>1, <3>1, ElementOfSeq
  <2>2. /\ a \in Seq(Chars)
        /\ Len(a) = IF 2 <= n - 1 THEN n - 1 - 2 + 1 ELSE 0
        /\ \A k \in 1..(n - 1 - 2 + 1) : a[k] = s[2 + k - 1]
    <3> HIDE DEF s
    <3> QED
      BY <2>1, SubSeqProperties
  <2> DEFINE one == 1
             y == n - 1
  <2>3. one \in Nat /\ y \in Nat /\ one <= y /\ y <= Len(t) /\ y - one = n - 2
    BY <1>0, <1>3
  <2>4. /\ Slice(t, one, y) \in Seq(Chars) /\ Len(Slice(t, one, y)) = y - one
        /\ \A k \in 1..(y - one) : Slice(t, one, y)[k] = t[one + k]
    <3> HIDE DEF one, y
    <3> QED
      BY <2>3, SliceType
  <2>5. b \in Seq(Chars) /\ Len(b) = n - 2 /\ \A k \in 1..(n - 2) : b[k] = t[1 + k]
    BY <2>3, <2>4
  <2>6. Len(a) = n - 2
    BY <1>3, <2>2
  <2>7. \A k \in 1..(n - 2) : k \in 1..(n - 1 - 2 + 1) /\ 2 + k - 1 = 1 + k /\ 1 + k \in 1..n
    OBVIOUS
  <2>8. ASSUME NEW k \in 1..(n - 2) PROVE a[k] = b[k]
    <3> HIDE DEF a, b, s
    <3> QED
      BY <1>1, <2>2, <2>5, <2>7
  <2> HIDE DEF a, b
  <2> QED
    BY <2>2, <2>5, <2>6, <2>8, SeqEqual
<1>4. IsObject(s) <=> n > 1 /\ s[1] = "open" /\ s[n] = "close" /\ a \in Content[n - 2]
  BY <1>1 DEF IsObject
<1>5. n - 1 - 1 = n - 2
  OBVIOUS
<1> HIDE DEF s, a
<1> QED
  BY <1>2, <1>3, <1>4, <1>5 DEF InContent, s

(* The texts up to the bound are the replies. *)
LEMMA TextsAreReplies ==
    \A s : s \in Replies <=> s \in Seq(Chars) /\ Len(s) <= MaxLength
<1> MaxLength \in Nat
  BY ClaudeAssumption
<1>1. ASSUME NEW s \in Seq(Chars), Len(s) <= MaxLength PROVE s \in Replies
  <2>1. Len(s) \in 0..MaxLength /\ s \in [1..Len(s) -> Chars]
    BY <1>1, LenProperties
  <2> QED
    BY <2>1 DEF Replies
<1>2. ASSUME NEW s \in Replies PROVE s \in Seq(Chars) /\ Len(s) <= MaxLength
  <2>1. PICK n \in 0..MaxLength : s \in [1..n -> Chars]
    BY DEF Replies
  <2>2. s \in Seq(Chars) /\ Len(s) = n
    BY <2>1
  <2> QED
    BY <2>2
<1> QED
  BY <1>1, <1>2

(* Every nonempty set of natural numbers has its minimum. *)
LEMMA MinIs ==
    ASSUME NEW T, T \subseteq Nat, T # {}
    PROVE  Min(T) \in T /\ \A y \in T : Min(T) <= y
<1> \E x \in T : \A y \in T : x <= y
  BY Least
<1> QED
  BY DEF Min

(* The text from its first brace on is a text, no longer, and begins with  *)
(* a brace.                                                                *)
LEMMA FromBrace ==
    ASSUME NEW text \in Seq(Chars), Len(text) <= MaxLength
    PROVE  /\ fromBrace(text) \in Seq(Chars)
           /\ Len(fromBrace(text)) <= MaxLength
           /\ Len(fromBrace(text)) > 0 => fromBrace(text)[1] = "open"
<1> DEFINE braces == {i \in DOMAIN text : text[i] = "open"}
           L == Len(text)
<1>0. L \in Nat /\ DOMAIN text = 1..L /\ MaxLength \in Nat
  BY LenProperties, ClaudeAssumption
<1>1. CASE braces = {}
  <2>1. fromBrace(text) = <<>>
    BY <1>1 DEF fromBrace
  <2> QED
    BY <1>0, <2>1
<1>2. CASE braces # {}
  <2> DEFINE m == Min(braces)
             s == SubSeq(text, m, L)
  <2>1. m \in braces
    <3> braces \subseteq Nat
      BY <1>0
    <3> HIDE DEF braces
    <3> QED
      BY <1>2, MinIs
  <2>2. m \in 1..L /\ text[m] = "open"
    BY <1>0, <2>1
  <2>3. fromBrace(text) = s
    BY <1>2 DEF fromBrace
  <2>4. \A i \in m..L : text[i] \in Chars
    <3> HIDE DEF m
    <3> QED
      BY <1>0, <2>2, ElementOfSeq
  <2>5. s \in Seq(Chars) /\ Len(s) = (IF m <= L THEN L - m + 1 ELSE 0)
        /\ \A i \in 1..(L - m + 1) : s[i] = text[m + i - 1]
    <3> m \in Int /\ L \in Int
      BY <1>0, <2>2
    <3> HIDE DEF m, L
    <3> QED
      BY <2>4, SubSeqProperties
  <2>6. Len(s) <= L /\ s[1] = text[m]
    <3>1. 1 \in 1..(L - m + 1) /\ m + 1 - 1 = m
      BY <1>0, <2>2
    <3> HIDE DEF s, m
    <3> QED
      BY <1>0, <2>2, <2>5, <3>1
  <2> HIDE DEF s, m
  <2> QED
    BY <1>0, <2>2, <2>3, <2>5, <2>6
<1> QED
  BY <1>1, <1>2

(* extractJsonObject finds the object that the grammar says there is, for  *)
(* every text no longer than the bound the grammar is written out for.     *)
LEMMA FoundObject ==
    ASSUME NEW text \in Seq(Chars), Len(text) <= MaxLength
    PROVE  LET t == fromBrace(text)
               found == extractJsonObject(text)
           IN  IF \E n \in DOMAIN t : IsObject(SubSeq(t, 1, n))
               THEN found # Null /\ IsObject(found) /\ IsPrefix(found, t)
               ELSE found = Null
<1> DEFINE t == fromBrace(text)
           found == extractJsonObject(text)
           ends == {i \in DOMAIN t : scanned(t)[i].depth = 0}
<1>1. t \in Seq(Chars) /\ Len(t) <= MaxLength /\ (Len(t) > 0 => t[1] = "open")
  BY FromBrace, Zenon
<1>2. Len(t) \in Nat /\ DOMAIN t = 1..Len(t)
  BY <1>1, LenProperties
<1>3. found = IF ends = {} THEN Null ELSE SubSeq(t, 1, Min(ends))
  BY DEF extractJsonObject
<1>4. ASSUME NEW n \in 1..Len(t)
      PROVE  IsObject(SubSeq(t, 1, n)) <=> FirstZero(t, n)
  <2>1. n \in Nat /\ 0 < n /\ n <= Len(t) /\ t[1] = "open"
    BY <1>1, <1>2
  <2> HIDE DEF t
  <2> QED
    BY <1>1, <2>1, PrefixIsObject, StopsAtItsBrace
<1> HIDE DEF t, found
<1>5. CASE ends = {}
  <2>1. ASSUME NEW n \in 1..Len(t) PROVE ~ FirstZero(t, n)
    BY <1>2, <1>5 DEF FirstZero
  <2> QED
    BY <1>2, <1>3, <1>4, <1>5, <2>1 DEF t, found
<1>6. CASE ends # {}
  <2> DEFINE n == Min(ends)
  <2>1. n \in ends /\ \A k \in ends : n <= k
    <3> ends \subseteq Nat
      BY <1>2
    <3> HIDE DEF ends
    <3> QED
      BY <1>6, MinIs
  <2>2. n \in 1..Len(t) /\ FirstZero(t, n)
    <3>1. n \in 1..Len(t) /\ scanned(t)[n].depth = 0
      BY <1>2, <2>1
    <3>2. \A k \in 1..(n - 1) : scanned(t)[k].depth # 0
      <4> HIDE DEF n
      <4> QED
        BY <1>2, <2>1, <3>1
    <3> QED
      BY <3>1, <3>2 DEF FirstZero
  <2>3. found = SubSeq(t, 1, n)
    BY <1>3, <1>6
  <2>4. IsObject(found)
    <3> HIDE DEF n
    <3> QED
      BY <1>4, <2>2, <2>3
  <2>5. found \in Seq(Chars) /\ Len(found) = n
    <3>1. n \in Nat /\ n <= Len(t)
      BY <1>2, <2>2
    <3> HIDE DEF n
    <3> QED
      BY <1>1, <2>3, <3>1, PrefixIs
  <2>6. IsPrefix(found, t)
    <3>1. SubSeq(found, 1, Len(found)) = found
      BY <2>5, SubSeqFull
    <3> HIDE DEF n
    <3> QED
      BY <1>2, <2>2, <2>3, <2>5, <3>1 DEF IsPrefix
  <2>7. found # Null
    <3>1. n \in Nat /\ n <= MaxLength
      BY <1>1, <1>2, <2>2, ClaudeAssumption
    <3> HIDE DEF n
    <3> QED
      BY <2>5, <3>1, TextsAreReplies, NullAssumption
  <2> HIDE DEF n
  <2> QED
    BY <1>2, <2>2, <2>3, <2>4, <2>6, <2>7 DEF t, found
<1> QED
  BY <1>5, <1>6

-----------------------------------------------------------------------------
(* What is asked and what comes back.                                      *)

(* The confidence that counts is a percentage, and one above a percentage  *)
(* was given as a number that is above it.                                 *)
LEMMA ClampsConfidence ==
    ASSUME NEW c \in Confidences \cup {NaN}
    PROVE  /\ clampConfidence(c) \in 0..100
           /\ \A low \in 0..100 : clampConfidence(c) > low => c # NaN /\ c > low
<1>1. CASE c = NaN
  BY <1>1 DEF clampConfidence
<1>2. CASE c # NaN
  <2> DEFINE least == Min({100, c})
             most == Max({0, least})
  <2>0. c \in Int /\ clampConfidence(c) = most
    BY <1>2, ClaudeAssumption DEF clampConfidence
  <2>1. least \in {100, c} /\ least <= 100 /\ least <= c
    <3>1. \E x \in {100, c} : \A y \in {100, c} : x <= y
      <4>1. CASE c <= 100
        BY <2>0, <4>1
      <4>2. CASE ~ (c <= 100)
        BY <2>0, <4>2
      <4> QED
        BY <4>1, <4>2
    <3>2. least \in {100, c} /\ \A y \in {100, c} : least <= y
      BY <3>1 DEF Min
    <3> QED
      BY <3>2
  <2>2. least \in Int
    BY <2>0, <2>1
  <2> HIDE DEF least
  <2>3. most \in {0, least} /\ most >= 0 /\ most >= least
    <3>1. \E x \in {0, least} : \A y \in {0, least} : x >= y
      <4>1. CASE least <= 0
        BY <2>2, <4>1
      <4>2. CASE ~ (least <= 0)
        BY <2>2, <4>2
      <4> QED
        BY <4>1, <4>2
    <3>2. most \in {0, least} /\ \A y \in {0, least} : most >= y
      BY <3>1 DEF Max
    <3> QED
      BY <3>2
  <2> HIDE DEF most
  <2>4. most \in 0..100
    BY <2>1, <2>2, <2>3
  <2>5. \A low \in 0..100 : most > low => c > low
    BY <2>0, <2>1, <2>2, <2>3
  <2> QED
    BY <1>2, <2>0, <2>4, <2>5
<1> QED
  BY <1>1, <1>2

(* Every reply comes to an extraction, and one that is sure of itself was  *)
(* read from an object that gives such a confidence.                       *)
LEMMA ParsesToExtraction ==
    ASSUME NEW obj \in Objects \cup {Null}
    PROVE  /\ parseExtraction(obj) \in Extractions
           /\ \A low \in 0..100 : parseExtraction(obj).confidence > low =>
                  obj # Null /\ obj.confidence # NaN /\ obj.confidence > low
<1>1. CASE obj = Null
  <2>1. parseExtraction(obj) = [confidence |-> 0, proposes |-> FALSE]
    BY <1>1 DEF parseExtraction, fallback
  <2>2. parseExtraction(obj).confidence = 0
    BY <2>1
  <2> QED
    BY <2>1, <2>2 DEF Extractions
<1>2. CASE obj # Null
  <2>1. obj.confidence \in Confidences \cup {NaN} /\ obj.proposes \in BOOLEAN
    BY <1>2 DEF Objects
  <2>2. parseExtraction(obj) = [confidence |-> clampConfidence(obj.confidence), proposes |-> obj.proposes]
    BY <1>2 DEF parseExtraction
  <2>3. parseExtraction(obj).confidence = clampConfidence(obj.confidence)
    BY <2>2
  <2>4. clampConfidence(obj.confidence) \in 0..100
    BY <2>1, ClampsConfidence
  <2>5. \A low \in 0..100 : clampConfidence(obj.confidence) > low => obj.confidence # NaN /\ obj.confidence > low
    BY <2>1, ClampsConfidence
  <2>6. parseExtraction(obj) \in Extractions
    BY <2>1, <2>2, <2>4 DEF Extractions
  <2> QED
    BY <1>2, <2>3, <2>5, <2>6
<1> QED
  BY <1>1, <1>2

(* A result is what the reply that is still at hand comes to, of the model *)
(* that gave it; Haiku was asked only about a thread that is not long, and *)
(* its reply is returned only when it is sure.                             *)
Returned ==
    result # Null =>
        /\ reply # Null
        /\ result = [extraction |-> parseExtraction(parsed), model |-> model]
        /\ model = "haiku" => parseExtraction(parsed).confidence > LowConfidence

(* The inductive invariant. *)
CInv ==
    /\ thread \in [messages : MessageCounts, chars : CharCounts]
    /\ model \in {"none", "haiku", "sonnet"}
    /\ reply \in Replies \cup {Null}
    /\ parsed \in Objects \cup {Null}
    /\ reply # Null => model # "none"
    /\ model = "haiku" => ~ longThread
    /\ Returned

(* It holds at the beginning ... *)
LEMMA CInvInit == Init => CInv
BY DEF Init, CInv, Returned

(* ... and every step keeps it. *)
LEMMA CInvNext ==
    ASSUME CInv, [Next]_vars
    PROVE  CInv'
<1> USE DEF CInv
<1>1. CASE Ask
  <2> longThread' = longThread
    BY <1>1 DEF Ask, longThread
  <2> QED
    BY <1>1 DEF Ask, Returned
<1>2. CASE callMessages
  <2>1. longThread' = longThread
    BY <1>2 DEF callMessages, longThread
  <2>2. reply' \in Replies
    BY <1>2 DEF callMessages
  <2>3. parsed' \in Objects \cup {Null}
    BY <1>2 DEF callMessages, Parses
  <2> QED
    BY <1>2, <2>1, <2>2, <2>3 DEF callMessages, Returned
<1>3. CASE CallFails
  <2> longThread' = longThread
    BY <1>3 DEF CallFails, longThread
  <2> QED
    BY <1>3 DEF CallFails, Returned
<1>4. CASE Answer
  <2>1. longThread' = longThread
    BY <1>4 DEF Answer, escalate, return, longThread
  <2>2. CASE model = "haiku" /\ parseExtraction(parsed).confidence <= LowConfidence
    BY <1>4, <2>1, <2>2 DEF Answer, escalate, Returned
  <2>3. CASE ~ (model = "haiku" /\ parseExtraction(parsed).confidence <= LowConfidence)
    <3>1. result' = [extraction |-> parseExtraction(parsed), model |-> model]
          /\ UNCHANGED <<thread, model, reply, parsed>> /\ reply # Null
      BY <1>4, <2>3 DEF Answer, return
    <3>2. model = "haiku" => parseExtraction(parsed).confidence > LowConfidence
      <4>1. parseExtraction(parsed).confidence \in 0..100
        BY ParsesToExtraction DEF Extractions
      <4>2. LowConfidence \in 0..100
        BY ClaudeAssumption
      <4> QED
        BY <2>3, <4>1, <4>2
    <3> QED
      BY <2>1, <3>1, <3>2 DEF Returned
  <2> QED
    BY <2>2, <2>3
<1>5. CASE UNCHANGED vars
  BY <1>5 DEF vars, longThread, Returned
<1> QED
  BY <1>1, <1>2, <1>3, <1>4, <1>5 DEF Next

(* TypeOK in every behaviour: whatever text Claude replies comes to an     *)
(* extraction with a confidence between 0 and 100, of a model that was     *)
(* asked (extractFromThread, parseExtraction).                             *)
THEOREM TypeCorrect == Spec => []TypeOK
<1>1. CInv => TypeOK
  <2> SUFFICES ASSUME CInv PROVE TypeOK
    OBVIOUS
  <2>1. reply \in Seq(Chars) \cup {Null}
    BY TextsAreReplies DEF CInv
  <2>2. ASSUME result # Null
        PROVE  result.extraction \in Extractions /\ result.model \in {"haiku", "sonnet"}
    <3>1. result.extraction = parseExtraction(parsed) /\ result.model = model /\ model # "none"
      BY <2>2 DEF CInv, Returned
    <3>2. parseExtraction(parsed) \in Extractions
      BY ParsesToExtraction DEF CInv
    <3> QED
      BY <3>1, <3>2 DEF CInv
  <2> QED
    BY <2>1, <2>2 DEF CInv, TypeOK
<1> QED
  BY CInvInit, CInvNext, <1>1, PTL DEF Spec

(* FindsTheObject in every behaviour, and for replies of every length up   *)
(* to any bound: the loop that counts braces reads exactly the object the  *)
(* reply's first brace opens, and nothing when it is never closed          *)
(* (extractJsonObject).                                                    *)
THEOREM ReadsTheObject == Spec => []FindsTheObject
<1>1. CInv => FindsTheObject
  <2> SUFFICES ASSUME CInv, reply # Null PROVE FindsTheObject
    BY DEF FindsTheObject
  <2>1. reply \in Seq(Chars) /\ Len(reply) <= MaxLength
    BY TextsAreReplies DEF CInv
  <2>2. LET t == fromBrace(reply)
            found == extractJsonObject(reply)
        IN  IF \E n \in DOMAIN t : IsObject(SubSeq(t, 1, n))
            THEN found # Null /\ IsObject(found) /\ IsPrefix(found, t)
            ELSE found = Null
    BY <2>1, FoundObject, Zenon
  <2> QED
    BY <2>2, Zenon DEF FindsTheObject
<1> QED
  BY CInvInit, CInvNext, <1>1, PTL DEF Spec

(* WeakFirstPassEscalates in every behaviour: no reply of Haiku's that is  *)
(* unsure, or cannot be read, and no reply of its about a long thread, is  *)
(* what the workflow goes on with (extractFromThread).                     *)
THEOREM UnsureRepliesEscalate == Spec => []WeakFirstPassEscalates
<1>1. CInv => WeakFirstPassEscalates
  <2> SUFFICES ASSUME CInv, result # Null, result.model = "haiku"
               PROVE  /\ thread.messages <= LongCount /\ thread.chars <= LongChars
                      /\ parsed # Null /\ parsed.confidence # NaN
                      /\ parsed.confidence > LowConfidence
    BY DEF WeakFirstPassEscalates
  <2>1. model = "haiku" /\ parseExtraction(parsed).confidence > LowConfidence
    BY DEF CInv, Returned
  <2>2. thread.messages \in Nat /\ thread.chars \in Nat /\ LongCount \in Nat /\ LongChars \in Nat
    BY ClaudeAssumption DEF CInv
  <2>3. thread.messages <= LongCount /\ thread.chars <= LongChars
    BY <2>1, <2>2 DEF CInv, longThread
  <2>4. parsed # Null /\ parsed.confidence # NaN /\ parsed.confidence > LowConfidence
    <3> parsed \in Objects \cup {Null} /\ LowConfidence \in 0..100
      BY ClaudeAssumption DEF CInv
    <3> QED
      BY <2>1, ParsesToExtraction
  <2> QED
    BY <2>3, <2>4
<1> QED
  BY CInvInit, CInvNext, <1>1, PTL DEF Spec

=================================================================================
