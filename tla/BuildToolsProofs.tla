-------------------------- MODULE BuildToolsProofs --------------------------
(***************************************************************************)
(* Proofs about the tools that run around a build.  The docstrings: for    *)
(* every index, every template and every filter.  The hook on headers: for *)
(* all headers, bindings and edits, what it has found to be in step stays  *)
(* so until the commit is made.                                            *)
(***************************************************************************)
EXTENDS BuildTools, SequenceTheorems, WellFoundedInduction, TLAPS

-----------------------------------------------------------------------------
(* Names.                                                                  *)

Joint == Seq(Tokens)

\* A single word.
LEMMA Short ==
  ASSUME NEW w \in Tokens
  PROVE  <<w>> \in Joint /\ Len(<<w>>) = 1 /\ <<w>>[1] = w
  BY DEF Joint

LEMMA Marks ==
  ASSUME PydocAssumption
  PROVE  "::" \in Tokens /\ "_" \in Tokens /\ "make" \in Tokens
  BY DEF PydocAssumption

\* What \o does to names.
LEMMA Joined ==
  ASSUME NEW a \in Joint, NEW b \in Joint
  PROVE  /\ a \o b \in Joint /\ Len(a \o b) = Len(a) + Len(b)
         /\ Len(a) \in Nat /\ Len(b) \in Nat
         /\ DOMAIN a = 1..Len(a) /\ DOMAIN b = 1..Len(b) /\ DOMAIN (a \o b) = 1..Len(a \o b)
         /\ \A n \in 1..(Len(a) + Len(b)) :
              (a \o b)[n] = IF n <= Len(a) THEN a[n] ELSE b[n - Len(a)]
<1> USE DEF Joint
<1>1. a \o b \in Joint
  BY ConcatProperties
<1> QED
  BY <1>1, ConcatProperties, LenProperties

\* doc_key goes word by word.
LEMMA KeyOf ==
  ASSUME PydocAssumption, NEW a \in Joint
  PROVE  /\ doc_key(a) \in Joint /\ Len(doc_key(a)) = Len(a)
         /\ \A n \in 1..Len(a) : doc_key(a)[n] = IF a[n] = "::" THEN "_" ELSE a[n]
<1>1. Len(a) \in Nat /\ DOMAIN a = 1..Len(a) /\ \A n \in 1..Len(a) : a[n] \in Tokens
  BY LenProperties DEF Joint
<1>2. doc_key(a) \in [1..Len(a) -> Tokens]
  <2>1. "_" \in Tokens
    BY Marks
  <2> QED
    BY <1>1, <2>1 DEF doc_key
<1>3. doc_key(a) \in Joint
  BY <1>1, <1>2, SeqDef DEF Joint
<1>4. Len(doc_key(a)) = Len(a)
  <2>1. DOMAIN doc_key(a) = 1..Len(a)
    BY <1>2
  <2>2. DOMAIN doc_key(a) = 1..Len(doc_key(a)) /\ Len(doc_key(a)) \in Nat
    BY <1>3, LenProperties DEF Joint
  <2> QED
    BY <1>1, <2>1, <2>2
<1> QED
  BY <1>1, <1>3, <1>4 DEF doc_key

\* A key of joined names is joined.
LEMMA KeyOfJoined ==
  ASSUME PydocAssumption, NEW a \in Joint, NEW b \in Joint
  PROVE  doc_key(a \o b) = doc_key(a) \o doc_key(b)
<1> DEFINE left == doc_key(a \o b)
           right == doc_key(a) \o doc_key(b)
<1>1. left \in Joint /\ Len(left) = Len(a) + Len(b)
      /\ \A n \in 1..(Len(a) + Len(b)) :
           left[n] = IF (a \o b)[n] = "::" THEN "_" ELSE (a \o b)[n]
  BY Joined, KeyOf
<1>2. right \in Joint /\ Len(right) = Len(a) + Len(b)
      /\ \A n \in 1..(Len(a) + Len(b)) :
           right[n] = IF n <= Len(a) THEN doc_key(a)[n] ELSE doc_key(b)[n - Len(a)]
  <2> DEFINE x == doc_key(a)
             y == doc_key(b)
  <2>1. x \in Joint /\ y \in Joint /\ Len(x) = Len(a) /\ Len(y) = Len(b)
    BY KeyOf
  <2> HIDE DEF x, y
  <2>2. /\ x \o y \in Joint /\ Len(x \o y) = Len(x) + Len(y)
        /\ \A n \in 1..(Len(x) + Len(y)) : (x \o y)[n] = IF n <= Len(x) THEN x[n] ELSE y[n - Len(x)]
    BY <2>1, Joined
  <2> QED
    BY <2>1, <2>2 DEF x, y
<1>3. ASSUME NEW n \in 1..(Len(a) + Len(b)) PROVE left[n] = right[n]
  <2>1. Len(a) \in Nat /\ Len(b) \in Nat
        /\ (a \o b)[n] = IF n <= Len(a) THEN a[n] ELSE b[n - Len(a)]
    BY Joined
  <2> HIDE DEF left, right
  <2>2. CASE n <= Len(a)
    <3>1. n \in 1..Len(a)
      BY <2>1, <2>2
    <3>2. doc_key(a)[n] = IF a[n] = "::" THEN "_" ELSE a[n]
      BY <3>1, KeyOf
    <3> QED
      BY <1>1, <1>2, <2>1, <2>2, <3>2
  <2>3. CASE ~(n <= Len(a))
    <3>1. n - Len(a) \in 1..Len(b)
      BY <2>1, <2>3
    <3>2. doc_key(b)[n - Len(a)] = IF b[n - Len(a)] = "::" THEN "_" ELSE b[n - Len(a)]
      BY <3>1, KeyOf
    <3> QED
      BY <1>1, <1>2, <2>1, <2>3, <3>2
  <2> QED
    BY <2>2, <2>3
<1> HIDE DEF left, right
<1>4. left = right
  BY <1>1, <1>2, <1>3, SeqEqual DEF Joint
<1> QED
  BY <1>4 DEF left, right

\* The name of the make function of a class.
MakeOf(a) == (a \o <<"::">>) \o <<"make">>

LEMMA Single ==
  ASSUME NEW a \in Joint, Len(a) = 1, NEW w \in Tokens, a[1] = w
  PROVE  a = <<w>>
<1>1. <<w>> \in Joint /\ Len(<<w>>) = 1 /\ <<w>>[1] = w
  BY Short
<1>2. \A n \in 1..Len(a) : a[n] = <<w>>[n]
  BY <1>1
<1> QED
  BY <1>1, <1>2, SeqEqual DEF Joint

LEMMA Pair ==
  ASSUME NEW v \in Tokens, NEW w \in Tokens
  PROVE  <<v>> \o <<w>> = <<v, w>> /\ <<v, w>> \in Joint
<1>1. <<v>> \in Seq(Tokens)
  BY Short DEF Joint
<1>3. Append(<<v>>, w) = <<v, w>>
  <2> DEFINE x == Append(<<v>>, w)
             y == <<v, w>>
  <2>1. x \in Seq(Tokens) /\ Len(x) = 2 /\ x[1] = v /\ x[2] = w
    <3>1. Len(<<v>>) = 1 /\ <<v>>[1] = v
      OBVIOUS
    <3>2. Append(<<v>>, w) \in Seq(Tokens) /\ Len(Append(<<v>>, w)) = Len(<<v>>) + 1
          /\ Append(<<v>>, w)[Len(<<v>>) + 1] = w
          /\ \A n \in 1..Len(<<v>>) : Append(<<v>>, w)[n] = <<v>>[n]
      BY <1>1, AppendProperties
    <3> QED
      BY <3>1, <3>2
  <2>2. y \in Seq(Tokens) /\ Len(y) = 2 /\ y[1] = v /\ y[2] = w
    OBVIOUS
  <2> HIDE DEF x, y
  <2>3. \A n \in 1..2 : n = 1 \/ n = 2
    OBVIOUS
  <2>4. \A n \in 1..Len(x) : x[n] = y[n]
    BY <2>1, <2>2, <2>3
  <2> QED
    BY <2>1, <2>2, <2>4, SeqEqual DEF x, y
<1>2. Append(<<v>>, w) = <<v>> \o <<w>> /\ Append(<<v>>, w) \in Seq(Tokens)
  BY <1>1, AppendIsConcat, AppendProperties
<1> QED
  BY <1>2, <1>3 DEF Joint

\* The slot of a make function has "_make" behind the slot of its class.
LEMMA MakeOfIs ==
  ASSUME PydocAssumption, NEW a \in Joint
  PROVE  MakeOf(a) \in Joint /\ doc_key(MakeOf(a)) = doc_key(a) \o <<"_", "make">>
<1> DEFINE c == <<"::">>
           u == <<"_">>
           m == <<"make">>
<1>1. /\ c \in Joint /\ Len(c) = 1 /\ c[1] = "::"
      /\ u \in Joint
      /\ m \in Joint /\ Len(m) = 1 /\ m[1] = "make"
  BY Marks, Short
<1>2. MakeOf(a) = (a \o c) \o m
  BY DEF MakeOf
<1>3. u \o m = <<"_", "make">>
  BY Marks, Pair
<1>4. "_" \in Tokens /\ "make" \in Tokens /\ "::" # "make"
  BY Marks
<1> HIDE DEF c, u, m
<1>5. doc_key(c) = u
  <2>1. doc_key(c) \in Joint /\ Len(doc_key(c)) = 1 /\ doc_key(c)[1] = "_"
    <3>1. 1 \in 1..Len(c)
      BY <1>1
    <3>2. doc_key(c)[1] = IF c[1] = "::" THEN "_" ELSE c[1]
      BY <1>1, <3>1, KeyOf
    <3>3. doc_key(c) \in Joint /\ Len(doc_key(c)) = Len(c)
      BY <1>1, KeyOf
    <3> QED
      BY <1>1, <3>2, <3>3
  <2> QED
    BY <1>4, <2>1, Single DEF u
<1>6. doc_key(m) = m
  <2>1. doc_key(m) \in Joint /\ Len(doc_key(m)) = 1 /\ doc_key(m)[1] = "make"
    <3>1. 1 \in 1..Len(m)
      BY <1>1
    <3>2. doc_key(m)[1] = IF m[1] = "::" THEN "_" ELSE m[1]
      BY <1>1, <3>1, KeyOf
    <3>3. doc_key(m) \in Joint /\ Len(doc_key(m)) = Len(m)
      BY <1>1, KeyOf
    <3> QED
      BY <1>1, <3>2, <3>3
  <2> QED
    BY <1>4, <2>1, Single DEF m
<1>7. a \o c \in Joint /\ (a \o c) \o m \in Joint
  <2>1. a \o c \in Joint
    BY <1>1, Joined
  <2> QED
    BY <1>1, <2>1, Joined
<1>8. doc_key((a \o c) \o m) = (doc_key(a) \o u) \o m
  <2>1. doc_key((a \o c) \o m) = doc_key(a \o c) \o doc_key(m)
    BY <1>1, <1>7, KeyOfJoined
  <2>2. doc_key(a \o c) = doc_key(a) \o doc_key(c)
    BY <1>1, KeyOfJoined
  <2> QED
    BY <1>5, <1>6, <2>1, <2>2
<1>9. (doc_key(a) \o u) \o m = doc_key(a) \o (u \o m)
  <2> DEFINE k == doc_key(a)
  <2>1. k \in Seq(Tokens) /\ u \in Seq(Tokens) /\ m \in Seq(Tokens)
    BY <1>1, KeyOf DEF Joint
  <2> HIDE DEF k
  <2>2. (k \o u) \o m = k \o (u \o m)
    BY <2>1, ConcatAssociative
  <2> QED
    BY <2>2 DEF k
<1> QED
  BY <1>2, <1>3, <1>7, <1>8, <1>9

\* A method is told from its class and from other methods by its name.
LEMMA MethodIs ==
  ASSUME PydocAssumption, NEW c, c.name \in Name, NEW m, m.name \in Name
  PROVE  /\ method(c, m) \in Name /\ method(c, m) # c.name
         /\ \A k : k.name \in Name /\ method(c, k) = method(c, m) => k.name = m.name
<1> DEFINE a == c.name
           s == <<"::">>
           b == m.name
           base == a \o s
<1>1. s \in Joint /\ Len(s) = 1
  BY Marks, Short
<1>2. a \in Joint /\ b \in Joint /\ b # <<>>
  BY DEF Name, Joint
<1> HIDE DEF a, b, s
<1>3. base \in Joint /\ Len(base) = Len(a) + 1 /\ Len(a) \in Nat
  <2>1. a \o s \in Joint /\ Len(a \o s) = Len(a) + Len(s) /\ Len(a) \in Nat
    BY <1>1, <1>2, Joined
  <2> QED
    BY <1>1, <2>1
<1> HIDE DEF base
<1>4. base \o b \in Joint /\ Len(base \o b) = Len(base) + Len(b) /\ Len(b) \in Nat
  BY <1>2, <1>3, Joined
<1>5. base \o b # a /\ base \o b # <<>>
  <2>1. Len(base \o b) > Len(a) /\ Len(base \o b) > 0
    BY <1>3, <1>4
  <2>2. Len(<<>>) = 0
    OBVIOUS
  <2> QED
    BY <1>3, <2>1, <2>2
<1>6. ASSUME NEW d \in Joint, base \o d = base \o b PROVE d = b
  <2>1. /\ base \in Seq(Tokens) /\ Len(base) \in Nat
        /\ b \in Seq(Tokens) /\ Len(b) \in Nat
        /\ d \in Seq(Tokens) /\ Len(d) \in Nat
    BY <1>2, <1>3, LenProperties DEF Joint
  <2>2. /\ Len(base \o d) = Len(base) + Len(d)
        /\ Len(base \o b) = Len(base) + Len(b)
        /\ \A n \in 1..Len(d) : (base \o d)[Len(base) + n] = d[n]
        /\ \A n \in 1..Len(b) : (base \o b)[Len(base) + n] = b[n]
    BY <2>1
  <2>3. Len(d) = Len(b)
    BY <1>6, <2>1, <2>2
  <2>4. \A n \in 1..Len(d) : d[n] = b[n]
    BY <1>6, <2>2, <2>3
  <2> QED
    BY <2>1, <2>3, <2>4, SeqEqual
<1>7. method(c, m) = base \o b /\ \A k : method(c, k) = base \o k.name
  BY DEF method, base, a, b, s
<1>8. \A k : k.name \in Name /\ method(c, k) = method(c, m) => k.name = m.name
  <2> SUFFICES ASSUME NEW k, k.name \in Name, method(c, k) = method(c, m) PROVE k.name = m.name
    OBVIOUS
  <2>1. k.name \in Joint
    BY DEF Name, Joint
  <2>2. base \o k.name = base \o b
    BY <1>7
  <2> QED
    BY <1>6, <2>1, <2>2 DEF b
<1> QED
  BY <1>4, <1>5, <1>7, <1>8 DEF Name, Joint, a

-----------------------------------------------------------------------------
(* Texts, and the dictionary that a log of entries amounts to.             *)

EntryRecord == [key : Joint, text : Text]

\* What is in joined sequences, in part of one, in one of length 1.
LEMMA RangeJoined ==
  ASSUME NEW S, NEW a \in Seq(S), NEW b \in Seq(S)
  PROVE  Range(a \o b) = Range(a) \cup Range(b)
<1> DEFINE ab == a \o b
<1>1. /\ Len(a) \in Nat /\ Len(b) \in Nat
      /\ DOMAIN a = 1..Len(a) /\ DOMAIN b = 1..Len(b)
      /\ ab \in Seq(S) /\ Len(ab) = Len(a) + Len(b)
  BY LenProperties, ConcatProperties
<1>2. DOMAIN ab = 1..(Len(a) + Len(b))
  BY <1>1, LenProperties
<1>3. \A n \in 1..(Len(a) + Len(b)) : ab[n] = IF n <= Len(a) THEN a[n] ELSE b[n - Len(a)]
  BY <1>1
<1> HIDE DEF ab
<1>4. ASSUME NEW n \in DOMAIN ab PROVE ab[n] \in Range(a) \cup Range(b)
  <2>1. CASE n <= Len(a)
    BY <1>1, <1>2, <1>3, <2>1 DEF Range
  <2>2. CASE ~(n <= Len(a))
    <3>1. n - Len(a) \in DOMAIN b
      BY <1>1, <1>2, <2>2
    <3> QED
      BY <1>2, <1>3, <2>2, <3>1 DEF Range
  <2> QED
    BY <2>1, <2>2
<1>5. ASSUME NEW n \in DOMAIN a PROVE a[n] \in Range(ab)
  <2>1. n \in DOMAIN ab /\ ab[n] = a[n]
    BY <1>1, <1>2, <1>3
  <2> QED
    BY <2>1 DEF Range
<1>6. ASSUME NEW n \in DOMAIN b PROVE b[n] \in Range(ab)
  <2>1. n + Len(a) \in DOMAIN ab /\ ~(n + Len(a) <= Len(a)) /\ (n + Len(a)) - Len(a) = n
    BY <1>1, <1>2
  <2>2. ab[n + Len(a)] = b[n]
    BY <1>2, <1>3, <2>1
  <2> QED
    BY <2>1, <2>2 DEF Range
<1> QED
  BY <1>4, <1>5, <1>6 DEF Range, ab

LEMMA RangeWithin ==
  ASSUME NEW S, NEW a \in Seq(S)
  PROVE  Range(a) \subseteq S
  BY ElementOfSeq, LenProperties DEF Range

LEMMA RangeSingle ==
  ASSUME NEW x
  PROVE  Range(<<x>>) = {x}
  BY DEF Range

\* In a set of numbers there is a least one, and in a finite one a greatest.
LEMMA Least ==
  ASSUME NEW T, T \subseteq Nat, T # {}
  PROVE  \E x \in T : \A y \in T : x <= y
<1> DEFINE R == OpToRel(<, Nat)
<1>1. IsWellFoundedOn(R, Nat)
  BY NatLessThanWellFounded
<1>2. \A x, y \in Nat : x < y => <<x, y>> \in R
  BY DEF OpToRel
<1> HIDE DEF R
<1>3. PICK x \in T : \A y \in T : ~(<<y, x>> \in R)
  BY <1>1, WFMin
<1>4. ASSUME NEW y \in T PROVE x <= y
  <2>1. ~(y < x)
    BY <1>2, <1>3
  <2>2. x \in Nat /\ y \in Nat
    OBVIOUS
  <2> QED
    BY <2>1, <2>2
<1> QED
  BY <1>4

LEMMA Greatest ==
  ASSUME NEW N \in Nat, NEW T, T \subseteq 1..N, T # {}
  PROVE  \E x \in T : \A y \in T : y <= x
<1> DEFINE U == {n \in Nat : \E x \in T : n = N - x}
<1>1. PICK a \in T : TRUE
  OBVIOUS
<1>2. N - a \in U
  OBVIOUS
<1>3. PICK n \in U : \A k \in U : n <= k
  BY <1>2, Least
<1>4. PICK x \in T : n = N - x
  OBVIOUS
<1>5. ASSUME NEW y \in T PROVE y <= x
  <2>1. N - y \in U
    OBVIOUS
  <2> HIDE DEF U
  <2>2. n <= N - y
    BY <1>3, <2>1
  <2> QED
    BY <1>4, <2>2
<1> QED
  BY <1>5

\* An item of the dictionary is an entry of the log, the last one of its key.
LEMMA ItemIsEntry ==
  ASSUME output \in Seq(EntryRecord), NEW n \in DOMAIN output
  PROVE  /\ Item(n) \in Range(output)
         /\ Item(n).key = output[n].key
<1> DEFINE key == output[n].key
           Same == {m \in DOMAIN output : output[m].key = key}
<1>1. Len(output) \in Nat /\ DOMAIN output = 1..Len(output)
  BY LenProperties
<1>2. Same \subseteq 1..Len(output) /\ n \in Same
  BY <1>1
<1>3. PICK x \in Same : \A y \in Same : y <= x
  BY <1>1, <1>2, Greatest
<1>4. IsLast(x, key)
  BY <1>1, <1>3 DEF IsLast
<1> DEFINE last == CHOOSE m \in DOMAIN output : IsLast(m, key)
<1>5. last \in DOMAIN output /\ IsLast(last, key)
  BY <1>3, <1>4
<1> HIDE DEF last
<1>6. output[last].key = key /\ output[last] \in EntryRecord
  BY <1>1, <1>5, ElementOfSeq DEF IsLast
<1>7. Entry(key, output[last].text) = output[last]
  BY <1>6 DEF EntryRecord, Entry
<1>8. Item(n) = Entry(key, output[last].text)
  BY DEF Item, last
<1> QED
  BY <1>5, <1>6, <1>7, <1>8 DEF Range

\* So the dictionary has nothing that is not in the log.
LEMMA ItemsAreEntries ==
  ASSUME output \in Seq(EntryRecord)
  PROVE  \A e \in Items : e \in Range(output) /\ e \in EntryRecord /\ e.key # <<>>
<1> SUFFICES ASSUME NEW e \in Items PROVE e \in Range(output) /\ e \in EntryRecord /\ e.key # <<>>
  OBVIOUS
<1>1. PICK n \in DOMAIN output : IsItem(n) /\ e = Item(n)
  BY DEF Items
<1> QED
  BY <1>1, ItemIsEntry, RangeWithin DEF IsItem

\* Every key of the log is one of the dictionary.
LEMMA KeyIsItem ==
  ASSUME output \in Seq(EntryRecord), NEW e \in Range(output), e.key # <<>>
  PROVE  \E x \in Items : x.key = e.key
<1>1. PICK n \in DOMAIN output : output[n] = e
  BY DEF Range
<1> DEFINE Same == {m \in DOMAIN output : output[m].key = e.key}
<1>2. Len(output) \in Nat /\ DOMAIN output = 1..Len(output)
  BY LenProperties
<1>3. Same \subseteq Nat /\ n \in Same
  BY <1>1, <1>2
<1>4. PICK x \in Same : \A y \in Same : x <= y
  BY <1>3, Least
<1>5. IsItem(x)
  BY <1>2, <1>4 DEF IsItem
<1>6. Item(x) \in Items /\ Item(x).key = e.key
  BY <1>4, <1>5, ItemIsEntry DEF Items
<1> QED
  BY <1>6

\* Two items of one key are the same.
LEMMA OneItem ==
  ASSUME output \in Seq(EntryRecord),
         NEW m \in DOMAIN output, NEW n \in DOMAIN output, IsItem(m), IsItem(n), m < n
  PROVE  Item(m).key # Item(n).key
<1>1. Len(output) \in Nat /\ DOMAIN output = 1..Len(output)
  BY LenProperties
<1>2. m \in 1..(n - 1)
  BY <1>1
<1>3. output[m].key # output[n].key
  BY <1>2 DEF IsItem
<1> QED
  BY <1>3, ItemIsEntry

-----------------------------------------------------------------------------
(* The entries that a compound gives.                                      *)

\* What is assumed of the compounds of an index.
LEMMA Indexed ==
  ASSUME PydocAssumption, index \in Indexes, NEW n \in DOMAIN index
  PROVE  index[n] \in CompoundRecord /\ WellFormed(index[n]) /\ OneMeaning(index)
<1>1. index \in Seq(CompoundRecord) /\ OneMeaning(index) /\ WellFormed(index[n])
  BY DEF PydocAssumption
<1> QED
  BY <1>1, ElementOfSeq, LenProperties

LEMMA IndexIsSeq ==
  ASSUME PydocAssumption, index \in Indexes
  PROVE  Len(index) \in Nat /\ DOMAIN index = 1..Len(index)
<1>1. index \in Seq(CompoundRecord)
  BY DEF PydocAssumption
<1> QED
  BY <1>1, LenProperties

LEMMA MemberType ==
  ASSUME NEW c \in CompoundRecord, NEW n \in DOMAIN c.members
  PROVE  c.members[n] \in MemberRecord
<1>1. c.members \in Seq(MemberRecord)
  BY DEF CompoundRecord
<1> QED
  BY <1>1, ElementOfSeq, LenProperties

LEMMA MembersAreSeq ==
  ASSUME NEW c \in CompoundRecord
  PROVE  Len(c.members) \in Nat /\ DOMAIN c.members = 1..Len(c.members)
<1>1. c.members \in Seq(MemberRecord)
  BY DEF CompoundRecord
<1> QED
  BY <1>1, LenProperties

\* Of two members of one name one is not the first.
LEMMA FirstIsOne ==
  ASSUME NEW c \in CompoundRecord, NEW m \in DOMAIN c.members, NEW n \in DOMAIN c.members,
         First(c, m), First(c, n), c.members[m].name = c.members[n].name
  PROVE  m = n
<1>1. m \in Nat \ {0} /\ n \in Nat \ {0}
  BY MembersAreSeq
<1>2. ~(m < n)
  <2> SUFFICES ASSUME m < n PROVE FALSE
    OBVIOUS
  <2>1. m \in 1..(n - 1)
    BY <1>1
  <2> QED
    BY <2>1 DEF First
<1>3. ~(n < m)
  <2> SUFFICES ASSUME n < m PROVE FALSE
    OBVIOUS
  <2>1. n \in 1..(m - 1)
    BY <1>1
  <2> QED
    BY <2>1 DEF First
<1> QED
  BY <1>1, <1>2, <1>3

\* What is kept of the members: a gap, or the first of its name.
Kept(c) == {c.members[n] : n \in {k \in DOMAIN c.members : CanParse(c.members[k]) /\ First(c, k)}}

\* Converting drops members and changes none of those it keeps.
LEMMA KeptIs ==
  ASSUME NEW c \in CompoundRecord
  PROVE  /\ DOMAIN process_memberdefs(c) = DOMAIN c.members
         /\ \A n \in DOMAIN c.members :
              \/ process_memberdefs(c)[n] = None
              \/ /\ process_memberdefs(c)[n] = c.members[n]
                 /\ CanParse(c.members[n]) /\ First(c, n)
         /\ Kept(c) \subseteq Range(process_memberdefs(c))
         /\ Range(process_memberdefs(c)) \subseteq Kept(c) \cup {None}
         /\ process_memberdefs(c) \in Seq(MemberRecord \cup {None})
<1>1. /\ DOMAIN process_memberdefs(c) = DOMAIN c.members
      /\ \A n \in DOMAIN c.members :
           \/ process_memberdefs(c)[n] = None
           \/ /\ process_memberdefs(c)[n] = c.members[n]
              /\ CanParse(c.members[n]) /\ First(c, n)
  BY DEF process_memberdefs
<1>2. \A n \in DOMAIN c.members : CanParse(c.members[n]) /\ First(c, n) =>
        process_memberdefs(c)[n] = c.members[n]
  BY DEF process_memberdefs
<1>3. Kept(c) \subseteq Range(process_memberdefs(c))
  BY <1>1, <1>2 DEF Kept, Range
<1>4. Range(process_memberdefs(c)) \subseteq Kept(c) \cup {None}
  BY <1>1 DEF Kept, Range
<1>5. process_memberdefs(c) \in Seq(MemberRecord \cup {None})
  <2> DEFINE p == process_memberdefs(c)
             S == MemberRecord \cup {None}
  <2>1. \A n \in DOMAIN c.members : p[n] \in S
    BY <1>1, MemberType
  <2>2. p = [n \in DOMAIN c.members |-> p[n]]
    BY DEF process_memberdefs
  <2> HIDE DEF p, S
  <2>3. p \in [1..Len(c.members) -> S]
    BY <2>1, <2>2, MembersAreSeq
  <2>4. p \in Seq(S)
    BY <2>3, MembersAreSeq, SeqDef
  <2> QED
    BY <2>4 DEF p, S
<1> QED
  BY <1>1, <1>3, <1>4, <1>5

\* An operator gives an empty entry, everything else an entry of its own.
LEMMA EntryType ==
  ASSUME NEW name \in Joint, NEW text \in Text
  PROVE  /\ make_entry(name, text) \in EntryRecord
         /\ make_entry(name, text) = NoEntry \/ make_entry(name, text) = Entry(name, text)
         /\ "operator " \notin Range(name) => make_entry(name, text) = Entry(name, text)
         /\ NoEntry \in EntryRecord
<1>1. <<>> \in Joint /\ <<>> \in Text
  BY DEF Joint, Text
<1>2. NoEntry \in EntryRecord
  BY <1>1 DEF NoEntry, Entry, EntryRecord
<1> QED
  BY <1>2 DEF make_entry, Entry, EntryRecord

\* The entry for the member n of a class.
MethodEntry(c, n, ignored) ==
  LET m == process_memberdefs(c)[n]
  IN IF m.kind # "function" \/ m.name \in ignored THEN NoEntry
     ELSE make_entry(method(c, m), m.text)

LEMMA MethodEntryType ==
  ASSUME PydocAssumption, NEW c \in CompoundRecord, NEW ignored, NEW n \in DOMAIN c.members
  PROVE  MethodEntry(c, n, ignored) \in EntryRecord
<1> DEFINE m == process_memberdefs(c)[n]
<1>1. CASE m.kind = "function"
  <2>1. m = c.members[n]
    BY <1>1, KeptIs DEF None
  <2>2. m \in MemberRecord
    BY <2>1, MemberType
  <2>3. m.name \in Name /\ c.name \in Name /\ m.text \in Text
    BY <2>2 DEF MemberRecord, CompoundRecord
  <2> HIDE DEF m
  <2>4. method(c, m) \in Joint
    BY <2>3, MethodIs DEF Name, Joint
  <2>5. make_entry(method(c, m), m.text) \in EntryRecord /\ NoEntry \in EntryRecord
    BY <2>3, <2>4, EntryType
  <2> QED
    BY <2>5 DEF MethodEntry, m
<1>2. CASE m.kind # "function"
  <2>1. <<>> \in Joint /\ <<>> \in Text
    BY DEF Joint, Text
  <2>2. NoEntry \in EntryRecord
    BY <2>1, EntryType
  <2> QED
    BY <1>2, <2>2 DEF MethodEntry
<1> QED
  BY <1>1, <1>2

\* The entries of a class: one for it and one for each member.
LEMMA ClassEntryIs ==
  ASSUME PydocAssumption, NEW c \in CompoundRecord, NEW text \in Text, NEW ignored
  PROVE  /\ make_class_entry(c, text, ignored) \in Seq(EntryRecord)
         /\ Range(make_class_entry(c, text, ignored)) =
              {make_entry(c.name, text)} \cup {MethodEntry(c, n, ignored) : n \in DOMAIN c.members}
<1> DEFINE first == make_entry(c.name, text)
           rest == [n \in DOMAIN c.members |-> MethodEntry(c, n, ignored)]
<1>1. make_class_entry(c, text, ignored) = <<first>> \o rest
  <2>1. DOMAIN process_memberdefs(c) = DOMAIN c.members
    BY KeptIs
  <2> QED
    BY <2>1 DEF make_class_entry, MethodEntry
<1>2. first \in EntryRecord
  <2>1. c.name \in Joint
    BY DEF CompoundRecord, Name, Joint
  <2> QED
    BY <2>1, EntryType
<1>3. rest \in Seq(EntryRecord) /\ Range(rest) = {MethodEntry(c, n, ignored) : n \in DOMAIN c.members}
  <2>1. rest \in [1..Len(c.members) -> EntryRecord]
    BY MembersAreSeq, MethodEntryType
  <2>2. rest \in Seq(EntryRecord)
    BY <2>1, MembersAreSeq, SeqDef
  <2> QED
    BY <2>2 DEF Range
<1> HIDE DEF first, rest
<1>4. <<first>> \in Seq(EntryRecord) /\ Range(<<first>>) = {first}
  BY <1>2, RangeSingle
<1>5. <<first>> \o rest \in Seq(EntryRecord)
      /\ Range(<<first>> \o rest) = Range(<<first>>) \cup Range(rest)
  BY <1>3, <1>4, RangeJoined, ConcatProperties
<1> QED
  BY <1>1, <1>3, <1>4, <1>5 DEF first

\* A passage of the text of an entry is about what the entry is for, or about
\* the other of a class and its make function.
Near(e) ==
  \A p \in Range(e.text) :
    \/ p \in Range(Heading)
    \/ p.of = e.key
    \/ p.of = MakeOf(e.key)
    \/ e.key = MakeOf(p.of)

\* An entry for a class or one of its functions has its words.
OfClass(c, e) ==
  \/ e.key = c.name /\ Range(c.text) \subseteq Range(e.text)
  \/ \E m \in Documented(c) : e.key = method(c, m) /\ Range(m.text) \subseteq Range(e.text)

ClassMade(c, e) == e = NoEntry \/ (e.key # <<>> /\ Near(e) /\ OfClass(c, e))

\* Everything about a class that is to be documented has an entry.
Covers(c, entries) ==
  /\ \E e \in entries : e.key = c.name
  /\ \A m \in Documented(c) : \E e \in entries : e.key = method(c, m)

\* A documented function is the first member of its name, and no operator.
LEMMA DocumentedIs ==
  ASSUME NEW c \in CompoundRecord, NEW m \in Documented(c)
  PROVE  \E n \in DOMAIN c.members :
           /\ m = c.members[n] /\ m \in MemberRecord /\ m.kind = "function" /\ First(c, n)
           /\ "operator " \notin Range(NameIn(c, m)) /\ m \in Range(c.members)
<1>1. PICK n \in DOMAIN c.members :
        /\ m = c.members[n] /\ c.members[n].kind = "function"
        /\ "operator " \notin Range(NameIn(c, c.members[n])) /\ First(c, n)
  BY DEF Documented
<1> QED
  BY <1>1, MemberType DEF Range

\* A documented function is known by its name.
LEMMA OneDocumented ==
  ASSUME NEW c \in CompoundRecord, NEW m \in Documented(c), NEW k \in Documented(c),
         m.name = k.name
  PROVE  m = k
<1>1. PICK x \in DOMAIN c.members : m = c.members[x] /\ First(c, x)
  BY DocumentedIs
<1>2. PICK y \in DOMAIN c.members : k = c.members[y] /\ First(c, y)
  BY DocumentedIs
<1> QED
  BY <1>1, <1>2, FirstIsOne

\* The entry of a method is about that method.
LEMMA MethodEntryIs ==
  ASSUME PydocAssumption, NEW c \in CompoundRecord, WellFormed(c), c.kind = "class",
         NEW ignored, NEW n \in DOMAIN c.members
  PROVE  ClassMade(c, MethodEntry(c, n, ignored))
<1> DEFINE m == process_memberdefs(c)[n]
           e == MethodEntry(c, n, ignored)
<1>1. SUFFICES ASSUME e # NoEntry PROVE e.key # <<>> /\ Near(e) /\ OfClass(c, e)
  BY DEF ClassMade
<1>2. m.kind = "function" /\ e = make_entry(method(c, m), m.text)
  BY <1>1 DEF MethodEntry
<1>3. e = Entry(method(c, m), m.text) /\ "operator " \notin Range(method(c, m))
  BY <1>1, <1>2 DEF make_entry
<1>4. m = c.members[n] /\ First(c, n) /\ m \in MemberRecord
  BY <1>2, KeptIs, MemberType DEF None
<1>5. m.name \in Name /\ c.name \in Name
  BY <1>4 DEF MemberRecord, CompoundRecord
<1> HIDE DEF m, e
<1>6. e.key = method(c, m) /\ e.text = m.text
  BY <1>3 DEF Entry
<1>7. e.key # <<>>
  BY <1>5, <1>6, MethodIs DEF Name
<1>8. m \in Documented(c)
  BY <1>2, <1>3, <1>4 DEF Documented, NameIn
<1>9. Near(e)
  <2>1. Marked(m.text, method(c, m))
    BY <1>2, <1>4 DEF WellFormed, NameIn, Range
  <2> QED
    BY <1>6, <2>1 DEF Marked, Near
<1> QED
  BY <1>6, <1>7, <1>8, <1>9 DEF OfClass

\* The entries of a class are about it and leave out nothing that is not to be ignored.
LEMMA ClassEntriesAre ==
  ASSUME PydocAssumption, NEW c \in CompoundRecord, WellFormed(c), c.kind = "class",
         NEW text \in Text, Range(c.text) \subseteq Range(text), Near(Entry(c.name, text)),
         NEW ignored
  PROVE  /\ \A e \in Range(make_class_entry(c, text, ignored)) : ClassMade(c, e)
         /\ \E e \in Range(make_class_entry(c, text, ignored)) : e.key = c.name
         /\ \A m \in Documented(c) : m.name \notin ignored =>
              \E e \in Range(make_class_entry(c, text, ignored)) : e.key = method(c, m)
<1> DEFINE all == Range(make_class_entry(c, text, ignored))
           first == make_entry(c.name, text)
<1>1. all = {first} \cup {MethodEntry(c, n, ignored) : n \in DOMAIN c.members}
  BY ClassEntryIs
<1>2. c.name \in Joint /\ c.name # <<>>
  BY DEF CompoundRecord, Name, Joint
<1>3. first = Entry(c.name, text)
  <2>1. "operator " \notin Range(c.name)
    BY DEF WellFormed
  <2> QED
    BY <1>2, <2>1, EntryType
<1>4. first.key = c.name /\ first.text = text
  BY <1>3 DEF Entry
<1>5. ClassMade(c, first)
  <2>1. Near(first)
    BY <1>3
  <2> HIDE DEF first
  <2> QED
    BY <1>2, <1>4, <2>1 DEF ClassMade, OfClass
<1> HIDE DEF all, first
<1>6. \A e \in all : ClassMade(c, e)
  BY <1>1, <1>5, MethodEntryIs
<1>7. ASSUME NEW m \in Documented(c), m.name \notin ignored
      PROVE  \E e \in all : e.key = method(c, m)
  <2>1. PICK n \in DOMAIN c.members :
          /\ m = c.members[n] /\ m \in MemberRecord /\ m.kind = "function" /\ First(c, n)
          /\ "operator " \notin Range(NameIn(c, m))
    BY DocumentedIs
  <2>2. process_memberdefs(c)[n] = m
    BY <2>1 DEF process_memberdefs, CanParse, MemberKinds
  <2>3. MethodEntry(c, n, ignored) = Entry(method(c, m), m.text)
    BY <1>7, <2>1, <2>2 DEF MethodEntry, make_entry, NameIn
  <2>4. MethodEntry(c, n, ignored).key = method(c, m)
    BY <2>3 DEF Entry
  <2> QED
    BY <1>1, <2>4
<1> QED
  BY <1>1, <1>4, <1>6, <1>7 DEF all

\* The make function of a block.
LEMMA MakeIs ==
  ASSUME NEW c \in CompoundRecord, Block2(c), NEW make, make = (CHOOSE m \in Makes(c) : TRUE)
  PROVE  /\ \E n \in DOMAIN c.members : make = c.members[n] /\ First(c, n)
         /\ make \in MemberRecord /\ make \in Range(c.members)
         /\ make.kind = "function" /\ make.name = <<"make">>
         /\ method(c, make) = MakeOf(c.name)
<1>1. make \in Makes(c)
  BY DEF Block2
<1>2. make \in Range(process_memberdefs(c)) /\ make.kind = "function" /\ make.name = <<"make">>
  BY <1>1 DEF Makes, Member
<1>3. make \in Kept(c)
  BY <1>2, KeptIs DEF None
<1>4. PICK n \in DOMAIN c.members : make = c.members[n] /\ First(c, n)
  BY <1>3 DEF Kept
<1> QED
  BY <1>2, <1>4, MemberType DEF method, MakeOf, Range

\* The text of a block has the passages of its class and of its make function.
LEMMA BlockTextIs ==
  ASSUME PydocAssumption, NEW a \in Text, NEW b \in Text, NEW d \in Text
  PROVE  /\ ((a \o Heading) \o b) \o d \in Text
         /\ Range(((a \o Heading) \o b) \o d) = Range(a) \cup Range(Heading) \cup Range(b) \cup Range(d)
<1> DEFINE P == [of : Name \cup {<<>>}, form : {"plain", "bracket", "digit", "octal"}]
           h == Heading
<1>1. h \in Seq(P)
  <2>1. [of |-> <<>>, form |-> "plain"] \in P
    OBVIOUS
  <2> HIDE DEF P
  <2> QED
    BY <2>1 DEF Heading
<1>2. a \in Seq(P) /\ b \in Seq(P) /\ d \in Seq(P)
  BY DEF Text
<1> HIDE DEF P, h
<1> DEFINE x == a \o h
           y == x \o b
           z == y \o d
<1>3. x \in Seq(P) /\ Range(x) = Range(a) \cup Range(h)
  BY <1>1, <1>2, ConcatProperties, RangeJoined
<1> HIDE DEF x
<1>4. y \in Seq(P) /\ Range(y) = Range(x) \cup Range(b)
  BY <1>2, <1>3, ConcatProperties, RangeJoined
<1> HIDE DEF y
<1>5. z \in Seq(P) /\ Range(z) = Range(y) \cup Range(d)
  BY <1>2, <1>4, ConcatProperties, RangeJoined
<1> QED
  BY <1>3, <1>4, <1>5 DEF Text, P, h, x, y, z

\* The entries of a block are about it and leave out nothing: the make function that
\* make_class_entry ignores has the entry behind the others.
LEMMA BlockEntriesAre ==
  ASSUME PydocAssumption, NEW c \in CompoundRecord, WellFormed(c), Block2(c)
  PROVE  /\ make_block2_entry(c) \in Seq(EntryRecord)
         /\ \A e \in Range(make_block2_entry(c)) : ClassMade(c, e)
         /\ Covers(c, Range(make_block2_entry(c)))
<1> DEFINE make == CHOOSE m \in Makes(c) : TRUE
           text == ((c.text \o Heading) \o make.text) \o make.params
           front == make_class_entry(c, text, {<<"make">>})
           last == make_entry(method(c, make), text)
<1>1. make_block2_entry(c) = front \o <<last>>
  BY DEF make_block2_entry
<1>2. /\ make \in MemberRecord /\ make \in Range(c.members)
      /\ make.kind = "function" /\ make.name = <<"make">>
      /\ method(c, make) = MakeOf(c.name)
      /\ \E n \in DOMAIN c.members : make = c.members[n] /\ First(c, n)
  BY MakeIs
<1>3. c.kind = "class"
  BY DEF Block2
<1> HIDE DEF make
<1>4. c.text \in Text /\ make.text \in Text /\ make.params \in Text
      /\ c.name \in Name /\ make.name \in Name
  BY <1>2 DEF CompoundRecord, MemberRecord
<1>5. /\ text \in Text
      /\ Range(text) = Range(c.text) \cup Range(Heading) \cup Range(make.text) \cup Range(make.params)
  BY <1>4, BlockTextIs
<1>6. /\ \A p \in Range(c.text) : p.of = c.name
      /\ \A p \in Range(make.text) \cup Range(make.params) : p.of = method(c, make)
  BY <1>2, <1>3 DEF WellFormed, Marked, NameIn
<1>7. \A p \in Range(text) :
        p \in Range(Heading) \/ p.of = c.name \/ p.of = MakeOf(c.name)
  BY <1>2, <1>5, <1>6
<1> HIDE DEF text
<1>8. Near(Entry(c.name, text)) /\ Near(Entry(method(c, make), text))
  BY <1>2, <1>7 DEF Near, Entry
<1>9. /\ \A e \in Range(front) : ClassMade(c, e)
      /\ \E e \in Range(front) : e.key = c.name
      /\ \A m \in Documented(c) : m.name \notin {<<"make">>} =>
           \E e \in Range(front) : e.key = method(c, m)
  BY <1>3, <1>5, <1>8, ClassEntriesAre
<1>10. front \in Seq(EntryRecord)
  BY <1>5, ClassEntryIs
<1> HIDE DEF front
<1>11. method(c, make) \in Joint /\ method(c, make) # <<>>
  BY <1>4, MethodIs DEF Name, Joint
<1>12. last \in EntryRecord
  BY <1>5, <1>11, EntryType
<1>13. ClassMade(c, last)
  <2>1. SUFFICES ASSUME last # NoEntry PROVE last.key # <<>> /\ Near(last) /\ OfClass(c, last)
    BY DEF ClassMade
  <2>2. last = Entry(method(c, make), text) /\ "operator " \notin Range(method(c, make))
    BY <2>1 DEF make_entry
  <2> HIDE DEF last
  <2>3. last.key = method(c, make) /\ last.text = text
    BY <2>2 DEF Entry
  <2>4. make \in Documented(c)
    BY <1>2, <1>3, <2>2 DEF Documented, NameIn
  <2>5. Near(last)
    BY <1>8, <2>2
  <2> QED
    BY <1>5, <1>11, <2>3, <2>4, <2>5 DEF OfClass
<1>14. \A m \in Documented(c) : m.name = <<"make">> => last.key = method(c, m)
  <2> SUFFICES ASSUME NEW m \in Documented(c), m.name = <<"make">> PROVE last.key = method(c, m)
    OBVIOUS
  <2>1. PICK x \in DOMAIN c.members :
          m = c.members[x] /\ First(c, x) /\ "operator " \notin Range(NameIn(c, m))
    BY DocumentedIs
  <2>2. PICK y \in DOMAIN c.members : make = c.members[y] /\ First(c, y)
    BY <1>2
  <2>3. m = make
    BY <1>2, <2>1, <2>2, FirstIsOne
  <2>4. last = Entry(method(c, make), text)
    BY <1>3, <2>1, <2>3 DEF make_entry, NameIn
  <2> QED
    BY <2>3, <2>4 DEF Entry
<1> HIDE DEF last
<1>15. <<last>> \in Seq(EntryRecord) /\ Range(<<last>>) = {last}
  BY <1>12, RangeSingle
<1> DEFINE tail == <<last>>
<1>16. /\ front \o tail \in Seq(EntryRecord)
       /\ Range(front \o tail) = Range(front) \cup {last}
  <2>1. tail \in Seq(EntryRecord) /\ Range(tail) = {last}
    BY <1>15
  <2> HIDE DEF tail
  <2>2. front \o tail \in Seq(EntryRecord) /\ Range(front \o tail) = Range(front) \cup Range(tail)
    BY <1>10, <2>1, RangeJoined, ConcatProperties
  <2> QED
    BY <2>1, <2>2
<1>17. Covers(c, Range(front) \cup {last})
  BY <1>9, <1>14 DEF Covers
<1> QED
  BY <1>1, <1>9, <1>13, <1>16, <1>17

\* A class that is no block.
LEMMA OtherClassEntriesAre ==
  ASSUME PydocAssumption, NEW c \in CompoundRecord, WellFormed(c), c.kind = "class"
  PROVE  /\ make_class_entry(c, c.text, {}) \in Seq(EntryRecord)
         /\ \A e \in Range(make_class_entry(c, c.text, {})) : ClassMade(c, e)
         /\ Covers(c, Range(make_class_entry(c, c.text, {})))
<1>1. c.text \in Text
  BY DEF CompoundRecord
<1>2. Near(Entry(c.name, c.text))
  <2>1. Marked(c.text, c.name)
    BY DEF WellFormed
  <2> QED
    BY <2>1 DEF Marked, Near, Entry
<1>3. make_class_entry(c, c.text, {}) \in Seq(EntryRecord)
  BY <1>1, ClassEntryIs
<1>4. /\ \A e \in Range(make_class_entry(c, c.text, {})) : ClassMade(c, e)
      /\ \E e \in Range(make_class_entry(c, c.text, {})) : e.key = c.name
      /\ \A m \in Documented(c) : m.name \notin {} =>
           \E e \in Range(make_class_entry(c, c.text, {})) : e.key = method(c, m)
  BY <1>1, <1>2, ClassEntriesAre
<1> QED
  BY <1>3, <1>4 DEF Covers

-----------------------------------------------------------------------------
(* What is known of the members of the index and of the log.               *)

\* A member of the index is a compound of it, or what is kept of one that is
\* opened.
Origin(m) ==
  \/ m = None
  \/ \E n \in DOMAIN index : m = index[n]
  \/ \E n \in DOMAIN index : Opened(index[n]) /\ m \in Kept(index[n])

OfFunction(c, e) ==
  \E m \in Documented(c) : e.key = m.definition /\ e.text = m.text

Made(e) ==
  \/ e = NoEntry
  \/ /\ e.key # <<>>
     /\ Near(e)
     /\ \/ \E n \in DOMAIN index :
             index[n].kind = "class" /\ index[n].file = "good" /\ OfClass(index[n], e)
        \/ \E n \in DOMAIN index : Opened(index[n]) /\ OfFunction(index[n], e)

\* What the three loops have to put into the log for a member.
BlockSaid(m, entries) == Block2(m) => Covers(m, entries)

FunctionSaid(m, entries) ==
  m.kind = "function" /\ "operator " \notin Range(m.definition) =>
    \E e \in entries : e.key = m.definition

ClassSaid(m, entries) ==
  m.kind = "class" /\ m.file = "good" /\ ~Block2(m) /\ Head(m.name) # "std" => Covers(m, entries)

\* A class among the members is a compound of the index.
LEMMA OriginClass ==
  ASSUME PydocAssumption, index \in Indexes, NEW m, Origin(m), m.kind = "class"
  PROVE  \E n \in DOMAIN index :
           m = index[n] /\ m \in CompoundRecord /\ WellFormed(m)
<1>1. ASSUME NEW n \in DOMAIN index, m \in Kept(index[n]) PROVE FALSE
  <2>1. m \in Range(index[n].members)
    BY <1>1 DEF Kept, Range
  <2>2. m.kind \notin CompoundKinds
    BY <2>1, Indexed DEF WellFormed
  <2> QED
    BY <2>2 DEF CompoundKinds
<1>2. m # None
  BY DEF None
<1>3. PICK n \in DOMAIN index : m = index[n]
  BY <1>1, <1>2 DEF Origin
<1> QED
  BY <1>3, Indexed

\* A function among the members is one of a namespace or a header.
LEMMA OriginFunction ==
  ASSUME PydocAssumption, index \in Indexes, NEW m, Origin(m), m.kind = "function"
  PROVE  /\ m \in MemberRecord
         /\ \E n \in DOMAIN index :
              /\ Opened(index[n]) /\ m \in Kept(index[n])
              /\ Marked(m.text, m.definition)
              /\ "operator " \notin Range(m.definition) => m \in Documented(index[n])
<1>1. ASSUME NEW n \in DOMAIN index PROVE m # index[n]
  <2>1. index[n].kind \notin MemberKinds
    BY Indexed DEF WellFormed
  <2> QED
    BY <2>1 DEF MemberKinds
<1>2. m # None
  BY DEF None
<1>3. PICK n \in DOMAIN index : Opened(index[n]) /\ m \in Kept(index[n])
  BY <1>1, <1>2 DEF Origin
<1>4. index[n] \in CompoundRecord /\ WellFormed(index[n])
  BY Indexed
<1>5. PICK k \in DOMAIN index[n].members :
        m = index[n].members[k] /\ CanParse(m) /\ First(index[n], k)
  BY <1>3 DEF Kept
<1>6. m \in MemberRecord /\ m \in Range(index[n].members)
  BY <1>4, <1>5, MemberType DEF Range
<1>7. NameIn(index[n], m) = m.definition
  BY <1>3 DEF NameIn, Opened
<1>8. Marked(m.text, m.definition)
  BY <1>3, <1>4, <1>6, <1>7 DEF WellFormed
<1>9. "operator " \notin Range(m.definition) => m \in Documented(index[n])
  BY <1>5, <1>7 DEF Documented
<1> QED
  BY <1>3, <1>6, <1>8, <1>9

\* What each of the three loops makes of one member.
LEMMA NothingMade ==
  <<>> \in Seq(EntryRecord) /\ Range(<<>>) = {}
  BY DEF Range

LEMMA BlocksMade ==
  ASSUME PydocAssumption, index \in Indexes, NEW m, Origin(m)
  PROVE  /\ BlockEntries(m) \in Seq(EntryRecord)
         /\ \A e \in Range(BlockEntries(m)) : Made(e)
         /\ BlockSaid(m, Range(BlockEntries(m)))
<1>1. CASE ~Block2(m)
  BY <1>1, NothingMade DEF BlockEntries, BlockSaid
<1>2. CASE Block2(m)
  <2>1. m.kind = "class" /\ m.file = "good"
    BY <1>2 DEF Block2
  <2>2. PICK n \in DOMAIN index : m = index[n] /\ m \in CompoundRecord /\ WellFormed(m)
    BY <2>1, OriginClass
  <2>3. /\ make_block2_entry(m) \in Seq(EntryRecord)
        /\ \A e \in Range(make_block2_entry(m)) : ClassMade(m, e)
        /\ Covers(m, Range(make_block2_entry(m)))
    BY <1>2, <2>2, BlockEntriesAre
  <2>4. \A e : ClassMade(m, e) => Made(e)
    BY <2>1, <2>2 DEF ClassMade, Made
  <2>5. BlockEntries(m) = make_block2_entry(m)
    BY <1>2 DEF BlockEntries
  <2> QED
    BY <2>3, <2>4, <2>5 DEF BlockSaid
<1> QED
  BY <1>1, <1>2

LEMMA ClassesMade ==
  ASSUME PydocAssumption, index \in Indexes, NEW m, Origin(m)
  PROVE  /\ ClassEntries(m) \in Seq(EntryRecord)
         /\ \A e \in Range(ClassEntries(m)) : Made(e)
         /\ ClassSaid(m, Range(ClassEntries(m)))
<1> DEFINE Due == m.kind = "class" /\ m.file = "good" /\ ~Block2(m) /\ Head(m.name) # "std"
<1>1. CASE ~Due
  BY <1>1, NothingMade DEF ClassEntries, ClassSaid
<1>2. CASE Due
  <2>1. PICK n \in DOMAIN index : m = index[n] /\ m \in CompoundRecord /\ WellFormed(m)
    BY <1>2, OriginClass
  <2>2. /\ make_class_entry(m, m.text, {}) \in Seq(EntryRecord)
        /\ \A e \in Range(make_class_entry(m, m.text, {})) : ClassMade(m, e)
        /\ Covers(m, Range(make_class_entry(m, m.text, {})))
    BY <1>2, <2>1, OtherClassEntriesAre
  <2>3. \A e : ClassMade(m, e) => Made(e)
    BY <1>2, <2>1 DEF ClassMade, Made
  <2>4. ClassEntries(m) = make_class_entry(m, m.text, {})
    BY <1>2 DEF ClassEntries
  <2> QED
    BY <2>2, <2>3, <2>4 DEF ClassSaid
<1> QED
  BY <1>1, <1>2

LEMMA FunctionsMade ==
  ASSUME PydocAssumption, index \in Indexes, NEW m, Origin(m)
  PROVE  /\ FunctionEntries(m) \in Seq(EntryRecord)
         /\ \A e \in Range(FunctionEntries(m)) : Made(e)
         /\ FunctionSaid(m, Range(FunctionEntries(m)))
<1>1. CASE m.kind # "function"
  BY <1>1, NothingMade DEF FunctionEntries, FunctionSaid
<1>2. CASE m.kind = "function"
  <2> DEFINE e == make_entry(m.definition, m.text)
  <2>1. m \in MemberRecord
    BY <1>2, OriginFunction
  <2>2. PICK n \in DOMAIN index :
          /\ Opened(index[n])
          /\ Marked(m.text, m.definition)
          /\ "operator " \notin Range(m.definition) => m \in Documented(index[n])
    BY <1>2, OriginFunction
  <2>3. m.definition \in Joint /\ m.definition # <<>> /\ m.text \in Text
    BY <2>1 DEF MemberRecord, Name, Joint
  <2>4. e \in EntryRecord
    BY <2>3, EntryType
  <2>5. "operator " \in Range(m.definition) => e = NoEntry
    BY DEF make_entry
  <2>6. "operator " \notin Range(m.definition) => e.key = m.definition /\ e.text = m.text
    BY DEF make_entry, Entry
  <2>7. FunctionEntries(m) = <<e>>
    BY <1>2 DEF FunctionEntries
  <2> HIDE DEF e
  <2>8. ASSUME "operator " \notin Range(m.definition) PROVE Made(e)
    <3>1. Near(e)
      BY <2>2, <2>6, <2>8 DEF Near, Marked
    <3>2. OfFunction(index[n], e)
      BY <2>2, <2>6, <2>8 DEF OfFunction
    <3>3. e.key # <<>>
      BY <2>3, <2>6, <2>8
    <3> QED
      BY <2>2, <3>1, <3>2, <3>3 DEF Made
  <2>9. Made(e)
    BY <2>5, <2>8 DEF Made
  <2>10. <<e>> \in Seq(EntryRecord) /\ Range(<<e>>) = {e}
    BY <2>4, RangeSingle
  <2> QED
    BY <2>6, <2>7, <2>9, <2>10 DEF FunctionSaid
<1> QED
  BY <1>1, <1>2

-----------------------------------------------------------------------------
(* The inductive invariant.                                                *)

Stages == {"blocks", "functions", "classes", "sub", "done"}

Things == CompoundRecord \cup MemberRecord \cup {None}

Blank == [n \in DOMAIN Templates |-> [s \in Templates[n].slots |-> <<>>]]

Shape ==
  /\ index \in Indexes
  /\ filter \in Filters
  /\ TypeOK
  /\ members \in Seq(Things)
  /\ output \in Seq(EntryRecord)
  /\ DOMAIN slots = DOMAIN Templates

MembersAre == \A m \in Range(members) : Origin(m)

\* What is needed of a compound is among the members.
Collected(n) ==
  /\ index[n].kind = "class" => index[n] \in Range(members)
  /\ Opened(index[n]) => Documented(index[n]) \subseteq Range(members)

MembersAll ==
  /\ pc = "index" => i <= Len(index) + 1 /\ \A n \in 1..(i - 1) : Collected(n)
  /\ pc \in Stages => \A n \in DOMAIN index : Collected(n)

OutputMade == \A e \in Range(output) : Made(e)

\* A loop has put what it has to into the log for the members behind it.
Entered ==
  \A n \in DOMAIN members :
    /\ (pc = "blocks" /\ n < i) \/ pc \in Stages \ {"blocks"} =>
         BlockSaid(members[n], Range(output))
    /\ (pc = "functions" /\ n < i) \/ pc \in Stages \ {"blocks", "functions"} =>
         FunctionSaid(members[n], Range(output))
    /\ (pc = "classes" /\ n < i) \/ pc \in {"sub", "done"} =>
         ClassSaid(members[n], Range(output))

CrashTold ==
  /\ pc \in Stages => index_file = "good"
  /\ pc = "crashed" =>
       \/ index_file # "good"
       \/ \E n \in DOMAIN index :
            \/ ~CanParse(index[n])
            \/ index[n].file = "refused"
            \/ index[n].file = "malformed" /\ index[n].kind # "class"

\* The key number n has been tried on the template x.
Tried(x, n) == pc \in {"sub", "done"} /\ (x < t \/ (x = t /\ n < i))

\* A slot is as in the template or has the text of a key that has been tried.
SlotFrom(x, s) ==
  \/ s \in DOMAIN slots[x] /\ slots[x][s] = <<>>
  \/ \E n \in DOMAIN output :
       /\ IsItem(n) /\ Tried(x, n) /\ doc_key(Item(n).key) = s
       /\ s \in DOMAIN slots[x] => slots[x][s] = Item(n).text

SlotsFrom ==
  \A x \in DOMAIN Templates :
    /\ DOMAIN slots[x] \subseteq Templates[x].slots
    /\ \A s \in Templates[x].slots : SlotFrom(x, s)

\* What NothingUnsaid says of an item and a template.
Told(x, e) ==
  doc_key(e.key) \in Templates[x].slots =>
    \/ doc_key(e.key) \in DOMAIN slots[x] /\ slots[x][doc_key(e.key)] = e.text
    \/ doc_key(e.key) \notin DOMAIN slots[x] /\ SpoilsSlot(e.text)
    \/ <<"FAIL", x>> \in status /\ BadReplacement(e.text)
    \/ filter # <<>> /\ ~IsPrefix(filter \o <<"::">> \o Templates[x].base, e.key)
    \/ \E o \in Items : o # e /\ doc_key(o.key) = doc_key(e.key)

TriedTold ==
  \A x \in DOMAIN Templates, n \in DOMAIN output :
    IsItem(n) /\ Tried(x, n) => Told(x, Item(n))

SubStage ==
  /\ pc \notin {"sub", "done"} => t = 1 /\ slots = Blank
  /\ pc = "done" => t > Len(Templates)

Inv ==
  /\ Shape
  /\ MembersAre /\ MembersAll /\ CrashTold
  /\ OutputMade /\ Entered
  /\ SubStage /\ SlotsFrom /\ TriedTold

-----------------------------------------------------------------------------
(* What the invariant implies.                                             *)

\* An entry with a name of a class is one for that class.
LEMMA ClassKey ==
  ASSUME PydocAssumption, index \in Indexes, NEW e, Made(e), e.key # <<>>,
         NEW n \in DOMAIN index, index[n].kind = "class", e.key \in NamesOf(index[n])
  PROVE  index[n].file = "good" /\ OfClass(index[n], e)
<1>1. OneMeaning(index)
  BY Indexed
<1>2. e # NoEntry
  BY DEF NoEntry, Entry
<1>3. ASSUME NEW x \in DOMAIN index, index[x].kind = "class", OfClass(index[x], e)
      PROVE  x = n
  <2>1. e.key \in NamesOf(index[x])
    <3>1. \A m \in Documented(index[x]) : m \in Range(index[x].members) /\ m.kind = "function"
      BY DocumentedIs, Indexed
    <3> QED
      BY <1>3, <3>1 DEF OfClass, NamesOf
  <2> QED
    BY <1>1, <1>3, <2>1 DEF OneMeaning
<1>4. ASSUME NEW x \in DOMAIN index, Opened(index[x]), OfFunction(index[x], e)
      PROVE  FALSE
  <2>1. PICK m \in Documented(index[x]) : e.key = m.definition
    BY <1>4 DEF OfFunction
  <2>2. m \in Range(index[x].members) /\ m.kind = "function"
    BY DocumentedIs, Indexed
  <2> QED
    BY <1>1, <1>4, <2>1, <2>2 DEF OneMeaning
<1> QED
  BY <1>2, <1>3, <1>4 DEF Made

\* An entry for a documented function of an opened compound is one for a function.
LEMMA FunctionKey ==
  ASSUME PydocAssumption, index \in Indexes, NEW e, Made(e), e.key # <<>>,
         NEW n \in DOMAIN index, Opened(index[n]), NEW m \in Documented(index[n]),
         e.key = m.definition
  PROVE  \E x \in DOMAIN index : Opened(index[x]) /\ OfFunction(index[x], e)
<1>1. OneMeaning(index)
  BY Indexed
<1>2. m \in Range(index[n].members) /\ m.kind = "function"
  BY DocumentedIs, Indexed
<1>3. e # NoEntry
  BY DEF NoEntry, Entry
<1>4. ASSUME NEW x \in DOMAIN index, index[x].kind = "class", OfClass(index[x], e)
      PROVE  FALSE
  <2>1. e.key \in NamesOf(index[x])
    <3>1. \A k \in Documented(index[x]) : k \in Range(index[x].members) /\ k.kind = "function"
      BY DocumentedIs, Indexed
    <3> QED
      BY <1>4, <3>1 DEF OfClass, NamesOf
  <2>2. x \in DOMAIN index /\ n \in DOMAIN index
    OBVIOUS
  <2> QED
    BY <1>1, <1>2, <1>4, <2>1, <2>2 DEF OneMeaning
<1> QED
  BY <1>3, <1>4 DEF Made

\* Two documented functions of a class do not become one by their names.
LEMMA MethodOfDocumented ==
  ASSUME PydocAssumption, NEW c \in CompoundRecord, NEW m \in Documented(c),
         NEW k \in Documented(c), method(c, m) = method(c, k)
  PROVE  m = k
<1>1. m.name \in Name /\ k.name \in Name /\ c.name \in Name
  BY DocumentedIs DEF MemberRecord, CompoundRecord
<1>2. m.name = k.name
  BY <1>1, MethodIs
<1> QED
  BY <1>2, OneDocumented

\* A class that is covered by the log is said by the dictionary.
LEMMA CoveredIsSaid ==
  ASSUME PydocAssumption, index \in Indexes, output \in Seq(EntryRecord), OutputMade,
         NEW n \in DOMAIN index, index[n].kind = "class", Covers(index[n], Range(output))
  PROVE  /\ Says(index[n].name, index[n].text)
         /\ \A m \in Documented(index[n]) : Says(method(index[n], m), m.text)
<1> DEFINE c == index[n]
<1>1. c \in CompoundRecord /\ c.name \in Name
  BY Indexed DEF CompoundRecord
<1>2. \A m \in Documented(c) : m \in Range(c.members) /\ m.kind = "function" /\ m.name \in Name
  BY <1>1, DocumentedIs DEF MemberRecord
<1>3. c.name \in NamesOf(c) /\ \A m \in Documented(c) : method(c, m) \in NamesOf(c)
  BY <1>2 DEF NamesOf
<1>4. \A m \in Documented(c) : method(c, m) # <<>> /\ method(c, m) # c.name
  BY <1>1, <1>2, MethodIs DEF Name
<1>5. \A e \in Items : e \in Range(output) /\ e.key # <<>> /\ Made(e)
  BY ItemsAreEntries DEF OutputMade
<1>6. \A e \in Items : e.key \in NamesOf(c) => OfClass(c, e)
  BY <1>5, ClassKey
<1> HIDE DEF c
<1>7. Says(c.name, c.text)
  <2>1. PICK e \in Range(output) : e.key = c.name
    BY DEF Covers, c
  <2>2. PICK x \in Items : x.key = c.name
    BY <1>1, <2>1, KeyIsItem DEF Name
  <2>3. OfClass(c, x)
    BY <1>3, <1>6, <2>2
  <2>4. Range(c.text) \subseteq Range(x.text)
    BY <1>4, <2>2, <2>3 DEF OfClass
  <2> QED
    BY <2>2, <2>4 DEF Says
<1>8. ASSUME NEW m \in Documented(c) PROVE Says(method(c, m), m.text)
  <2>1. PICK e \in Range(output) : e.key = method(c, m)
    BY DEF Covers, c
  <2>2. PICK x \in Items : x.key = method(c, m)
    BY <1>4, <2>1, KeyIsItem
  <2>3. OfClass(c, x)
    BY <1>3, <1>6, <2>2
  <2>4. PICK k \in Documented(c) : x.key = method(c, k) /\ Range(k.text) \subseteq Range(x.text)
    BY <1>4, <2>2, <2>3 DEF OfClass
  <2>5. k = m
    BY <1>1, <2>2, <2>4, MethodOfDocumented
  <2> QED
    BY <2>2, <2>4, <2>5 DEF Says
<1> QED
  BY <1>7, <1>8 DEF c

\* A class with a good file is covered when the loops are through.
LEMMA AllCovered ==
  ASSUME PydocAssumption, Inv, pc \in {"sub", "done"},
         NEW n \in DOMAIN index, index[n].kind = "class", index[n].file = "good",
         Head(index[n].name) # "std"
  PROVE  Covers(index[n], Range(output))
<1>1. index[n] \in Range(members)
  BY DEF Inv, MembersAll, Stages, Collected
<1>2. PICK k \in DOMAIN members : members[k] = index[n]
  BY <1>1 DEF Range
<1>3. BlockSaid(index[n], Range(output)) /\ ClassSaid(index[n], Range(output))
  BY <1>2 DEF Inv, Entered, Stages
<1> QED
  BY <1>3 DEF BlockSaid, ClassSaid

\* The three parts of the properties: what ends a scrape, what is in the dictionary,
\* and what is in the slots.
LEMMA InvScrapeRight ==
  ASSUME PydocAssumption, Inv
  PROVE  ScrapeRight
<1> DEFINE Right(c) ==
      /\ c.kind = "class" /\ c.file = "good" /\ Head(c.name) # "std" =>
           /\ Says(c.name, c.text)
           /\ \A m \in Documented(c) : Says(method(c, m), m.text)
      /\ c.kind = "class" /\ c.file # "good" =>
           \A e \in Items : e.key \notin NamesOf(c)
      /\ Opened(c) =>
           \A m \in Documented(c) :
             \E x \in Range(index) :
               Opened(x) /\ \E m2 \in Documented(x) :
                 m2.definition = m.definition /\ Says(m.definition, m2.text)
<1>1. index \in Indexes /\ output \in Seq(EntryRecord) /\ OutputMade /\ CrashTold
  BY DEF Inv, Shape
<1>2. \A e \in Items : e \in Range(output) /\ e.key # <<>> /\ Made(e)
  BY <1>1, ItemsAreEntries DEF OutputMade
<1>3. ASSUME pc \in {"sub", "done"}, NEW n \in DOMAIN index PROVE Right(index[n])
  <2>1. ASSUME index[n].kind = "class", index[n].file = "good", Head(index[n].name) # "std"
        PROVE  /\ Says(index[n].name, index[n].text)
               /\ \A m \in Documented(index[n]) : Says(method(index[n], m), m.text)
    BY <1>1, <1>3, <2>1, AllCovered, CoveredIsSaid
  <2>2. ASSUME index[n].kind = "class", index[n].file # "good"
        PROVE  \A e \in Items : e.key \notin NamesOf(index[n])
    BY <1>1, <1>2, <2>2, ClassKey
  <2>3. ASSUME Opened(index[n]), NEW m \in Documented(index[n])
        PROVE  \E x \in Range(index) :
                 Opened(x) /\ \E m2 \in Documented(x) :
                   m2.definition = m.definition /\ Says(m.definition, m2.text)
    <3>1. m \in Range(members)
      BY <1>3, <2>3 DEF Inv, MembersAll, Stages, Collected
    <3>2. PICK k \in DOMAIN members : members[k] = m
      BY <3>1 DEF Range
    <3>3. FunctionSaid(m, Range(output))
      BY <1>3, <3>2 DEF Inv, Entered, Stages
    <3>4. m \in MemberRecord /\ m.kind = "function" /\ "operator " \notin Range(NameIn(index[n], m))
      BY <2>3, DocumentedIs, Indexed, <1>1
    <3>5. NameIn(index[n], m) = m.definition
      BY <2>3 DEF NameIn, Opened
    <3>6. PICK e \in Range(output) : e.key = m.definition
      BY <3>3, <3>4, <3>5 DEF FunctionSaid
    <3>7. m.definition # <<>>
      BY <3>4 DEF MemberRecord, Name
    <3>8. PICK y \in Items : y.key = m.definition
      BY <1>1, <3>6, <3>7, KeyIsItem
    <3>9. PICK x \in DOMAIN index : Opened(index[x]) /\ OfFunction(index[x], y)
      BY <1>1, <1>2, <2>3, <3>8, FunctionKey
    <3>10. PICK m2 \in Documented(index[x]) : y.key = m2.definition /\ y.text = m2.text
      BY <3>9 DEF OfFunction
    <3>11. Says(m.definition, m2.text) /\ m2.definition = m.definition
      BY <3>8, <3>10 DEF Says
    <3> QED
      BY <3>9, <3>11 DEF Range
  <2> QED
    BY <2>1, <2>2, <2>3
<1> HIDE DEF Right
<1>4. pc \in {"sub", "done"} => \A n \in DOMAIN index : Right(index[n])
  BY <1>3
<1> QED
  BY <1>1, <1>4 DEF ScrapeRight, CrashTold, Right, Stages

LEMMA InvOwnWords ==
  ASSUME PydocAssumption, Inv
  PROVE  OwnWords
<1> SUFFICES ASSUME NEW n \in DOMAIN slots, NEW s \in DOMAIN slots[n],
                    NEW p \in Range(slots[n][s])
             PROVE  \/ p \in Range(Heading)
                    \/ doc_key(p.of) = s
                    \/ doc_key(p.of) = s \o <<"_", "make">>
                    \/ s = doc_key(p.of) \o <<"_", "make">>
  BY DEF OwnWords
<1>1. index \in Indexes /\ output \in Seq(EntryRecord) /\ OutputMade
      /\ n \in DOMAIN Templates /\ s \in Templates[n].slots /\ SlotFrom(n, s)
  BY DEF Inv, Shape, SlotsFrom
<1>2. slots[n][s] # <<>>
  BY DEF Range
<1>3. PICK k \in DOMAIN output :
        IsItem(k) /\ doc_key(Item(k).key) = s /\ slots[n][s] = Item(k).text
  BY <1>1, <1>2 DEF SlotFrom
<1> DEFINE e == Item(k)
<1>4. e \in Items
  BY <1>3 DEF Items
<1> HIDE DEF e
<1>5. e \in EntryRecord /\ e.key # <<>> /\ Made(e)
  BY <1>1, <1>4, ItemsAreEntries DEF OutputMade
<1>6. e # NoEntry
  BY <1>5 DEF NoEntry, Entry
<1>7. Near(e) /\ p \in Range(e.text)
  BY <1>3, <1>5, <1>6 DEF Made, e
<1>8. e.key \in Joint /\ p.of \in Joint
  <2>1. e.text \in Text /\ e.key \in Joint
    BY <1>5 DEF EntryRecord
  <2>2. p \in [of : Name \cup {<<>>}, form : {"plain", "bracket", "digit", "octal"}]
    BY <1>7, <2>1, RangeWithin DEF Text
  <2>3. Name \cup {<<>>} \subseteq Joint
    BY EmptySeq DEF Name, Joint
  <2> QED
    BY <2>1, <2>2, <2>3
<1>9. s = doc_key(e.key)
  BY <1>3 DEF e
<1>10. CASE p \in Range(Heading)
  BY <1>10
<1>11. CASE p.of = e.key
  BY <1>9, <1>11
<1>12. CASE p.of = MakeOf(e.key)
  BY <1>8, <1>9, <1>12, MakeOfIs
<1>13. CASE e.key = MakeOf(p.of)
  BY <1>8, <1>9, <1>13, MakeOfIs
<1> QED
  BY <1>7, <1>10, <1>11, <1>12, <1>13 DEF Near

LEMMA InvNothingUnsaid ==
  ASSUME PydocAssumption, Inv
  PROVE  NothingUnsaid
<1> SUFFICES ASSUME pc = "done", NEW e \in Items, NEW x \in DOMAIN Templates PROVE Told(x, e)
  BY DEF NothingUnsaid, Told
<1>1. PICK n \in DOMAIN output : IsItem(n) /\ e = Item(n)
  BY DEF Items
<1>2. Len(Templates) \in Nat /\ DOMAIN Templates = 1..Len(Templates)
  <2>1. Templates \in Seq([base : Name, slots : SUBSET Name])
    BY DEF PydocAssumption
  <2> QED
    BY <2>1, LenProperties
<1>3. t > Len(Templates) /\ t \in 1..(Len(Templates) + 1)
  BY DEF Inv, SubStage, Shape, TypeOK
<1>4. Tried(x, n)
  BY <1>2, <1>3 DEF Tried
<1> QED
  BY <1>1, <1>4 DEF Inv, TriedTold

-----------------------------------------------------------------------------
(* The invariant holds initially, and every step keeps it.                 *)

LEMMA TemplatesAreSeq ==
  ASSUME PydocAssumption
  PROVE  Len(Templates) \in Nat /\ DOMAIN Templates = 1..Len(Templates)
<1>1. Templates \in Seq([base : Name, slots : SUBSET Name])
  BY DEF PydocAssumption
<1> QED
  BY <1>1, LenProperties

LEMMA InvInit ==
  ASSUME PydocAssumption, Init
  PROVE  Inv
<1>1. Shape
  BY TemplatesAreSeq DEF Init, Shape, TypeOK
<1>2. MembersAre /\ MembersAll /\ CrashTold /\ OutputMade /\ Entered
  <2>1. Len(index) \in Nat /\ Range(members) = {} /\ Range(output) = {} /\ DOMAIN members = {}
    BY IndexIsSeq DEF Init, Range
  <2> QED
    BY <2>1 DEF Init, MembersAre, MembersAll, CrashTold, OutputMade, Entered, Stages
<1>3. SubStage /\ SlotsFrom /\ TriedTold
  BY DEF Init, SubStage, SlotsFrom, SlotFrom, TriedTold, Tried, Blank
<1> QED
  BY <1>1, <1>2, <1>3 DEF Inv

LEMMA DictionaryStays ==
  ASSUME output' = output
  PROVE  /\ \A n : (IsItem(n)' <=> IsItem(n)) /\ Item(n)' = Item(n)
         /\ Items' = Items
  BY DEF IsItem, Item, IsLast, Items

\* Before `sub' the slots are as in the templates.
LEMMA BeforeSub ==
  ASSUME pc' \notin {"sub", "done"}, t' = 1, slots' = Blank
  PROVE  SubStage' /\ SlotsFrom' /\ TriedTold'
<1>1. SubStage' /\ TriedTold'
  BY DEF SubStage, TriedTold, Tried
<1>2. SlotsFrom'
  BY DEF SlotsFrom, SlotFrom, Blank
<1> QED
  BY <1>1, <1>2

\* Steps that leave the slots alone and stay before `sub'.
LEMMA SlotsRest ==
  ASSUME Inv, pc \notin {"sub", "done"}, pc' \notin {"sub", "done"}, UNCHANGED <<t, slots>>
  PROVE  SubStage' /\ SlotsFrom' /\ TriedTold'
  BY BeforeSub DEF Inv, SubStage

LEMMA OriginStays ==
  ASSUME index' = index
  PROVE  \A m : (Origin(m)' <=> Origin(m)) /\ (Made(m)' <=> Made(m))
  BY DEF Origin, Made

LEMMA DocumentedIsKept ==
  ASSUME NEW c \in CompoundRecord
  PROVE  Documented(c) \subseteq Kept(c)
<1> SUFFICES ASSUME NEW m \in Documented(c) PROVE m \in Kept(c)
  OBVIOUS
<1>1. PICK n \in DOMAIN c.members : m = c.members[n] /\ m.kind = "function" /\ First(c, n)
  BY DocumentedIs
<1> QED
  BY <1>1 DEF Kept, CanParse, MemberKinds

\* One compound: what is needed of it is added to the members.
LEMMA IndexCompoundStep ==
  ASSUME PydocAssumption, Inv, IndexCompound
  PROVE  Inv'
<1> DEFINE c == index[i]
           p == IF Opened(c) THEN process_memberdefs(c) ELSE <<>>
           q == IF c.kind = "file" /\ ~c.header THEN <<>> ELSE <<c>>
           mp == members \o p
<1>1. /\ index \in Indexes /\ members \in Seq(Things) /\ i \in Nat \ {0}
      /\ pc = "index" /\ pc' = "index" /\ i' = i + 1 /\ i <= Len(index)
      /\ index_file' = index_file /\ index' = index /\ filter' = filter /\ t' = t /\ output' = output
      /\ slots' = slots /\ status' = status
  BY DEF Inv, Shape, TypeOK, IndexCompound, input
<1>2. i \in DOMAIN index /\ Len(index) \in Nat /\ DOMAIN index = 1..Len(index)
  BY <1>1, IndexIsSeq
<1>3. c \in CompoundRecord
  BY <1>1, <1>2, Indexed
<1>4. p \in Seq(Things) /\ Range(p) \subseteq Kept(c) \cup {None} /\ (Opened(c) => Kept(c) \subseteq Range(p))
  <2>1. CASE Opened(c)
    <3> DEFINE k == process_memberdefs(c)
    <3>1. k \in Seq(MemberRecord \cup {None}) /\ Range(k) \subseteq Kept(c) \cup {None}
          /\ Kept(c) \subseteq Range(k)
      BY <1>3, KeptIs
    <3>2. p = k
      BY <2>1
    <3> HIDE DEF k, p, c
    <3>3. k \in Seq(Things)
      BY <3>1, SeqMonotonic DEF Things
    <3> QED
      BY <3>1, <3>2, <3>3
  <2>2. CASE ~Opened(c)
    <3>1. p = <<>>
      BY <2>2
    <3> HIDE DEF p, c
    <3> QED
      BY <2>2, <3>1 DEF Range
  <2> QED
    BY <2>1, <2>2
<1>5. q \in Seq(Things) /\ Range(q) \subseteq {c} /\ (c.kind = "class" => c \in Range(q))
  <2>1. c \in Things
    BY <1>3 DEF Things
  <2>2. CASE c.kind = "file" /\ ~c.header
    <3>1. q = <<>>
      BY <2>2
    <3> HIDE DEF q, c
    <3> QED
      BY <2>2, <3>1 DEF Range
  <2>3. CASE ~(c.kind = "file" /\ ~c.header)
    <3>1. q = <<c>>
      BY <2>3
    <3> HIDE DEF q, c
    <3> QED
      BY <2>1, <3>1, RangeSingle
  <2> QED
    BY <2>2, <2>3
<1>6. members' = mp \o q
  BY DEF IndexCompound
<1> HIDE DEF p, q
<1>7. mp \in Seq(Things) /\ Range(mp) = Range(members) \cup Range(p)
  BY <1>1, <1>4, RangeJoined, ConcatProperties
<1> HIDE DEF mp
<1>8. members' \in Seq(Things) /\ Range(members') = Range(members) \cup Range(p) \cup Range(q)
  <2>1. mp \o q \in Seq(Things) /\ Range(mp \o q) = Range(mp) \cup Range(q)
    BY <1>5, <1>7, RangeJoined, ConcatProperties
  <2> QED
    BY <1>6, <1>7, <2>1
<1>9. Shape'
  BY <1>1, <1>8 DEF Inv, Shape, TypeOK
<1>10. MembersAre'
  <2>1. \A m \in Range(members') : Origin(m)
    <3>1. \A m \in Range(members) : Origin(m)
      BY DEF Inv, MembersAre
    <3>2. \A m \in Range(p) : Origin(m)
      <4>1. CASE Opened(c)
        BY <1>2, <1>4, <4>1 DEF Origin
      <4>2. CASE ~Opened(c)
        BY <4>2 DEF p, Range
      <4> QED
        BY <4>1, <4>2
    <3>3. \A m \in Range(q) : Origin(m)
      BY <1>2, <1>5 DEF Origin
    <3> QED
      BY <1>8, <3>1, <3>2, <3>3
  <2> QED
    BY <1>1, <2>1, OriginStays DEF MembersAre
<1>11. MembersAll'
  <2>1. \A n \in 1..(i - 1) : Collected(n)
    BY <1>1 DEF Inv, MembersAll
  <2>2. ASSUME NEW n \in 1..((i + 1) - 1) PROVE Collected(n)'
    <3>1. CASE n = i
      <4>1. Documented(c) \subseteq Kept(c)
        BY <1>3, DocumentedIsKept
      <4> QED
        BY <1>1, <1>4, <1>5, <1>8, <3>1, <4>1 DEF Collected
    <3>2. CASE n # i
      <4>1. n \in 1..(i - 1)
        BY <1>1, <3>2
      <4> QED
        BY <1>1, <1>8, <2>1, <4>1 DEF Collected
    <3> QED
      BY <3>1, <3>2
  <2>3. i' <= Len(index') + 1
    BY <1>1, <1>2
  <2> QED
    BY <1>1, <2>2, <2>3 DEF MembersAll, Stages
<1>12. CrashTold' /\ Entered'
  BY <1>1 DEF CrashTold, Entered, Stages
<1>13. OutputMade'
  BY <1>1, OriginStays DEF Inv, OutputMade
<1>14. SubStage' /\ SlotsFrom' /\ TriedTold'
  BY <1>1, SlotsRest
<1> QED
  BY <1>9, <1>10, <1>11, <1>12, <1>13, <1>14 DEF Inv

\* What ends the scrape is a fault of the index or of a file.
LEMMA CrashStep ==
  ASSUME PydocAssumption, Inv, IndexFileCrash \/ IndexCrash \/ ClassCrash
  PROVE  Inv'
<1>1. /\ pc = "index" /\ Crash /\ i \in Nat \ {0}
      /\ index \in Indexes
  BY DEF IndexFileCrash, IndexCrash, ClassCrash, Inv, Shape, TypeOK
<1>2. /\ pc' = "crashed"
      /\ UNCHANGED <<index_file, index, filter, i, t, members, output, slots, status>>
  BY <1>1 DEF Crash, input
<1>3. Len(index) \in Nat /\ DOMAIN index = 1..Len(index)
  BY <1>1, IndexIsSeq
<1>4. \/ index_file # "good"
      \/ \E n \in DOMAIN index :
           \/ ~CanParse(index[n])
           \/ index[n].file = "refused"
           \/ index[n].file = "malformed" /\ index[n].kind # "class"
  <2>1. CASE IndexCrash
    <3>1. i \in DOMAIN index /\ (~CanParse(index[i]) \/ (Opened(index[i]) /\ index[i].file # "good"))
      BY <1>1, <1>3, <2>1 DEF IndexCrash
    <3>2. index[i].file \in {"good", "malformed", "refused"}
      BY <1>1, <3>1, Indexed DEF CompoundRecord
    <3> QED
      BY <3>1, <3>2 DEF Opened
  <2>2. CASE ClassCrash
    <3>1. PICK n \in DOMAIN members : members[n].kind = "class" /\ members[n].file = "refused"
      BY <2>2 DEF ClassCrash
    <3>2. Origin(members[n])
      BY DEF Inv, MembersAre, Range
    <3>3. PICK x \in DOMAIN index : members[n] = index[x]
      BY <1>1, <3>1, <3>2, OriginClass
    <3> QED
      BY <3>1, <3>3
  <2>3. CASE IndexFileCrash
    BY <2>3 DEF IndexFileCrash
  <2> QED
    BY <2>1, <2>2, <2>3
<1>5. Shape'
  BY <1>2 DEF Inv, Shape, TypeOK
<1>6. MembersAre' /\ OutputMade'
  BY <1>2, OriginStays DEF Inv, MembersAre, OutputMade
<1>7. MembersAll' /\ Entered'
  BY <1>2 DEF MembersAll, Entered, Stages
<1>8. CrashTold'
  BY <1>2, <1>4 DEF CrashTold, Stages
<1>9. SubStage' /\ SlotsFrom' /\ TriedTold'
  BY <1>1, <1>2, SlotsRest
<1> QED
  BY <1>5, <1>6, <1>7, <1>8, <1>9 DEF Inv

\* All compounds have been read.
LEMMA IndexEndStep ==
  ASSUME PydocAssumption, Inv, IndexEnd
  PROVE  Inv'
<1>1. /\ pc = "index" /\ pc' = "blocks" /\ i \in Nat /\ i > Len(index) /\ i' = 1
      /\ index_file = "good"
      /\ UNCHANGED <<index_file, index, filter, t, members, output, slots, status>>
      /\ index \in Indexes /\ members \in Seq(Things)
  BY DEF IndexEnd, input, Inv, Shape, TypeOK
<1>2. Len(index) \in Nat /\ DOMAIN index = 1..Len(index)
  BY <1>1, IndexIsSeq
<1>3. Shape'
  BY <1>1 DEF Inv, Shape, TypeOK
<1>4. MembersAre' /\ OutputMade'
  BY <1>1, OriginStays DEF Inv, MembersAre, OutputMade
<1>5. MembersAll'
  <2>1. i <= Len(index) + 1 /\ \A n \in 1..(i - 1) : Collected(n)
    BY <1>1 DEF Inv, MembersAll
  <2>2. DOMAIN index \subseteq 1..(i - 1)
    BY <1>1, <1>2
  <2>3. \A n \in DOMAIN index : Collected(n)
    BY <2>1, <2>2
  <2> QED
    BY <1>1, <2>3 DEF MembersAll, Collected
<1>6. Entered'
  <2>1. \A n \in DOMAIN members : ~(n < 1)
    BY <1>1, LenProperties
  <2> QED
    BY <1>1, <2>1 DEF Entered, Stages
<1>7. CrashTold'
  BY <1>1 DEF CrashTold
<1>8. SubStage' /\ SlotsFrom' /\ TriedTold'
  BY <1>1, SlotsRest
<1> QED
  BY <1>3, <1>4, <1>5, <1>6, <1>7, <1>8 DEF Inv

\* What the log says it goes on saying.
LEMMA MoreSaid ==
  ASSUME NEW m, NEW A, NEW B, A \subseteq B
  PROVE  /\ BlockSaid(m, A) => BlockSaid(m, B)
         /\ FunctionSaid(m, A) => FunctionSaid(m, B)
         /\ ClassSaid(m, A) => ClassSaid(m, B)
  BY DEF BlockSaid, FunctionSaid, ClassSaid, Covers

\* One step of one of the three loops.
LEMMA ScrapeStep ==
  ASSUME PydocAssumption, Inv, NEW entries, entries \in Seq(EntryRecord),
         NEW stage \in {"blocks", "functions", "classes"},
         Scrape(stage, entries),
         \A e \in Range(entries) : Made(e),
         stage = "blocks" => BlockSaid(members[i], Range(entries)),
         stage = "functions" => FunctionSaid(members[i], Range(entries)),
         stage = "classes" => ClassSaid(members[i], Range(entries))
  PROVE  Inv'
<1>1. /\ pc = stage /\ pc' = stage /\ i \in Nat \ {0} /\ i' = i + 1
      /\ output' = output \o entries /\ output \in Seq(EntryRecord)
      /\ UNCHANGED <<index_file, index, filter, t, members, slots, status>>
      /\ members \in Seq(Things)
  BY DEF Scrape, input, Inv, Shape, TypeOK
<1>2. output' \in Seq(EntryRecord) /\ Range(output') = Range(output) \cup Range(entries)
  <2> DEFINE all == output \o entries
  <2>1. all \in Seq(EntryRecord) /\ Range(all) = Range(output) \cup Range(entries)
    BY <1>1, RangeJoined, ConcatProperties
  <2> HIDE DEF all
  <2>2. output' = all
    BY <1>1 DEF all
  <2> QED
    BY <2>1, <2>2
<1>3. Shape'
  BY <1>1, <1>2 DEF Inv, Shape, TypeOK
<1>4. MembersAre' /\ MembersAll' /\ CrashTold'
  BY <1>1, OriginStays DEF Inv, MembersAre, MembersAll, CrashTold, Collected, Stages
<1>5. OutputMade'
  <2>1. \A e \in Range(output') : Made(e)
    BY <1>2 DEF Inv, OutputMade
  <2> QED
    BY <1>1, <2>1, OriginStays DEF OutputMade
<1>6. Entered'
  <2> SUFFICES ASSUME NEW n \in DOMAIN members
               PROVE  /\ (stage = "blocks" /\ n < i + 1) \/ stage \in Stages \ {"blocks"} =>
                           BlockSaid(members[n], Range(output'))
                      /\ (stage = "functions" /\ n < i + 1) \/ stage \in Stages \ {"blocks", "functions"} =>
                           FunctionSaid(members[n], Range(output'))
                      /\ (stage = "classes" /\ n < i + 1) \/ stage \in {"sub", "done"} =>
                           ClassSaid(members[n], Range(output'))
    BY <1>1 DEF Entered
  <2>1. n \in Nat
    BY <1>1, LenProperties
  <2>2. n < i + 1 => n < i \/ n = i
    BY <1>1, <2>1
  <2>3. /\ (stage = "blocks" /\ n < i) \/ stage \in Stages \ {"blocks"} =>
             BlockSaid(members[n], Range(output))
        /\ (stage = "functions" /\ n < i) \/ stage \in Stages \ {"blocks", "functions"} =>
             FunctionSaid(members[n], Range(output))
        /\ (stage = "classes" /\ n < i) \/ stage \in {"sub", "done"} =>
             ClassSaid(members[n], Range(output))
    BY <1>1 DEF Inv, Entered
  <2>4. /\ BlockSaid(members[n], Range(output)) => BlockSaid(members[n], Range(output'))
        /\ FunctionSaid(members[n], Range(output)) => FunctionSaid(members[n], Range(output'))
        /\ ClassSaid(members[n], Range(output)) => ClassSaid(members[n], Range(output'))
        /\ BlockSaid(members[n], Range(entries)) => BlockSaid(members[n], Range(output'))
        /\ FunctionSaid(members[n], Range(entries)) => FunctionSaid(members[n], Range(output'))
        /\ ClassSaid(members[n], Range(entries)) => ClassSaid(members[n], Range(output'))
    BY <1>2, MoreSaid
  <2> QED
    BY <2>2, <2>3, <2>4
<1>7. SubStage' /\ SlotsFrom' /\ TriedTold'
  BY <1>1, SlotsRest
<1> QED
  BY <1>3, <1>4, <1>5, <1>6, <1>7 DEF Inv

\* The loops over blocks, functions and classes.
LEMMA LoopSteps ==
  ASSUME PydocAssumption, Inv, Blocks \/ Functions \/ Classes
  PROVE  Inv'
<1>1. /\ index \in Indexes /\ members \in Seq(Things) /\ i \in Nat \ {0} /\ i <= Len(members)
  BY DEF Inv, Shape, TypeOK, Blocks, Functions, Classes, Scrape
<1>2. Origin(members[i])
  <2>1. i \in DOMAIN members
    BY <1>1, LenProperties
  <2> QED
    BY <2>1 DEF Inv, MembersAre, Range
<1>3. CASE Blocks
  <2> DEFINE es == BlockEntries(members[i])
  <2>1. es \in Seq(EntryRecord) /\ (\A e \in Range(es) : Made(e)) /\ BlockSaid(members[i], Range(es))
    BY <1>1, <1>2, BlocksMade
  <2>2. Scrape("blocks", es)
    BY <1>3 DEF Blocks
  <2> HIDE DEF es
  <2> QED
    BY <2>1, <2>2, ScrapeStep
<1>4. CASE Functions
  <2> DEFINE es == FunctionEntries(members[i])
  <2>1. es \in Seq(EntryRecord) /\ (\A e \in Range(es) : Made(e)) /\ FunctionSaid(members[i], Range(es))
    BY <1>1, <1>2, FunctionsMade
  <2>2. Scrape("functions", es)
    BY <1>4 DEF Functions
  <2> HIDE DEF es
  <2> QED
    BY <2>1, <2>2, ScrapeStep
<1>5. CASE Classes
  <2> DEFINE es == ClassEntries(members[i])
  <2>1. es \in Seq(EntryRecord) /\ (\A e \in Range(es) : Made(e)) /\ ClassSaid(members[i], Range(es))
    BY <1>1, <1>2, ClassesMade
  <2>2. Scrape("classes", es)
    BY <1>5 DEF Classes
  <2> HIDE DEF es
  <2> QED
    BY <2>1, <2>2, ScrapeStep
<1> QED
  BY <1>3, <1>4, <1>5

\* A loop that has ended has been over all members.
LEMMA NextStageStep ==
  ASSUME PydocAssumption, Inv, NextStage
  PROVE  Inv'
<1>1. /\ pc \in {"blocks", "functions", "classes"}
      /\ i > Len(members) /\ i' = 1 /\ i \in Nat
      /\ UNCHANGED <<index_file, index, filter, t, members, output, slots, status>>
      /\ members \in Seq(Things)
  BY DEF NextStage, input, Inv, Shape, TypeOK
<1>2. /\ pc = "blocks" => pc' = "functions"
      /\ pc = "functions" => pc' = "classes"
      /\ pc = "classes" => pc' = "sub"
  BY DEF NextStage
<1>3. pc' \in {"functions", "classes", "sub"}
  BY <1>1, <1>2
<1>4. \A n \in DOMAIN members : n < i /\ ~(n < 1)
  BY <1>1, LenProperties
<1>5. Shape'
  BY <1>1, <1>3 DEF Inv, Shape, TypeOK
<1>6. MembersAre' /\ CrashTold' /\ OutputMade'
  BY <1>1, <1>3, OriginStays DEF Inv, MembersAre, CrashTold, OutputMade, Stages
<1>7. MembersAll'
  <2>1. \A n \in DOMAIN index : Collected(n)
    BY <1>1 DEF Inv, MembersAll, Stages
  <2> QED
    BY <1>1, <1>3, <2>1 DEF MembersAll, Collected
<1>8. Entered'
  <2> SUFFICES ASSUME NEW n \in DOMAIN members
               PROVE  /\ pc' \in Stages \ {"blocks"} => BlockSaid(members[n], Range(output))
                      /\ pc' \in Stages \ {"blocks", "functions"} => FunctionSaid(members[n], Range(output))
                      /\ pc' \in {"sub", "done"} => ClassSaid(members[n], Range(output))
    BY <1>1, <1>3, <1>4 DEF Entered
  <2> QED
    BY <1>1, <1>2, <1>4 DEF Inv, Entered, Stages
<1>9. SubStage' /\ SlotsFrom' /\ TriedTold'
  <2>1. t = 1 /\ slots = Blank
    BY <1>1 DEF Inv, SubStage
  <2>2. SubStage'
    BY <1>1, <1>3, <2>1 DEF SubStage
  <2>3. SlotsFrom'
    BY <1>1, <2>1 DEF SlotsFrom, SlotFrom, Blank
  <2>4. TriedTold'
    <3>1. \A x \in DOMAIN Templates, n \in DOMAIN output : ~(x < 1) /\ ~(n < 1)
      BY TemplatesAreSeq, LenProperties DEF Inv, Shape
    <3> QED
      BY <1>1, <2>1, <3>1 DEF TriedTold, Tried
  <2> QED
    BY <2>2, <2>3, <2>4
<1> QED
  BY <1>5, <1>6, <1>7, <1>8, <1>9 DEF Inv

\* Steps of `sub' leave what the loops have made.
LEMMA LoopsRest ==
  ASSUME Inv, pc = "sub", pc' \in {"sub", "done"}, UNCHANGED <<index_file, index, members, output>>
  PROVE  MembersAre' /\ MembersAll' /\ CrashTold' /\ OutputMade' /\ Entered'
<1>1. MembersAre' /\ CrashTold' /\ OutputMade'
  BY OriginStays DEF Inv, MembersAre, CrashTold, OutputMade, Stages
<1>2. MembersAll'
  BY DEF Inv, MembersAll, Collected, Stages
<1>3. Entered'
  BY DEF Inv, Entered, Stages
<1> QED
  BY <1>1, <1>2, <1>3

\* All keys have been tried on a template.
LEMMA NextTemplateStep ==
  ASSUME PydocAssumption, Inv, NextTemplate
  PROVE  Inv'
<1>1. /\ pc = "sub" /\ pc' = "sub" /\ t <= Len(Templates) /\ i > Len(output)
      /\ t' = t + 1 /\ i' = 1 /\ i \in Nat /\ t \in 1..(Len(Templates) + 1)
      /\ UNCHANGED <<index_file, index, filter, members, output, slots, status>>
      /\ output \in Seq(EntryRecord)
  BY DEF NextTemplate, input, Inv, Shape, TypeOK
<1>2. Shape'
  BY <1>1, TemplatesAreSeq DEF Inv, Shape, TypeOK
<1>3. MembersAre' /\ MembersAll' /\ CrashTold' /\ OutputMade' /\ Entered'
  BY <1>1, LoopsRest
<1>4. SubStage'
  BY <1>1 DEF SubStage
<1>5. \A x \in DOMAIN Templates, n \in DOMAIN output : Tried(x, n)' <=> Tried(x, n)
  <2>1. \A x \in DOMAIN Templates, n \in DOMAIN output :
          x \in Nat /\ n \in Nat /\ n < i /\ ~(n < 1)
    BY <1>1, TemplatesAreSeq, LenProperties
  <2>2. t \in Nat
    BY <1>1
  <2> SUFFICES ASSUME NEW x \in DOMAIN Templates, NEW n \in DOMAIN output
               PROVE  (x < t + 1 \/ (x = t + 1 /\ n < 1)) <=> (x < t \/ (x = t /\ n < i))
    BY <1>1 DEF Tried
  <2> QED
    BY <1>1, <2>1, <2>2
<1>6. (\A n : (IsItem(n)' <=> IsItem(n)) /\ Item(n)' = Item(n)) /\ Items' = Items
  BY <1>1, DictionaryStays
<1>7. SlotsFrom'
  <2> SUFFICES ASSUME NEW x \in DOMAIN Templates
               PROVE  /\ DOMAIN slots[x] \subseteq Templates[x].slots
                      /\ \A s \in Templates[x].slots : SlotFrom(x, s)'
    BY <1>1 DEF SlotsFrom
  <2>1. DOMAIN slots[x] \subseteq Templates[x].slots
    BY DEF Inv, SlotsFrom
  <2>2. ASSUME NEW s \in Templates[x].slots PROVE SlotFrom(x, s)'
    <3>1. SlotFrom(x, s)
      BY DEF Inv, SlotsFrom
    <3> QED
      BY <1>1, <1>5, <1>6, <3>1 DEF SlotFrom
  <2> QED
    BY <2>1, <2>2
<1>8. TriedTold'
  <2> SUFFICES ASSUME NEW x \in DOMAIN Templates, NEW n \in DOMAIN output,
                      IsItem(n)', Tried(x, n)'
               PROVE  Told(x, Item(n))'
    BY <1>1 DEF TriedTold
  <2>1. Told(x, Item(n))
    BY <1>5, <1>6 DEF Inv, TriedTold
  <2> QED
    BY <1>1, <1>6, <2>1 DEF Told
<1> QED
  BY <1>2, <1>3, <1>4, <1>7, <1>8 DEF Inv

\* All templates have been tried.
LEMMA DoneStep ==
  ASSUME PydocAssumption, Inv, Done
  PROVE  Inv'
<1>1. /\ pc = "sub" /\ pc' = "done" /\ t > Len(Templates)
      /\ UNCHANGED <<index_file, index, filter, i, t, members, output, slots, status>>
  BY DEF Done, input
<1>2. Shape'
  BY <1>1 DEF Inv, Shape, TypeOK
<1>3. MembersAre' /\ MembersAll' /\ CrashTold' /\ OutputMade' /\ Entered'
  BY <1>1, LoopsRest
<1>4. SubStage'
  BY <1>1 DEF SubStage
<1>5. \A x, n : Tried(x, n)' <=> Tried(x, n)
  BY <1>1 DEF Tried
<1>6. (\A n : (IsItem(n)' <=> IsItem(n)) /\ Item(n)' = Item(n)) /\ Items' = Items
  BY <1>1, DictionaryStays
<1>7. SlotsFrom'
  BY <1>1, <1>5, <1>6 DEF Inv, SlotsFrom, SlotFrom
<1>8. TriedTold'
  BY <1>1, <1>5, <1>6 DEF Inv, TriedTold, Told
<1> QED
  BY <1>2, <1>3, <1>4, <1>7, <1>8 DEF Inv

\* One key on one template.
LEMMA SubStep ==
  ASSUME PydocAssumption, Inv, Sub
  PROVE  Inv'
<1> DEFINE e == Item(i)
           tried == IsItem(i) /\ Selected(e.key, t)
           bad == tried /\ BadReplacement(e.text)
           good == tried /\ ~bad /\ Matches(t, e.key)
           key == doc_key(e.key)
<1>1. /\ pc = "sub" /\ pc' = "sub" /\ t <= Len(Templates) /\ i <= Len(output)
      /\ i' = i + 1 /\ i \in Nat \ {0} /\ t \in 1..(Len(Templates) + 1)
      /\ UNCHANGED <<index_file, index, filter, t, members, output>>
      /\ output \in Seq(EntryRecord) /\ DOMAIN slots = DOMAIN Templates
  BY DEF Sub, input, Inv, Shape, TypeOK
<1>2. i \in DOMAIN output /\ t \in DOMAIN Templates
  BY <1>1, TemplatesAreSeq, LenProperties
<1>3. /\ slots' = IF ~good THEN slots
                  ELSE IF SpoilsSlot(e.text) THEN [slots EXCEPT ![t] = Without(@, key)]
                  ELSE [slots EXCEPT ![t][key] = e.text]
      /\ status' = status \cup (IF good THEN {<<"PASS", t>>} ELSE {})
                          \cup (IF bad THEN {<<"FAIL", t>>} ELSE {})
  BY DEF Sub
<1>4. good => key \in DOMAIN slots[t]
  BY DEF Matches
<1>5. (\A n : (IsItem(n)' <=> IsItem(n)) /\ Item(n)' = Item(n)) /\ Items' = Items
  BY <1>1, DictionaryStays
<1>6. IsItem(i) => e \in Items
  BY <1>2 DEF Items
<1>7. \A x \in DOMAIN Templates, n \in DOMAIN output :
        /\ Tried(x, n)' <=> Tried(x, n) \/ (x = t /\ n = i)
        /\ Tried(t, n) => n < i
        /\ n \in Nat /\ x \in Nat
  <2>1. \A x \in DOMAIN Templates, n \in DOMAIN output : x \in Nat /\ n \in Nat
    BY <1>1, TemplatesAreSeq, LenProperties
  <2> QED
    BY <1>1, <2>1 DEF Tried
\* What becomes of the slots.
<1>8. DOMAIN slots' = DOMAIN Templates
  BY <1>1, <1>3
<1>9. \A x \in DOMAIN Templates : x # t \/ ~good => slots'[x] = slots[x]
  BY <1>1, <1>3
<1>10. good => /\ DOMAIN slots'[t] \subseteq DOMAIN slots[t]
               /\ \A s : s # key =>
                    /\ s \in DOMAIN slots'[t] <=> s \in DOMAIN slots[t]
                    /\ s \in DOMAIN slots[t] => slots'[t][s] = slots[t][s]
               /\ IF SpoilsSlot(e.text) THEN key \notin DOMAIN slots'[t]
                  ELSE key \in DOMAIN slots'[t] /\ slots'[t][key] = e.text
  <2> HIDE DEF e, tried, bad, good, key
  <2>1. CASE good /\ SpoilsSlot(e.text)
    <3>1. slots'[t] = Without(slots[t], key)
      BY <1>1, <1>2, <1>3, <2>1
    <3> QED
      BY <2>1, <3>1 DEF Without
  <2>2. CASE good /\ ~SpoilsSlot(e.text)
    <3>1. slots'[t] = [slots[t] EXCEPT ![key] = e.text]
      BY <1>1, <1>2, <1>3, <2>2
    <3> QED
      BY <1>4, <2>2, <3>1
  <2> QED
    BY <2>1, <2>2
<1>11. status \subseteq status' /\ (bad => <<"FAIL", t>> \in status')
       /\ status' \subseteq {"PASS", "FAIL"} \X DOMAIN Templates
  <2>1. status \subseteq {"PASS", "FAIL"} \X DOMAIN Templates
    BY DEF Inv, Shape, TypeOK
  <2> HIDE DEF bad, good
  <2> QED
    BY <1>2, <1>3, <2>1
<1>12. Shape'
  BY <1>1, <1>8, <1>11 DEF Inv, Shape, TypeOK
<1>13. MembersAre' /\ MembersAll' /\ CrashTold' /\ OutputMade' /\ Entered'
  BY <1>1, LoopsRest
<1>14. SubStage'
  BY <1>1 DEF SubStage
<1>15. SlotsFrom'
  <2> HIDE DEF e, tried, bad, good, key
  <2>1. ASSUME NEW x \in DOMAIN Templates PROVE DOMAIN slots'[x] \subseteq Templates[x].slots
    <3>1. DOMAIN slots[x] \subseteq Templates[x].slots
      BY DEF Inv, SlotsFrom
    <3> QED
      BY <1>9, <1>10, <3>1
  <2>2. ASSUME NEW x \in DOMAIN Templates, NEW s \in Templates[x].slots PROVE SlotFrom(x, s)'
    <3>1. SlotFrom(x, s)
      BY DEF Inv, SlotsFrom
    <3>2. CASE x = t /\ s = key /\ good
      <4> PICK n \in DOMAIN output : n = i
        BY <1>2
      <4>1. IsItem(n) /\ s = doc_key(Item(n).key) /\ e = Item(n)
        BY <3>2 DEF e, tried, good, key
      <4>2. s \in DOMAIN slots'[x] => slots'[x][s] = Item(n).text
        BY <1>10, <3>2, <4>1
      <4>3. Tried(x, n)'
        BY <1>7, <3>2
      <4> QED
        BY <1>1, <1>5, <4>1, <4>2, <4>3 DEF SlotFrom
    <3>3. CASE ~(x = t /\ s = key /\ good)
      <4>1. /\ s \in DOMAIN slots'[x] <=> s \in DOMAIN slots[x]
            /\ s \in DOMAIN slots[x] => slots'[x][s] = slots[x][s]
        BY <1>9, <1>10, <3>3
      <4>2. CASE s \in DOMAIN slots[x] /\ slots[x][s] = <<>>
        BY <4>1, <4>2 DEF SlotFrom
      <4>3. CASE ~(s \in DOMAIN slots[x] /\ slots[x][s] = <<>>)
        <5>1. PICK n \in DOMAIN output :
                /\ IsItem(n) /\ Tried(x, n) /\ doc_key(Item(n).key) = s
                /\ s \in DOMAIN slots[x] => slots[x][s] = Item(n).text
          BY <3>1, <4>3 DEF SlotFrom
        <5>2. Tried(x, n)'
          BY <1>7, <5>1
        <5> QED
          BY <1>1, <1>5, <4>1, <5>1, <5>2 DEF SlotFrom
      <4> QED
        BY <4>2, <4>3
    <3> QED
      BY <3>2, <3>3
  <2> QED
    BY <2>1, <2>2 DEF SlotsFrom
\* What is told of the keys that have been tried, and of this one.
<1>16. ASSUME NEW x \in DOMAIN Templates, NEW n \in DOMAIN output, IsItem(n), Tried(x, n)
       PROVE  Told(x, Item(n))'
  <2> DEFINE f == Item(n)
  <2>1. Told(x, f) /\ f \in Items
    BY <1>16 DEF Inv, TriedTold, Items
  <2>2. CASE x = t /\ doc_key(f.key) = key /\ good
    <3>1. n < i /\ IsItem(i)
      BY <1>7, <1>16, <2>2
    <3>2. e # f
      BY <1>1, <1>2, <1>16, <3>1, OneItem
    <3>3. e \in Items /\ doc_key(e.key) = doc_key(f.key)
      BY <1>6, <2>2, <3>1
    <3> HIDE DEF e, f, tried, bad, good, key
    <3>4. \E o \in Items' : o # f /\ doc_key(o.key) = doc_key(f.key)
      BY <1>5, <3>2, <3>3
    <3>5. f' = f
      BY <1>5 DEF f
    <3>6. Told(x, f)'
      BY <3>4, <3>5 DEF Told
    <3> QED
      BY <3>6 DEF f
  <2>3. CASE ~(x = t /\ doc_key(f.key) = key /\ good)
    <3> HIDE DEF e, f, tried, bad, good, key
    <3>1. /\ doc_key(f.key) \in DOMAIN slots'[x] <=> doc_key(f.key) \in DOMAIN slots[x]
          /\ doc_key(f.key) \in DOMAIN slots[x] =>
               slots'[x][doc_key(f.key)] = slots[x][doc_key(f.key)]
      BY <1>9, <1>10, <2>3
    <3>2. f' = f
      BY <1>5 DEF f
    <3>3. Told(x, f)'
      BY <1>1, <1>5, <1>11, <2>1, <3>1, <3>2 DEF Told
    <3> QED
      BY <3>3 DEF f
  <2> QED
    BY <2>2, <2>3
<1>17. ASSUME NEW x \in DOMAIN Templates, NEW n \in DOMAIN output, IsItem(n), x = t, n = i
       PROVE  Told(x, Item(n))'
  <2> DEFINE f == Item(n)
  <2>1. f = e /\ f' = f
    BY <1>5, <1>17
  <2>2. SUFFICES ASSUME key \in Templates[t].slots
                 PROVE  \/ key \in DOMAIN slots'[t] /\ slots'[t][key] = e.text
                        \/ key \notin DOMAIN slots'[t] /\ SpoilsSlot(e.text)
                        \/ <<"FAIL", t>> \in status' /\ BadReplacement(e.text)
                        \/ filter # <<>> /\ ~IsPrefix(filter \o <<"::">> \o Templates[t].base, e.key)
                        \/ \E o \in Items : o # e /\ doc_key(o.key) = key
    <3> HIDE DEF tried, bad, good, f, e
    <3> QED
      BY <1>1, <1>5, <1>17, <2>1 DEF Told, f
  <2>3. CASE ~Selected(e.key, t)
    BY <2>3 DEF Selected
  <2>4. CASE bad
    BY <1>11, <2>4
  <2>5. CASE good
    <3> HIDE DEF e, tried, bad, good, key
    <3> QED
      BY <1>10, <2>5
  <2>6. CASE ~Matches(t, e.key)
    <3>1. SlotFrom(t, key)
      BY <1>2, <2>2 DEF Inv, SlotsFrom
    <3>2. ~(key \in DOMAIN slots[t] /\ slots[t][key] = <<>>)
      BY <2>6 DEF Matches, Form
    <3>3. PICK k \in DOMAIN output : IsItem(k) /\ Tried(t, k) /\ doc_key(Item(k).key) = key
      BY <3>1, <3>2 DEF SlotFrom
    <3>4. k < i
      BY <1>2, <1>7, <3>3
    <3>5. Item(k) # e
      BY <1>1, <1>2, <1>17, <3>3, <3>4, OneItem
    <3>6. Item(k) \in Items
      BY <3>3 DEF Items
    <3> QED
      BY <3>3, <3>5, <3>6
  <2> QED
    BY <1>17, <2>3, <2>4, <2>5, <2>6
<1>18. TriedTold'
  <2> SUFFICES ASSUME NEW x \in DOMAIN Templates, NEW n \in DOMAIN output,
                      IsItem(n)', Tried(x, n)'
               PROVE  Told(x, Item(n))'
    BY <1>1 DEF TriedTold
  <2>1. IsItem(n)
    BY <1>5
  <2>2. CASE Tried(x, n)
    BY <1>16, <2>1, <2>2
  <2>3. CASE x = t /\ n = i
    BY <1>17, <2>1, <2>3
  <2> QED
    BY <1>7, <2>2, <2>3
<1> QED
  BY <1>12, <1>13, <1>14, <1>15, <1>18 DEF Inv

LEMMA InvStep ==
  ASSUME PydocAssumption, Inv, [Next]_vars
  PROVE  Inv'
<1>1. CASE UNCHANGED vars
  <2>1. UNCHANGED <<index_file, index, filter, pc, i, t, members, output, slots, status>>
    BY <1>1 DEF vars, input
  <2>2. Shape'
    BY <2>1 DEF Inv, Shape, TypeOK
  <2>3. MembersAre' /\ OutputMade'
    BY <2>1, OriginStays DEF Inv, MembersAre, OutputMade
  <2>4. MembersAll' /\ CrashTold' /\ Entered'
    BY <2>1 DEF Inv, MembersAll, Collected, CrashTold, Entered
  <2>5. (\A n : (IsItem(n)' <=> IsItem(n)) /\ Item(n)' = Item(n)) /\ Items' = Items
    BY <2>1, DictionaryStays
  <2>6. SubStage' /\ SlotsFrom' /\ TriedTold'
    BY <2>1, <2>5 DEF Inv, SubStage, SlotsFrom, SlotFrom, TriedTold, Tried, Told
  <2> QED
    BY <2>2, <2>3, <2>4, <2>6 DEF Inv
<1> QED
  BY <1>1, IndexCompoundStep, CrashStep, IndexEndStep, LoopSteps, NextStageStep,
     SubStep, NextTemplateStep, DoneStep DEF Next

\* Inv is inductive: whatever doxygen wrote, in whatever order, with whatever files
\* missing or broken.
THEOREM PydocInvariance == PydocAssumption => (Spec => []Inv)
<1> SUFFICES ASSUME PydocAssumption PROVE Spec => []Inv
  OBVIOUS
<1>1. Init => Inv
  BY InvInit
<1>2. Inv /\ [Next]_vars => Inv'
  BY InvStep
<1> QED
  BY <1>1, <1>2, PTL DEF Spec

\* Each template is taken at most once, in their order, and no status line tells of
\* a template that is not there.
THEOREM DocsTyping == PydocAssumption => (Spec => []TypeOK)
<1> SUFFICES ASSUME PydocAssumption PROVE Spec => []TypeOK
  OBVIOUS
<1>1. Inv => TypeOK
  BY DEF Inv, Shape
<1>2. Spec => []Inv
  BY PydocInvariance
<1> QED
  BY <1>1, <1>2, PTL

\* For every index: a broken file of a class costs the docstrings of that class
\* only, all others are in the dictionary with their own words, and only the
\* faults that ScrapeRight names end the scrape.
THEOREM ScrapeIsRight == PydocAssumption => (Spec => []ScrapeRight)
<1> SUFFICES ASSUME PydocAssumption PROVE Spec => []ScrapeRight
  OBVIOUS
<1>1. Inv => ScrapeRight
  BY InvScrapeRight
<1>2. Spec => []Inv
  BY PydocInvariance
<1> QED
  BY <1>1, <1>2, PTL

\* For every index, template and filter: no slot ever holds words of an entity it
\* is not named for, the class and the make function of a block excepted, although
\* names that differ can have the same slot.
THEOREM WordsAreOwn == PydocAssumption => (Spec => []OwnWords)
<1> SUFFICES ASSUME PydocAssumption PROVE Spec => []OwnWords
  OBVIOUS
<1>1. Inv => OwnWords
  BY InvOwnWords
<1>2. Spec => []Inv
  BY PydocInvariance
<1> QED
  BY <1>1, <1>2, PTL

\* For every index, template and filter: a docstring that has a slot is in it when sub
\* ends, or a FAIL line or one of the exceptions of NothingUnsaid tells why not.
THEOREM NoneUnsaid == PydocAssumption => (Spec => []NothingUnsaid)
<1> SUFFICES ASSUME PydocAssumption PROVE Spec => []NothingUnsaid
  OBVIOUS
<1>1. Inv => NothingUnsaid
  BY InvNothingUnsaid
<1>2. Spec => []Inv
  BY PydocInvariance
<1> QED
  BY <1>1, <1>2, PTL

-----------------------------------------------------------------------------
(* The hook on headers.                                                    *)

\* The bound is a number of versions.
VersionAssumption == MaxVersion \in Nat \ {0}

-----------------------------------------------------------------------------
\* A binding that the hook is through with and does not complain about fits its
\* header, as long as nobody edits.
CheckedInSync ==
  hook \in {"hook", "format"} =>
    \A b \in Bindings \ (todo \cup errors) : metadata[b] => Hook!InSync(b)

\* The hook ends when it is through with all bindings.
AllChecked == hook = "format" => todo = {}

\* Of the headers h and the bindings m of a tree: the header of b is missing, or it
\* is the only one of its name and b fits it.
Lasts(h, m, b) ==
  LET n == m[b].name
      here == {d \in Dirs : h[d][n] > 0}
  IN /\ here = {} \/ \E d \in Dirs : here = {d}
     /\ \A d \in here : h[d][n] = m[b].version

\* So it is in the last commit: the next one may be one that the hook skips.
HeadLasts == \A b \in Bindings : metadata[b] => Lasts(head[1], head[2], b)

HookInv ==
  /\ todo \subseteq Bindings
  /\ CheckedInSync /\ AllChecked /\ HeadLasts
  /\ Hook!CommittedInSync

\* What InSync and CommittedInSync say of the tree of the developer.
LEMMA LastsHere ==
  ASSUME NEW b \in Bindings
  PROVE  Lasts(header, made, b) <=> (Hook!InSync(b) \/ Hook!Here(made[b].name) = {})
  BY DEF Lasts, Hook!InSync, Hook!Here

\* What is not staged differs from the last commit by nothing but deletions, and a
\* deletion leaves no header that does not fit.
LEMMA DeletionsLast ==
  ASSUME Hook!TypeOK, ~Hook!Staged, NEW b \in Bindings, Lasts(head[1], head[2], b)
  PROVE  Lasts(header, made, b)
<1> DEFINE n == made[b].name
           here == {d \in Dirs : header[d][n] > 0}
           there == {d \in Dirs : head[1][d][n] > 0}
<1>1. made = head[2] /\ n \in Names
  BY DEF Hook!Staged, Hook!TypeOK
<1>2. \A d \in Dirs : header[d][n] > 0 => header[d][n] = head[1][d][n]
  BY <1>1 DEF Hook!Staged, Hook!Changed
<1>3. /\ there = {} \/ \E d \in Dirs : there = {d}
      /\ \A d \in there : head[1][d][n] = made[b].version
  BY <1>1 DEF Lasts
<1>4. here \subseteq there
  BY <1>2
<1>5. here = {} \/ \E d \in Dirs : here = {d}
  BY <1>3, <1>4
<1>6. \A d \in here : header[d][n] = made[b].version
  BY <1>2, <1>3, <1>4
<1> QED
  BY <1>5, <1>6 DEF Lasts

\* The hook accepts a binding with metadata only if it fits its header.
LEMMA AcceptedInSync ==
  ASSUME NEW b \in Bindings, metadata[b], Hook!check_binding_file(b)
  PROVE  Hook!InSync(b)
<1> DEFINE n == made[b].name
<1>1. Hook!find_header_file(n) # {} /\ \A d \in Hook!find_header_file(n) : header[d][n] = made[b].version
  BY DEF Hook!check_binding_file
<1> QED
  BY <1>1 DEF Hook!find_header_file, Hook!InSync

\* Nobody edits: what fits still fits.
LEMMA TreeStays ==
  ASSUME UNCHANGED Hook!tree, NEW b \in Bindings
  PROVE  (metadata'[b] <=> metadata[b]) /\ (Hook!InSync(b)' <=> Hook!InSync(b))
  BY DEF Hook!tree, Hook!InSync, Hook!Here

\* Every step of the hook, of a developer or of the hooks after it.
LEMMA HookInvStep ==
  ASSUME Hook!TypeOK, HookInv, [Hook!Next]_(Hook!vars)
  PROVE  HookInv'
<1>1. CASE Hook!Edit
  <2>1. metadata' = metadata /\ head' = head /\ todo' = todo /\ hook' = "edit"
    BY <1>1 DEF Hook!Edit, Hook!Rewrite
  <2> QED
    BY <2>1 DEF HookInv, CheckedInSync, AllChecked, HeadLasts, Lasts, Hook!CommittedInSync
<1>2. CASE Hook!Commit
  <2>1. /\ UNCHANGED <<Hook!tree, head>> /\ metadata' = metadata
        /\ todo' = Bindings /\ errors' = {} /\ hook' = "hook"
    BY <1>2 DEF Hook!Commit, Hook!tree
  <2> QED
    BY <2>1 DEF HookInv, CheckedInSync, AllChecked, HeadLasts, Lasts, Hook!CommittedInSync
<1>8. CASE Hook!CommitUnchecked
  <2>1. /\ UNCHANGED <<Hook!tree, todo, errors>> /\ ~Hook!Staged
        /\ header' = header /\ made' = made /\ metadata' = metadata
        /\ head' = <<header, made>> /\ hook' = "unchecked"
    BY <1>8 DEF Hook!CommitUnchecked, Hook!tree
  <2>2. \A b \in Bindings : metadata[b] => Lasts(header, made, b)
    BY <2>1, DeletionsLast DEF HookInv, HeadLasts
  <2>3. HeadLasts'
    BY <2>1, <2>2 DEF HeadLasts, Lasts
  <2>4. Hook!CommittedInSync'
    BY <2>1, <2>2, LastsHere DEF Hook!CommittedInSync, Hook!InSync, Hook!Here
  <2> QED
    BY <2>1, <2>3, <2>4 DEF HookInv, CheckedInSync, AllChecked
<1>3. CASE Hook!Check
  <2>1. PICK b \in todo :
          /\ todo' = todo \ {b}
          /\ errors' = IF Hook!check_binding_file(b) THEN errors ELSE errors \cup {b}
    BY <1>3 DEF Hook!Check
  <2>2. UNCHANGED <<Hook!tree, head, metadata>> /\ hook = "hook" /\ hook' = "hook" /\ b \in Bindings
    BY <1>3, <2>1 DEF Hook!Check, Hook!tree, HookInv
  <2>3. ASSUME NEW c \in Bindings \ (todo' \cup errors'), metadata[c] PROVE Hook!InSync(c)
    <3>1. CASE c = b
      <4>1. Hook!check_binding_file(b)
        BY <2>1, <2>3, <3>1
      <4> QED
        BY <2>2, <2>3, <3>1, <4>1, AcceptedInSync
    <3>2. CASE c # b
      <4>1. c \in Bindings \ (todo \cup errors)
        BY <2>1, <2>3, <3>2
      <4> QED
        BY <2>2, <2>3, <4>1 DEF HookInv, CheckedInSync
    <3> QED
      BY <3>1, <3>2
  <2>4. CheckedInSync'
    BY <2>2, <2>3, TreeStays DEF CheckedInSync
  <2> QED
    BY <2>1, <2>2, <2>4 DEF HookInv, AllChecked, HeadLasts, Lasts, Hook!CommittedInSync
<1>4. CASE Hook!CheckEnd
  <2>1. /\ UNCHANGED <<Hook!tree, head, metadata, todo, errors>>
        /\ hook = "hook" /\ hook' = "format" /\ todo = {}
    BY <1>4 DEF Hook!CheckEnd, Hook!tree
  <2> QED
    BY <2>1, TreeStays DEF HookInv, CheckedInSync, AllChecked, HeadLasts, Lasts,
                           Hook!CommittedInSync
<1>5. CASE Hook!Format
  <2>1. metadata' = metadata /\ head' = head /\ todo' = todo /\ hook' = "edit"
    BY <1>5 DEF Hook!Format, Hook!Rewrite
  <2> QED
    BY <2>1 DEF HookInv, CheckedInSync, AllChecked, HeadLasts, Lasts, Hook!CommittedInSync
<1>6. CASE Hook!Finish
  <2>1. /\ UNCHANGED <<Hook!tree, todo, errors>> /\ hook = "format" /\ todo = {}
        /\ header' = header /\ made' = made /\ metadata' = metadata
        /\ hook' = IF errors = {} THEN "committed" ELSE "edit"
        /\ head' = IF errors = {} THEN <<header, made>> ELSE head
    BY <1>6 DEF Hook!Finish, Hook!tree, HookInv, AllChecked
  <2>2. ASSUME errors = {}, NEW b \in Bindings, metadata[b] PROVE Hook!InSync(b)
    BY <2>1, <2>2 DEF HookInv, CheckedInSync
  <2>3. CASE errors = {}
    <3>1. \A b \in Bindings : metadata[b] => Lasts(header, made, b)
      BY <2>2, <2>3, LastsHere
    <3>2. HeadLasts'
      BY <2>1, <2>3, <3>1 DEF HeadLasts, Lasts
    <3> QED
      BY <2>1, <2>2, <2>3, <3>2, TreeStays DEF HookInv, CheckedInSync, AllChecked,
                                              Hook!CommittedInSync
  <2>4. CASE errors # {}
    BY <2>1, <2>4 DEF HookInv, CheckedInSync, AllChecked, HeadLasts, Lasts,
                      Hook!CommittedInSync
  <2> QED
    BY <2>3, <2>4
<1>7. CASE UNCHANGED Hook!vars
  <2>1. UNCHANGED <<Hook!tree, head, header, made, metadata, todo, errors, hook>>
    BY <1>7 DEF Hook!vars, Hook!tree
  <2> QED
    BY <2>1, TreeStays DEF HookInv, CheckedInSync, AllChecked, HeadLasts, Lasts,
                           Hook!CommittedInSync, Hook!InSync, Hook!Here
<1> QED
  BY <1>1, <1>2, <1>3, <1>4, <1>5, <1>6, <1>7, <1>8 DEF Hook!Next

LEMMA HookTypeStep ==
  ASSUME VersionAssumption, Hook!TypeOK, [Hook!Next]_(Hook!vars)
  PROVE  Hook!TypeOK'
<1>c. MaxVersion \in Nat /\ version \in Nat /\ 1 <= version
  BY DEF VersionAssumption, Hook!TypeOK
<1>1. ASSUME NEW d \in Dirs, NEW n \in Names, Hook!Rewrite(d, n)
      PROVE  /\ header' \in [Dirs -> [Names -> 0..MaxVersion]]
             /\ version' \in 1..MaxVersion /\ made' = made
  <2>1. version + 1 \in 1..MaxVersion /\ version + 1 \in 0..MaxVersion
    BY <1>1, <1>c DEF Hook!Rewrite
  <2>2. [header[d] EXCEPT ![n] = version + 1] \in [Names -> 0..MaxVersion]
    BY <2>1 DEF Hook!TypeOK
  <2> QED
    BY <1>1, <2>1, <2>2 DEF Hook!Rewrite, Hook!TypeOK
<1>2. CASE Hook!Edit
  <2>1. todo' = todo /\ errors' = errors /\ hook' = "edit"
    BY <1>2 DEF Hook!Edit
  <2>2. CASE \E d \in Dirs, n \in Names : Hook!Rewrite(d, n)
    BY <1>1, <2>1, <2>2 DEF Hook!TypeOK
  <2>3. CASE \E d, e \in Dirs, n \in Names, copy \in BOOLEAN :
               /\ d # e /\ header[d][n] > 0 /\ header[e][n] = 0
               /\ header' = [header EXCEPT ![e][n] = header[d][n],
                                          ![d][n] = IF copy THEN @ ELSE 0]
               /\ UNCHANGED <<version, made, metadata>>
    <3>1. PICK d \in Dirs, e \in Dirs, n \in Names, copy \in BOOLEAN :
            /\ d # e /\ header[d][n] > 0 /\ header[e][n] = 0
            /\ header' = [header EXCEPT ![e][n] = header[d][n],
                                       ![d][n] = IF copy THEN @ ELSE 0]
            /\ UNCHANGED <<version, made, metadata>>
      BY <2>3
    <3> DEFINE row == [header[e] EXCEPT ![n] = header[d][n]]
               old == [header[d] EXCEPT ![n] = IF copy THEN @ ELSE 0]
    <3>2. header[d][n] \in 0..MaxVersion /\ 0 \in 0..MaxVersion
      BY <1>c DEF Hook!TypeOK
    <3>3. row \in [Names -> 0..MaxVersion] /\ old \in [Names -> 0..MaxVersion]
      BY <3>2 DEF Hook!TypeOK
    <3>4. header' = [x \in Dirs |-> IF x = d THEN old ELSE IF x = e THEN row ELSE header[x]]
      BY <3>1 DEF Hook!TypeOK
    <3> HIDE DEF row, old
    <3>5. header' \in [Dirs -> [Names -> 0..MaxVersion]]
      BY <3>3, <3>4 DEF Hook!TypeOK
    <3> QED
      BY <2>1, <3>1, <3>5 DEF Hook!TypeOK
  <2>4. CASE \E b \in Bindings, d \in Dirs :
               /\ header[d][made[b].name] > 0
               /\ made' = [made EXCEPT ![b].version = header[d][made[b].name]]
               /\ UNCHANGED <<header, version, metadata>>
    <3>1. PICK b \in Bindings, d \in Dirs :
            /\ header[d][made[b].name] > 0
            /\ made' = [made EXCEPT ![b].version = header[d][made[b].name]]
            /\ UNCHANGED <<header, version, metadata>>
      BY <2>4
    <3>2. made[b].name \in Names /\ header[d][made[b].name] \in 1..MaxVersion
      BY <1>c, <3>1 DEF Hook!TypeOK
    <3>3. [made[b] EXCEPT !.version = header[d][made[b].name]]
            \in [name : Names, version : 1..MaxVersion]
      BY <3>2 DEF Hook!TypeOK
    <3> QED
      BY <2>1, <3>1, <3>3 DEF Hook!TypeOK
  <2>5. CASE \E d \in Dirs, n \in Names :
               /\ header[d][n] > 0
               /\ header' = [header EXCEPT ![d][n] = 0]
               /\ UNCHANGED <<version, made, metadata>>
    <3>1. PICK d \in Dirs, n \in Names :
            /\ header' = [header EXCEPT ![d][n] = 0]
            /\ UNCHANGED <<version, made, metadata>>
      BY <2>5
    <3>2. [header[d] EXCEPT ![n] = 0] \in [Names -> 0..MaxVersion]
      BY <1>c DEF Hook!TypeOK
    <3> QED
      BY <2>1, <3>1, <3>2 DEF Hook!TypeOK
  <2> QED
    BY <1>2, <2>2, <2>3, <2>4, <2>5 DEF Hook!Edit
<1>3. CASE Hook!Commit
  BY <1>3 DEF Hook!Commit, Hook!tree, Hook!TypeOK
<1>4. CASE Hook!Check
  BY <1>4 DEF Hook!Check, Hook!tree, Hook!TypeOK
<1>5. CASE Hook!CheckEnd
  BY <1>5 DEF Hook!CheckEnd, Hook!tree, Hook!TypeOK
<1>6. CASE Hook!Format
  BY <1>1, <1>6 DEF Hook!Format, Hook!TypeOK
<1>7. CASE Hook!Finish
  BY <1>7 DEF Hook!Finish, Hook!tree, Hook!TypeOK
<1>9. CASE Hook!CommitUnchecked
  BY <1>9 DEF Hook!CommitUnchecked, Hook!tree, Hook!TypeOK
<1>8. CASE UNCHANGED Hook!vars
  BY <1>8 DEF Hook!vars, Hook!tree, Hook!TypeOK
<1> QED
  BY <1>2, <1>3, <1>4, <1>5, <1>6, <1>7, <1>8, <1>9 DEF Hook!Next

\* The hook looks at every binding once, and complains about none it has still
\* to look at; bindings are never made from a header that is not there.
THEOREM HashTyping == VersionAssumption => (Hook!Spec => []Hook!TypeOK)
<1> SUFFICES ASSUME VersionAssumption PROVE Hook!Spec => []Hook!TypeOK
  OBVIOUS
<1>1. Hook!Init => Hook!TypeOK
  BY DEF VersionAssumption, Hook!Init, Hook!TypeOK
<1>2. Hook!TypeOK /\ [Hook!Next]_(Hook!vars) => Hook!TypeOK'
  BY HookTypeStep
<1> QED
  BY <1>1, <1>2, PTL DEF Hook!Spec

\* Of every commit that the hook and pre-commit let through, each binding that
\* names its header fits the one header of that name, although developers and
\* the hooks after it rewrite headers at any time.  Commits that the hook skips
\* can lose a header, but leave none that does not fit.
THEOREM CommitsAreInSync == VersionAssumption => (Hook!Spec => []CommittedInSync)
<1> SUFFICES ASSUME VersionAssumption PROVE Hook!Spec => []CommittedInSync
  OBVIOUS
<1>1. Hook!Init => HookInv
  <2> SUFFICES ASSUME Hook!Init PROVE HookInv
    OBVIOUS
  <2>1. PICK d \in Dirs : header = [e \in Dirs |-> [n \in Names |-> IF e = d THEN 1 ELSE 0]]
    BY DEF Hook!Init
  <2>2. ASSUME NEW b \in Bindings PROVE Lasts(header, made, b)
    <3>1. made[b].name \in Names /\ made[b].version = 1
      BY DEF Hook!Init
    <3>2. {e \in Dirs : header[e][made[b].name] > 0} = {d}
      BY <2>1, <3>1
    <3> QED
      BY <2>1, <3>1, <3>2 DEF Lasts
  <2>3. head = <<header, made>> /\ todo = {} /\ hook = "edit"
    BY DEF Hook!Init
  <2>4. HeadLasts
    BY <2>2, <2>3 DEF HeadLasts, Lasts
  <2> QED
    BY <2>3, <2>4 DEF HookInv, CheckedInSync, AllChecked, Hook!CommittedInSync
<1>2. HookInv => CommittedInSync
  BY DEF HookInv, CommittedInSync
<1>3. Hook!Spec => []Hook!TypeOK
  BY HashTyping
<1> QED
  BY <1>1, <1>2, <1>3, HookInvStep, PTL DEF Hook!Spec
=============================================================================
