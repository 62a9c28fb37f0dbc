----------------------------- MODULE WireProofs -----------------------------
(***************************************************************************)
(* Proofs about Messages, and about the two modules that use it:           *)
(* MessageObjects, for any number of objects, users and texts, and         *)
(* RestWire, for lists and lines of any length.                            *)
(***************************************************************************)
EXTENDS MessageObjects, RestWire, FiniteSetTheorems, SequenceTheorems,
        WellFoundedInduction, TLAPS

-----------------------------------------------------------------------------
(* Induction, with a set where one would write a predicate.                *)

\* A set of naturals that is not empty has a least element.
LEMMA LeastNatural ==
  ASSUME NEW T \in SUBSET Nat, T # {}
  PROVE  \E x \in T : \A y \in T : x <= y
<1> DEFINE R == OpToRel(<, Nat)
<1>1. IsWellFoundedOn(R, Nat)
  BY NatLessThanWellFounded
<1>2. \A i, j \in Nat : <<i, j>> \in R <=> i < j
  BY DEF OpToRel
<1> HIDE DEF R
<1>3. PICK x \in T : \A y \in T : ~ (<<y, x>> \in R)
  BY <1>1, WFMin
<1>4. \A y \in T : y \in Nat /\ x \in Nat /\ ~ (y < x)
  BY <1>2, <1>3
<1>5. \A y \in T : x <= y
  BY <1>4
<1> QED
  BY <1>5

\* What holds of 0, and of n + 1 whenever of n, up to a limit, holds up to it.
LEMMA SetInduction ==
  ASSUME NEW S, NEW n \in Nat, 0 \in S,
         \A k \in 1 .. n : k - 1 \in S => k \in S
  PROVE  0 .. n \subseteq S
<1> DEFINE T == (0 .. n) \ S
<1> SUFFICES ASSUME T # {} PROVE FALSE
  OBVIOUS
<1>1. T \in SUBSET Nat
  OBVIOUS
<1>2. PICK x \in T : \A y \in T : x <= y
  BY <1>1, LeastNatural
<1>3. x \in 1 .. n /\ x \notin S
  OBVIOUS
<1>4. x - 1 \in 0 .. n /\ ~ (x <= x - 1)
  BY <1>3
<1>5. x - 1 \in S
  BY <1>4, <1>2
<1> QED
  BY <1>3, <1>5

\* Steps that lead from a value in S to a value in S, and a function that
\* starts with x and takes the steps.
StaysIn(step, n, S) == \A i \in 1 .. n : \A s \in S : step[i][s] \in S

Follows(g, x, step, n) ==
  g[0] = x /\ \A i \in 1 .. n : g[i] = step[i][g[i - 1]]

\* There is such a function: one on 0 .. k - 1 can be extended by one element.
LEMMA Recursion ==
  ASSUME NEW S, NEW n \in Nat, NEW x \in S, NEW step, StaysIn(step, n, S)
  PROVE  \E g \in [0 .. n -> S] : Follows(g, x, step, n)
<1> DEFINE Good(g, k) == Follows(g, x, step, k)
           Reached == {k \in 0 .. n : \E g \in [0 .. k -> S] : Good(g, k)}
<1>1. 0 \in Reached
  <2>1. [i \in 0 .. 0 |-> x] \in [0 .. 0 -> S]
        /\ Good([i \in 0 .. 0 |-> x], 0)
    BY DEF Follows
  <2>2. \E g \in [0 .. 0 -> S] : Good(g, 0)
    BY <2>1
  <2> HIDE DEF Good
  <2> QED
    BY <2>2
<1>2. ASSUME NEW k \in 1 .. n, k - 1 \in Reached PROVE k \in Reached
  <2>1. PICK g \in [0 .. k - 1 -> S] : Good(g, k - 1)
    BY <1>2
  <2> DEFINE h == [i \in 0 .. k |->
                   IF i = k THEN step[k][g[k - 1]] ELSE g[i]]
  <2>2. g[k - 1] \in S /\ step[k][g[k - 1]] \in S
    BY <2>1 DEF StaysIn
  <2>3. h \in [0 .. k -> S]
    BY <2>2
  <2>4. \A i \in 0 .. k - 1 : h[i] = g[i]
    OBVIOUS
  <2>5. h[k] = step[k][h[k - 1]]
    BY <2>4
  <2> HIDE DEF h
  <2>6. \A i \in 1 .. k : h[i] = step[i][h[i - 1]]
    <3> TAKE i \in 1 .. k
    <3>1. CASE i = k
      BY <3>1, <2>5
    <3>2. CASE i # k
      <4>1. i \in 1 .. k - 1 /\ i - 1 \in 0 .. k - 1 /\ i \in 0 .. k - 1
        BY <3>2
      <4>2. h[i] = g[i] /\ h[i - 1] = g[i - 1] /\ g[i] = step[i][g[i - 1]]
        BY <4>1, <2>1, <2>4 DEF Follows
      <4> QED
        BY <4>2
    <3> QED
      BY <3>1, <3>2
  <2>7. h[0] = x
    BY <2>1, <2>4 DEF Follows
  <2> QED
    BY <2>3, <2>6, <2>7 DEF Follows
<1> HIDE DEF Reached
<1>3. 0 .. n \subseteq Reached
  BY <1>1, <1>2, SetInduction
<1>4. n \in Reached
  BY <1>3
<1> QED
  BY <1>4 DEF Reached

-----------------------------------------------------------------------------
(* One user.                                                               *)

\* The objects of User, and those that the program can hold: what is not set
\* holds its default.
Users == [has : SUBSET Fields,
          val : [Fields -> Text \cup Numbers],
          cached_size : Nat]

SoundUsers ==
  {u \in Users : \A f \in Fields :
                   /\ u.val[f] \in Values(f)
                   /\ f \notin u.has => u.val[f] = Default(f)}

\* Every field has its default among its values, and all are texts or numbers.
LEMMA ValuesOfFields ==
  ASSUME NEW f \in Fields
  PROVE  /\ Default(f) \in Values(f)
         /\ Values(f) \subseteq Text \cup Numbers
         /\ f \in Strings \/ f \in Words
         /\ ~ (f \in Strings /\ f \in Words)
BY MessagesAssumption DEF Default, Values, Strings, Words

\* What a sound user is made of.
LEMMA SoundParts ==
  ASSUME NEW u \in SoundUsers
  PROVE  /\ u \in Users
         /\ u.has \subseteq Fields
         /\ u.val \in [Fields -> Text \cup Numbers]
         /\ u.cached_size \in Nat
         /\ \A f \in Fields :
              /\ u.val[f] \in Values(f)
              /\ f \notin u.has => u.val[f] = Default(f)
BY DEF SoundUsers, Users

\* The object that a constructor makes has no field.
LEMMA NewIsEmpty ==
  /\ New \in SoundUsers
  /\ New.has = {}
  /\ Serialize(New) = Records!Empty
<1>1. New \in Users
  BY ValuesOfFields DEF New, Users
<1>2. New.has = {} /\ \A f \in Fields : New.val[f] = Default(f)
  BY DEF New
<1>3. New \in SoundUsers
  BY <1>1, <1>2, ValuesOfFields DEF SoundUsers
<1> QED
  BY <1>2, <1>3 DEF Serialize, Records!Empty

\* set_...(v), also set_allocated_...(v).
LEMMA SetSets ==
  ASSUME NEW u \in SoundUsers, NEW f \in Fields, NEW v \in Values(f)
  PROVE  /\ Set(u, f, v) \in SoundUsers
         /\ Serialize(Set(u, f, v)) = Records!With(Serialize(u), f, v)
<1> DEFINE s == Set(u, f, v)
<1>1. s \in Users
  BY SoundParts, ValuesOfFields DEF Set, Users
<1>2. /\ s.has = u.has \cup {f}
      /\ \A g \in Fields : s.val[g] = IF g = f THEN v ELSE u.val[g]
  BY SoundParts DEF Set, Users
<1> HIDE DEF s
<1>3. s \in SoundUsers
  BY <1>1, <1>2, SoundParts DEF SoundUsers
<1>4. Serialize(s) = Records!With(Serialize(u), f, v)
  BY <1>2, SoundParts DEF Serialize, Records!With
<1> QED
  BY <1>3, <1>4 DEF s

\* clear_...(), also set_allocated_...(nullptr) and the release of a field
\* that is set.
LEMMA ClearFieldUnsets ==
  ASSUME NEW u \in SoundUsers, NEW f \in Fields
  PROVE  /\ ClearField(u, f) \in SoundUsers
         /\ Serialize(ClearField(u, f)) = Records!Without(Serialize(u), f)
<1> DEFINE s == ClearField(u, f)
<1>1. s \in Users
  BY SoundParts, ValuesOfFields DEF ClearField, Users
<1>2. /\ s.has = u.has \ {f}
      /\ \A g \in Fields : s.val[g] = IF g = f THEN Default(f) ELSE u.val[g]
  BY SoundParts DEF ClearField, Users
<1> HIDE DEF s
<1>3. s \in SoundUsers
  BY <1>1, <1>2, SoundParts, ValuesOfFields DEF SoundUsers
<1>4. Serialize(s) = Records!Without(Serialize(u), f)
  BY <1>2, SoundParts DEF Serialize, Records!Without
<1> QED
  BY <1>3, <1>4 DEF s

\* mutable_...() of a field that is not set sets it to its default.
LEMMA MutableSets ==
  ASSUME NEW u \in SoundUsers, NEW f \in Fields
  PROVE  /\ Mutable(u, f) \in SoundUsers
         /\ f \in u.has => Serialize(Mutable(u, f)) = Serialize(u)
         /\ f \notin u.has => Serialize(Mutable(u, f)) =
                              Records!With(Serialize(u), f, Default(f))
<1> DEFINE s == Mutable(u, f)
<1>1. s \in Users
  BY SoundParts DEF Mutable, Users
<1>2. s.has = u.has \cup {f} /\ \A g \in Fields : s.val[g] = u.val[g]
  BY SoundParts DEF Mutable, Users
<1> HIDE DEF s
<1>3. s \in SoundUsers
  BY <1>1, <1>2, SoundParts DEF SoundUsers
<1>4. CASE f \in u.has
  <2>1. s.has = u.has
    BY <1>2, <1>4
  <2> QED
    BY <1>2, <1>3, <1>4, <2>1, SoundParts DEF Serialize, s
<1>5. CASE f \notin u.has
  <2>1. u.val[f] = Default(f)
    BY <1>5, SoundParts
  <2>2. Serialize(s) = Records!With(Serialize(u), f, Default(f))
    BY <1>2, <2>1, SoundParts DEF Serialize, Records!With
  <2> QED
    BY <1>3, <1>5, <2>2 DEF s
<1> QED
  BY <1>4, <1>5

\* Clear() leaves no field set, although it does not look at every value.
LEMMA ClearClears ==
  ASSUME NEW u \in SoundUsers
  PROVE  /\ Clear(u) \in SoundUsers
         /\ Clear(u).has = {}
         /\ Serialize(Clear(u)) = Records!Empty
<1> DEFINE s == Clear(u)
<1>1. s.has = {} /\ s.cached_size = u.cached_size
  BY SoundParts DEF Clear, Users
<1>2. s.val = [f \in Fields |->
                 IF \/ f \in Strings \cap u.has
                    \/ f \in Words /\ Words \cap u.has # {}
                   THEN Default(f)
                   ELSE u.val[f]]
  BY SoundParts DEF Clear, Users
<1>3. \A f \in Fields : s.val[f] = Default(f)
  <2> SUFFICES ASSUME NEW f \in Fields PROVE s.val[f] = Default(f)
    OBVIOUS
  <2> HIDE DEF s
  <2>1. f \in u.has \/ u.val[f] = Default(f)
    BY SoundParts
  <2>2. f \in u.has /\ f \in Words => Words \cap u.has # {}
    OBVIOUS
  <2> QED
    BY <1>2, <2>1, <2>2, ValuesOfFields
<1>4. s \in Users
  <2>1. s.val \in [Fields -> Text \cup Numbers]
    BY <1>2, <1>3, ValuesOfFields
  <2> QED
    BY <1>1, <2>1, SoundParts DEF Clear, Users
<1> HIDE DEF s
<1>5. s \in SoundUsers
  BY <1>3, <1>4, ValuesOfFields DEF SoundUsers
<1> QED
  BY <1>1, <1>5 DEF Serialize, Records!Empty, s

\* MergeFrom(from): the fields of from over one's own.
LEMMA MergeMerges ==
  ASSUME NEW u \in SoundUsers, NEW from \in SoundUsers
  PROVE  /\ MergeFrom(u, from) \in SoundUsers
         /\ Serialize(MergeFrom(u, from)) =
              Records!Over(Serialize(u), Serialize(from))
<1> DEFINE s == MergeFrom(u, from)
<1>1. s.has = u.has \cup from.has /\ s.cached_size = u.cached_size
  BY SoundParts DEF MergeFrom, Users
<1>2. s.val = [f \in Fields |-> IF f \in from.has THEN from.val[f]
                                                  ELSE u.val[f]]
  BY SoundParts DEF MergeFrom, Users
<1>3. s \in Users
  <2>1. s.val \in [Fields -> Text \cup Numbers]
    BY <1>2, SoundParts
  <2> QED
    BY <1>1, <2>1, SoundParts DEF MergeFrom, Users
<1> HIDE DEF s
<1>4. s \in SoundUsers
  BY <1>1, <1>2, <1>3, SoundParts DEF SoundUsers
<1>5. Serialize(s) = Records!Over(Serialize(u), Serialize(from))
  BY <1>1, <1>2, SoundParts DEF Serialize, Records!Over
<1> QED
  BY <1>4, <1>5 DEF s

\* Over an object that has no field the result is the other one.
LEMMA OverEmpty ==
  ASSUME NEW u
  PROVE  Records!Over(Records!Empty, Serialize(u)) = Serialize(u)
BY DEF Records!Over, Records!Empty, Serialize

\* CopyFrom(from) is a copy.
LEMMA CopyCopies ==
  ASSUME NEW u \in SoundUsers, NEW from \in SoundUsers
  PROVE  /\ CopyFrom(u, from) \in SoundUsers
         /\ Serialize(CopyFrom(u, from)) = Serialize(from)
BY ClearClears, MergeMerges, OverEmpty DEF CopyFrom

\* So is an object that the copy constructor makes, although it takes the
\* numbers whether they are set or not.
LEMMA CopyOfCopies ==
  ASSUME NEW from \in SoundUsers
  PROVE  /\ CopyOf(from) \in SoundUsers
         /\ Serialize(CopyOf(from)) = Serialize(from)
         /\ \A f \in Fields : CopyOf(from).val[f] = from.val[f]
<1> DEFINE s == CopyOf(from)
<1>1. s.has = from.has /\ s.cached_size = 0
  BY DEF CopyOf, New
<1>2. s.val = [f \in Fields |-> IF f \in from.has \cup Words
                                  THEN from.val[f] ELSE Default(f)]
  BY DEF CopyOf, New
<1>3. \A f \in Fields : s.val[f] = from.val[f]
  BY <1>2, SoundParts
<1>4. s \in Users
  <2>1. s.val \in [Fields -> Text \cup Numbers]
    BY <1>2, <1>3, SoundParts
  <2> QED
    BY <1>1, <2>1, SoundParts DEF CopyOf, New, Users
<1> HIDE DEF s
<1>5. s \in SoundUsers
  BY <1>1, <1>3, <1>4, SoundParts DEF SoundUsers
<1>6. Serialize(s) = Serialize(from)
  BY <1>1, <1>3, SoundParts DEF Serialize
<1> QED
  BY <1>3, <1>5, <1>6 DEF s

\* InternalSwap takes all that belongs to the message.
LEMMA SwappedSwaps ==
  ASSUME NEW u \in SoundUsers, NEW other \in SoundUsers
  PROVE  /\ Swapped(u, other) \in SoundUsers
         /\ Serialize(Swapped(u, other)) = Serialize(other)
<1> DEFINE s == Swapped(u, other)
<1>1. s.has = other.has /\ s.val = other.val
  BY SoundParts DEF Swapped, Users
<1>2. s \in Users
  BY SoundParts DEF Swapped, Users
<1> HIDE DEF s
<1>3. s \in SoundUsers
  BY <1>1, <1>2, SoundParts DEF SoundUsers
<1>4. Serialize(s) = Serialize(other)
  BY <1>1 DEF Serialize
<1> QED
  BY <1>3, <1>4 DEF s

\* Parsing what from was written as does what merging from does.
LEMMA ParseMerges ==
  ASSUME NEW u \in SoundUsers, NEW from \in SoundUsers
  PROVE  /\ Parse(u, Serialize(from)) \in SoundUsers
         /\ Serialize(Parse(u, Serialize(from))) =
              Records!Over(Serialize(u), Serialize(from))
<1> DEFINE s == Parse(u, Serialize(from))
<1>1. DOMAIN Serialize(from) = from.has
      /\ \A f \in from.has : Serialize(from)[f] = from.val[f]
  BY DEF Serialize
<1>2. s.has = u.has \cup from.has /\ s.cached_size = u.cached_size
  BY <1>1, SoundParts DEF Parse, Users
<1>3. s.val = [f \in Fields |-> IF f \in DOMAIN Serialize(from)
                                  THEN Serialize(from)[f] ELSE u.val[f]]
  BY SoundParts DEF Parse, Users
<1>4. \A f \in Fields : s.val[f] = IF f \in from.has THEN from.val[f]
                                                     ELSE u.val[f]
  BY <1>1, <1>3
<1>5. s \in Users
  <2>1. s.val \in [Fields -> Text \cup Numbers]
    BY <1>3, <1>4, SoundParts
  <2> QED
    BY <1>2, <2>1, SoundParts DEF Parse, Users
<1> HIDE DEF s
<1>6. s \in SoundUsers
  BY <1>2, <1>4, <1>5, SoundParts DEF SoundUsers
<1>7. Serialize(s) = Records!Over(Serialize(u), Serialize(from))
  BY <1>2, <1>4, SoundParts DEF Serialize, Records!Over
<1> QED
  BY <1>6, <1>7 DEF s

-----------------------------------------------------------------------------
(* Sizes.                                                                  *)

\* A length takes a natural number of bytes.
LEMMA VarintSizeType ==
  ASSUME NEW n
  PROVE  VarintSize(n) \in Nat
<1> DEFINE K == {k \in 1 .. 4 : n >= 128 ^ k}
<1> HIDE DEF K
<1>1. IsFiniteSet(1 .. 4)
  <2>1. 1 \in Int /\ 4 \in Int
    OBVIOUS
  <2> QED
    BY <2>1, FS_Interval
<1>2. K \in SUBSET (1 .. 4)
  BY Zenon DEF K
<1>3. IsFiniteSet(K)
  BY <1>1, <1>2, FS_Subset
<1>4. Cardinality(K) \in Nat
  BY <1>3, FS_CardinalityType
<1> QED
  BY <1>4 DEF K, VarintSize

\* So does a field.
LEMMA FieldSizeType ==
  ASSUME NEW f \in Fields, NEW v \in Values(f)
  PROVE  FieldSize(f, v) \in Nat
<1>1. CASE f \in Strings
  <2>1. Length[v] \in Nat
    BY <1>1, MessagesAssumption DEF Values
  <2> QED
    BY <1>1, <2>1, VarintSizeType DEF FieldSize
<1>2. CASE f \notin Strings
  BY <1>2, VarintSizeType DEF FieldSize
<1> QED
  BY <1>1, <1>2

\* ByteSizeLong() computes the number of the bytes that are written, and
\* stores it; it changes nothing else.
LEMMA ByteSizeLongSizes ==
  ASSUME NEW u \in SoundUsers
  PROVE  /\ ByteSizeLong(u) \in SoundUsers
         /\ ByteSizeLong(u).has = u.has
         /\ Serialize(ByteSizeLong(u)) = Serialize(u)
         /\ ByteSizeLong(u).cached_size = BodySize(Serialize(u))
<1> DEFINE s == ByteSizeLong(u)
           size(f) == IF f \in u.has THEN FieldSize(f, u.val[f]) ELSE 0
<1>1. \A f : size(f) \in Nat
  BY SoundParts, FieldSizeType
<1>2. \A f : (IF f \in DOMAIN Serialize(u)
                THEN FieldSize(f, Serialize(u)[f]) ELSE 0) = size(f)
  BY DEF Serialize
<1>3. s.has = u.has /\ s.val = u.val
  BY SoundParts DEF ByteSizeLong, Users
<1>4. s.cached_size = size("username") + size("ip")
                        + size("joined_timestamp") + size("port")
  BY SoundParts DEF ByteSizeLong, Users
<1>5. BodySize(Serialize(u)) = size("username") + size("ip")
                                 + size("port") + size("joined_timestamp")
  BY <1>2 DEF BodySize
<1> HIDE DEF size
<1>6. s.cached_size = BodySize(Serialize(u)) /\ s.cached_size \in Nat
  BY <1>1, <1>4, <1>5
<1>7. s \in Users
  BY <1>6, SoundParts DEF ByteSizeLong, Users
<1> HIDE DEF s
<1>8. s \in SoundUsers
  BY <1>3, <1>7, SoundParts DEF SoundUsers
<1> QED
  BY <1>3, <1>6, <1>8 DEF Serialize, s

-----------------------------------------------------------------------------
(* Lists of users.                                                         *)

\* The lists that the program can hold: the users behind the first size ones,
\* which add_users will hand out, have no field.
SoundLists ==
  {m \in [elements : Seq(SoundUsers), size : Nat] :
     /\ m.size <= Len(m.elements)
     /\ \A i \in 1 .. Len(m.elements) :
          i > m.size => m.elements[i].has = {}}

\* What a list is in RecordLists.
RecordsOf(m) == [i \in 1 .. m.size |-> Serialize(m.elements[i])]

\* What a sound list is made of.
LEMMA ListParts ==
  ASSUME NEW m \in SoundLists
  PROVE  /\ m \in [elements : Seq(SoundUsers), size : Nat]
         /\ m.elements \in Seq(SoundUsers)
         /\ m.size \in Nat
         /\ Len(m.elements) \in Nat
         /\ DOMAIN m.elements = 1 .. Len(m.elements)
         /\ m.size <= Len(m.elements)
         /\ \A i \in 1 .. Len(m.elements) :
              /\ m.elements[i] \in SoundUsers
              /\ i > m.size => m.elements[i].has = {}
         /\ \A i \in 1 .. m.size : i \in 1 .. Len(m.elements)
<1> USE DEF SoundLists
<1>1. m.elements \in Seq(SoundUsers) /\ m.size \in Nat
  OBVIOUS
<1>2. \A i \in 1 .. Len(m.elements) : m.elements[i] \in SoundUsers
  BY <1>1
<1> QED
  BY <1>1, <1>2

\* The elements may be given as a function on 1 .. n.
LEMMA ListFromParts ==
  ASSUME NEW n \in Nat, NEW e \in [1 .. n -> SoundUsers],
         NEW size \in 0 .. n,
         \A i \in 1 .. n : i > size => e[i].has = {}
  PROVE  /\ [elements |-> e, size |-> size] \in SoundLists
         /\ Len(e) = n
<1>1. e \in Seq(SoundUsers) /\ Len(e) = n
  OBVIOUS
<1> QED
  BY <1>1 DEF SoundLists

\* An object of ConnectedUsers starts without users.
LEMMA NoUsersIsEmpty ==
  NoUsers \in SoundLists /\ NoUsers.size = 0 /\ RecordsOf(NoUsers) = << >>
BY DEF NoUsers, SoundLists, RecordsOf

\* mutable_users(i) of a sound list may become any other sound user.
LEMMA PutPuts ==
  ASSUME NEW m \in SoundLists, NEW i \in 1 .. m.size, NEW u \in SoundUsers
  PROVE  LET s == [m EXCEPT !.elements[i] = u]
         IN  /\ s \in SoundLists
             /\ s.size = m.size
             /\ RecordsOf(s) = [RecordsOf(m) EXCEPT ![i] = Serialize(u)]
             /\ \A j \in 1 .. Len(m.elements) :
                  s.elements[j] = IF j = i THEN u ELSE m.elements[j]
<1> DEFINE s == [m EXCEPT !.elements[i] = u]
<1>1. s.size = m.size /\ s.elements = [m.elements EXCEPT ![i] = u]
  BY ListParts
<1>2. s \in [elements : Seq(SoundUsers), size : Nat]
  BY ListParts
<1> HIDE DEF s
<1>3. /\ Len(s.elements) = Len(m.elements)
      /\ \A j \in 1 .. Len(m.elements) :
           s.elements[j] = IF j = i THEN u ELSE m.elements[j]
  BY <1>1, ListParts
<1>4. s \in SoundLists
  BY <1>1, <1>2, <1>3, ListParts DEF SoundLists
<1>5. RecordsOf(s) = [RecordsOf(m) EXCEPT ![i] = Serialize(u)]
  <2>1. \A j \in 1 .. m.size :
          s.elements[j] = IF j = i THEN u ELSE m.elements[j]
    BY <1>3, ListParts
  <2> QED
    BY <1>1, <2>1 DEF RecordsOf
<1> QED
  BY <1>1, <1>3, <1>4, <1>5 DEF s

\* The records of sound users.
Bodies == {Serialize(u) : u \in SoundUsers}

\* The records of a sound list are such records, one for each user in it.
LEMMA RecordsType ==
  ASSUME NEW m \in SoundLists
  PROVE  /\ RecordsOf(m) \in Seq(Bodies)
         /\ Len(RecordsOf(m)) = m.size
         /\ \A i \in 1 .. m.size : RecordsOf(m)[i] = Serialize(m.elements[i])
<1>1. \A i \in 1 .. m.size : Serialize(m.elements[i]) \in Bodies
  BY ListParts DEF Bodies
<1>2. m.size \in Nat
  BY ListParts
<1>3. RecordsOf(m) \in [1 .. m.size -> Bodies]
  BY <1>1 DEF RecordsOf
<1> QED
  BY <1>2, <1>3 DEF RecordsOf

\* A list with one user more has one record more.
LEMMA OneMore ==
  ASSUME NEW m \in SoundLists, NEW s \in SoundLists, s.size = m.size + 1,
         \A i \in 1 .. m.size : s.elements[i] = m.elements[i]
  PROVE  RecordsOf(s) = Append(RecordsOf(m), Serialize(s.elements[s.size]))
<1> DEFINE x == Serialize(s.elements[s.size])
           r == Append(RecordsOf(m), x)
<1>1. m.size \in Nat /\ s.size \in 1 .. s.size /\ x \in Bodies
  BY ListParts DEF Bodies
<1> HIDE DEF x
<1>2. /\ r \in Seq(Bodies) /\ Len(r) = m.size + 1 /\ r[m.size + 1] = x
      /\ \A i \in 1 .. m.size : r[i] = RecordsOf(m)[i]
  BY <1>1, RecordsType, AppendProperties
<1>3. \A i \in 1 .. m.size : r[i] = RecordsOf(s)[i]
  BY <1>1, <1>2, RecordsType
<1>4. r[m.size + 1] = RecordsOf(s)[m.size + 1]
  BY <1>1, <1>2, RecordsType DEF x
<1> HIDE DEF r
<1>5. \A i \in 1 .. Len(r) : r[i] = RecordsOf(s)[i]
  BY <1>1, <1>2, <1>3, <1>4
<1>6. r = RecordsOf(s)
  BY <1>2, <1>5, RecordsType, SeqEqual
<1> QED
  BY <1>6 DEF r, x

\* A record without fields.
LEMMA NoFields ==
  ASSUME NEW u, u.has = {}
  PROVE  Serialize(u) = Records!Empty
BY DEF Serialize, Records!Empty

\* add_users() hands out a user without fields, a new one or a used one.
LEMMA AddAdds ==
  ASSUME NEW m \in SoundLists
  PROVE  LET s == add_users(m)
         IN  /\ s \in SoundLists
             /\ s.size = m.size + 1
             /\ s.elements[s.size] \in SoundUsers
             /\ s.elements[s.size].has = {}
             /\ \A i \in 1 .. m.size : s.elements[i] = m.elements[i]
             /\ RecordsOf(s) = Append(RecordsOf(m), Records!Empty)
<1> DEFINE s == add_users(m)
<1>1. /\ s \in SoundLists
      /\ s.size = m.size + 1
      /\ s.elements[s.size].has = {}
      /\ \A i \in 1 .. m.size : s.elements[i] = m.elements[i]
  <2>1. CASE m.size < Len(m.elements)
    <3>1. /\ s \in [elements : Seq(SoundUsers), size : Nat]
          /\ s.size = m.size + 1 /\ s.elements = m.elements
      BY <2>1, ListParts DEF add_users
    <3> HIDE DEF s
    <3> QED
      BY <2>1, <3>1, ListParts DEF SoundLists
  <2>2. CASE ~ (m.size < Len(m.elements))
    <3>1. m.size = Len(m.elements)
      BY <2>2, ListParts
    <3>2. s.elements = Append(m.elements, New) /\ s.size = m.size + 1
      BY <2>2 DEF add_users
    <3>3. s \in [elements : Seq(SoundUsers), size : Nat]
      BY <2>2, NewIsEmpty, ListParts DEF add_users
    <3> HIDE DEF s
    <3>4. /\ Len(s.elements) = m.size + 1
          /\ s.elements[m.size + 1] = New
          /\ \A i \in 1 .. m.size : s.elements[i] = m.elements[i]
      BY <3>1, <3>2, ListParts
    <3> QED
      BY <3>1, <3>2, <3>3, <3>4, NewIsEmpty, ListParts DEF SoundLists
  <2> QED
    BY <2>1, <2>2
<1> HIDE DEF s
<1>2. s.elements[s.size] \in SoundUsers
  <2>1. s.size \in 1 .. s.size
    BY <1>1, ListParts
  <2> QED
    BY <1>1, <2>1, ListParts
<1>3. RecordsOf(s) = Append(RecordsOf(m), Records!Empty)
  BY <1>1, OneMore, NoFields
<1> QED
  BY <1>1, <1>2, <1>3 DEF s

\* A list without users.
LEMMA NoRecords ==
  ASSUME NEW m, m.size = 0
  PROVE  RecordsOf(m) = << >>
BY DEF RecordsOf

\* Clear() clears the users that are in the list, and keeps them.
LEMMA ClearErases ==
  ASSUME NEW m \in SoundLists
  PROVE  /\ ListClear(m) \in SoundLists
         /\ ListClear(m).size = 0
         /\ RecordsOf(ListClear(m)) = << >>
<1> DEFINE e == [i \in DOMAIN m.elements |->
                   IF i <= m.size THEN Clear(m.elements[i])
                                  ELSE m.elements[i]]
<1>1. ListClear(m) = [elements |-> e, size |-> 0]
  BY DEF ListClear, clear_users
<1>2. e = [i \in 1 .. Len(m.elements) |-> e[i]]
  BY ListParts
<1>3. \A i \in 1 .. Len(m.elements) : e[i] \in SoundUsers /\ e[i].has = {}
  <2> SUFFICES ASSUME NEW i \in 1 .. Len(m.elements)
               PROVE  e[i] \in SoundUsers /\ e[i].has = {}
    OBVIOUS
  <2>1. e[i] = IF i <= m.size THEN Clear(m.elements[i]) ELSE m.elements[i]
    BY ListParts
  <2> HIDE DEF e
  <2>2. CASE i <= m.size
    BY <2>1, <2>2, ListParts, ClearClears
  <2>3. CASE ~ (i <= m.size)
    BY <2>1, <2>3, ListParts
  <2> QED
    BY <2>2, <2>3
<1>4. e \in [1 .. Len(m.elements) -> SoundUsers]
  BY <1>2, <1>3
<1> HIDE DEF e
<1>5. ListClear(m) \in SoundLists
  <2>1. Len(m.elements) \in Nat /\ 0 \in 0 .. Len(m.elements)
    BY ListParts
  <2> QED
    BY <1>1, <1>3, <1>4, <2>1, ListFromParts
<1>6. ListClear(m).size = 0
  BY <1>1
<1> QED
  BY <1>5, <1>6, NoRecords

\* MergeFrom(from) puts copies of the users of from behind one's own.
LEMMA ListMergeAppends ==
  ASSUME NEW m \in SoundLists, NEW from \in SoundLists
  PROVE  LET s == ListMergeFrom(m, from)
         IN  /\ s \in SoundLists
             /\ s.size = m.size + from.size
             /\ RecordsOf(s) = RecordsOf(m) \o RecordsOf(from)
<1> DEFINE total == m.size + from.size
           length == IF total > Len(m.elements) THEN total
                                                ELSE Len(m.elements)
           old(i) == IF i <= Len(m.elements) THEN m.elements[i] ELSE New
           e == [i \in 1 .. length |->
                   IF i \in (m.size + 1) .. total
                     THEN MergeFrom(old(i), from.elements[i - m.size])
                     ELSE old(i)]
           s == ListMergeFrom(m, from)
<1>1. s = [elements |-> e, size |-> total]
  BY DEF ListMergeFrom
<1>2. /\ m.size \in Nat /\ from.size \in Nat /\ length \in Nat
      /\ total \in 0 .. length /\ total = m.size + from.size
      /\ m.size <= Len(m.elements) /\ Len(m.elements) \in Nat
      /\ length > total => length = Len(m.elements)
  BY ListParts
<1>3. \A i \in 1 .. length :
        /\ old(i) \in SoundUsers
        /\ i > m.size => old(i).has = {}
        /\ i <= m.size => old(i) = m.elements[i]
  BY <1>2, ListParts, NewIsEmpty
<1>4. /\ e = [i \in 1 .. length |-> e[i]]
      /\ \A i \in 1 .. length :
           e[i] = IF i \in (m.size + 1) .. total
                    THEN MergeFrom(old(i), from.elements[i - m.size])
                    ELSE old(i)
  OBVIOUS
<1> HIDE DEF total, length, old, e
<1>5. \A i \in (m.size + 1) .. total :
        /\ i \in 1 .. length /\ i - m.size \in 1 .. from.size
        /\ e[i] \in SoundUsers
        /\ Serialize(e[i]) = RecordsOf(from)[i - m.size]
  <2> SUFFICES ASSUME NEW i \in (m.size + 1) .. total
               PROVE  /\ i \in 1 .. length /\ i - m.size \in 1 .. from.size
                      /\ e[i] \in SoundUsers
                      /\ Serialize(e[i]) = RecordsOf(from)[i - m.size]
    OBVIOUS
  <2>1. i \in 1 .. length /\ i - m.size \in 1 .. from.size /\ i > m.size
    BY <1>2
  <2> DEFINE u == from.elements[i - m.size]
  <2>2. u \in SoundUsers /\ RecordsOf(from)[i - m.size] = Serialize(u)
    BY <2>1, ListParts, RecordsType
  <2>3. e[i] = MergeFrom(old(i), u) /\ old(i) \in SoundUsers
    BY <2>1, <1>3, <1>4
  <2>4. Serialize(old(i)) = Records!Empty
    BY <2>1, <1>3, NoFields
  <2> HIDE DEF u
  <2>5. /\ MergeFrom(old(i), u) \in SoundUsers
        /\ Serialize(MergeFrom(old(i), u)) = Serialize(u)
    BY <2>2, <2>3, <2>4, MergeMerges, OverEmpty
  <2> QED
    BY <2>1, <2>2, <2>3, <2>5
<1>6. \A i \in 1 .. m.size :
        i \in 1 .. length /\ Serialize(e[i]) = RecordsOf(m)[i]
  <2> SUFFICES ASSUME NEW i \in 1 .. m.size
               PROVE  i \in 1 .. length
                      /\ Serialize(e[i]) = RecordsOf(m)[i]
    OBVIOUS
  <2>1. i \in 1 .. length /\ ~ (i \in (m.size + 1) .. total) /\ i <= m.size
    BY <1>2
  <2>2. e[i] = m.elements[i]
    BY <2>1, <1>3, <1>4
  <2> QED
    BY <2>1, <2>2, RecordsType
<1>7. \A i \in 1 .. length : /\ e[i] \in SoundUsers
                             /\ i > total => e[i].has = {}
  <2> SUFFICES ASSUME NEW i \in 1 .. length
               PROVE  /\ e[i] \in SoundUsers
                      /\ i > total => e[i].has = {}
    OBVIOUS
  <2>1. CASE i \in (m.size + 1) .. total
    <3>1. ~ (i > total)
      BY <1>2, <2>1
    <3> QED
      BY <1>5, <2>1, <3>1
  <2>2. CASE ~ (i \in (m.size + 1) .. total)
    <3>1. i > total => i > m.size
      BY <1>2
    <3> QED
      BY <1>3, <1>4, <2>2, <3>1
  <2> QED
    BY <2>1, <2>2
<1>8. s \in SoundLists
  <2>1. e \in [1 .. length -> SoundUsers]
    BY <1>4, <1>7
  <2> QED
    BY <1>1, <1>2, <1>7, <2>1, ListFromParts
<1>9. s.size = total /\ s.elements = e
  BY <1>1
<1> HIDE DEF s
<1> DEFINE c == RecordsOf(m) \o RecordsOf(from)
<1>10. /\ c \in Seq(Bodies) /\ Len(c) = total
       /\ \A i \in 1 .. total :
            c[i] = IF i <= m.size THEN RecordsOf(m)[i]
                                  ELSE RecordsOf(from)[i - m.size]
  <2> DEFINE a == RecordsOf(m)
             b == RecordsOf(from)
  <2>1. /\ a \in Seq(Bodies) /\ Len(a) = m.size
        /\ b \in Seq(Bodies) /\ Len(b) = from.size
    BY RecordsType
  <2> HIDE DEF a, b
  <2>2. /\ a \o b \in Seq(Bodies)
        /\ Len(a \o b) = Len(a) + Len(b)
        /\ \A i \in 1 .. Len(a) + Len(b) :
             (a \o b)[i] = IF i <= Len(a) THEN a[i] ELSE b[i - Len(a)]
    BY <2>1, ConcatProperties, Zenon
  <2> QED
    BY <1>2, <2>1, <2>2 DEF a, b
<1> HIDE DEF c
<1>11. \A i \in 1 .. total : RecordsOf(s)[i] = c[i]
  <2> SUFFICES ASSUME NEW i \in 1 .. total PROVE RecordsOf(s)[i] = c[i]
    OBVIOUS
  <2>1. RecordsOf(s)[i] = Serialize(e[i])
    BY <1>8, <1>9, RecordsType
  <2>2. \/ i \in 1 .. m.size /\ i <= m.size
        \/ i \in (m.size + 1) .. total /\ ~ (i <= m.size)
    BY <1>2
  <2> QED
    BY <2>1, <2>2, <1>5, <1>6, <1>10
<1>12. RecordsOf(s) = c
  BY <1>8, <1>9, <1>10, <1>11, RecordsType, SeqEqual
<1> QED
  BY <1>2, <1>8, <1>9, <1>12 DEF c, s

\* CopyFrom and the copy constructor of a list make a copy.
LEMMA ListCopies ==
  ASSUME NEW m \in SoundLists, NEW from \in SoundLists
  PROVE  /\ ListCopyFrom(m, from) \in SoundLists
         /\ RecordsOf(ListCopyFrom(m, from)) = RecordsOf(from)
         /\ ListCopyOf(from) \in SoundLists
         /\ RecordsOf(ListCopyOf(from)) = RecordsOf(from)
<1>1. << >> \o RecordsOf(from) = RecordsOf(from)
  BY RecordsType, ConcatEmptySeq
<1>2. ASSUME NEW l \in SoundLists, RecordsOf(l) = << >>
      PROVE  /\ ListMergeFrom(l, from) \in SoundLists
             /\ RecordsOf(ListMergeFrom(l, from)) = RecordsOf(from)
  BY <1>1, <1>2, ListMergeAppends
<1> QED
  BY <1>2, ClearErases, NoUsersIsEmpty DEF ListCopyFrom, ListCopyOf

\* What a list of records is on the wire.
Encoded(r) == [i \in 1 .. Len(r) |-> [len |-> BodySize(r[i]), body |-> r[i]]]

\* It is well formed, and so is each beginning of it.
LEMMA EncodedIsWellFormed ==
  ASSUME NEW r \in Seq(Bodies)
  PROVE  /\ WellFormed(Encoded(r))
         /\ Len(Encoded(r)) = Len(r)
         /\ DOMAIN Encoded(r) = 1 .. Len(r)
         /\ \A i \in 1 .. Len(r) : Encoded(r)[i].body = r[i]
         /\ \A i \in 1 .. Len(r) : WellFormed(SubSeq(Encoded(r), 1, i))
<1> DEFINE b == Encoded(r)
           S == [len : {BodySize(r[i]) : i \in 1 .. Len(r)}, body : Bodies]
<1>1. Len(r) \in Nat /\ \A i \in 1 .. Len(r) : r[i] \in Bodies
  OBVIOUS
<1>2. \A i \in 1 .. Len(r) : b[i] = [len |-> BodySize(r[i]), body |-> r[i]]
  BY DEF Encoded
<1>3. b \in [1 .. Len(r) -> S]
  BY <1>1, <1>2 DEF Encoded
<1> HIDE DEF b, S
<1>4. b \in Seq(S) /\ Len(b) = Len(r)
  BY <1>1, <1>3
<1>5. \A i \in 1 .. Len(r) : b[i].body = r[i] /\ b[i].len = BodySize(r[i])
  <2> TAKE i \in 1 .. Len(r)
  <2>1. b[i] = [len |-> BodySize(r[i]), body |-> r[i]]
    BY <1>2
  <2> QED
    BY <2>1
<1>6. \A i \in 1 .. Len(r) : b[i].len = BodySize(b[i].body)
  BY <1>5, Zenon
<1>7. \A i \in 1 .. Len(r) : WellFormed(SubSeq(b, 1, i))
  <2> SUFFICES ASSUME NEW i \in 1 .. Len(r)
               PROVE  WellFormed(SubSeq(b, 1, i))
    OBVIOUS
  <2>1. /\ DOMAIN SubSeq(b, 1, i) = 1 .. i
        /\ \A j \in 1 .. i : SubSeq(b, 1, i)[j] = b[j] /\ j \in 1 .. Len(r)
    BY <1>1, <1>4
  <2> QED
    BY <1>6, <2>1 DEF WellFormed
<1>8. DOMAIN b = 1 .. Len(r)
  BY <1>4
<1>9. WellFormed(b)
  BY <1>6, <1>8 DEF WellFormed
<1> QED
  BY <1>4, <1>5, <1>7, <1>8, <1>9 DEF b

\* ByteSizeLong() leaves the lengths in the users with which the list is then
\* written, and they are those of the bytes.
LEMMA ListSizes ==
  ASSUME NEW m \in SoundLists
  PROVE  LET s == ListByteSizeLong(m)
         IN  /\ s \in SoundLists
             /\ s.size = m.size
             /\ RecordsOf(s) = RecordsOf(m)
             /\ ListSerialize(s) = Encoded(RecordsOf(m))
<1> DEFINE s == ListByteSizeLong(m)
<1>1. /\ s.size = m.size
      /\ s.elements = [i \in 1 .. Len(m.elements) |->
                         IF i <= m.size THEN ByteSizeLong(m.elements[i])
                                        ELSE m.elements[i]]
  BY ListParts DEF ListByteSizeLong
<1>2. \A i \in 1 .. Len(m.elements) :
        s.elements[i] = IF i <= m.size THEN ByteSizeLong(m.elements[i])
                                       ELSE m.elements[i]
  BY <1>1
<1>3. \A i \in 1 .. Len(m.elements) :
        s.elements[i] \in SoundUsers /\ (i > m.size => s.elements[i].has = {})
  <2> HIDE DEF s
  <2> QED
    BY <1>2, ListParts, ByteSizeLongSizes
<1>4. /\ s.elements \in Seq(SoundUsers)
      /\ Len(s.elements) = Len(m.elements)
  <2>1. s.elements \in [1 .. Len(m.elements) -> SoundUsers]
    BY <1>1, <1>3
  <2> HIDE DEF s
  <2> QED
    BY <2>1, ListParts
<1>5. s \in [elements : Seq(SoundUsers), size : Nat]
  BY <1>4, ListParts DEF ListByteSizeLong
<1> HIDE DEF s
<1>6. s \in SoundLists
  BY <1>1, <1>3, <1>4, <1>5, ListParts DEF SoundLists
<1>7. \A i \in 1 .. m.size :
        /\ Serialize(s.elements[i]) = Serialize(m.elements[i])
        /\ s.elements[i].cached_size = BodySize(Serialize(m.elements[i]))
  BY <1>2, ListParts, ByteSizeLongSizes
<1>8. RecordsOf(s) = RecordsOf(m)
  BY <1>1, <1>7 DEF RecordsOf
<1>9. ListSerialize(s) = Encoded(RecordsOf(m))
  <2> DEFINE r == RecordsOf(m)
  <2>1. /\ Len(r) = m.size
        /\ \A i \in 1 .. m.size : r[i] = Serialize(m.elements[i])
    BY RecordsType
  <2> HIDE DEF r
  <2>2. ListSerialize(s) =
          [i \in 1 .. m.size |-> [len |-> BodySize(r[i]), body |-> r[i]]]
    BY <1>1, <1>7, <2>1 DEF ListSerialize
  <2> QED
    BY <2>1, <2>2 DEF Encoded, r
<1> QED
  BY <1>1, <1>6, <1>8, <1>9 DEF s

\* One turn of the loop that parses a list: add_users(), then the bytes.
LEMMA TakeIn ==
  ASSUME NEW l \in SoundLists, NEW body \in Bodies
  PROVE  LET a == add_users(l)
             t == [a EXCEPT !.elements[a.size] = Parse(@, body)]
         IN  /\ t \in SoundLists
             /\ t.size = l.size + 1
             /\ \A i \in 1 .. l.size : t.elements[i] = l.elements[i]
             /\ Serialize(t.elements[t.size]) = body
<1> DEFINE a == add_users(l)
           u == Parse(a.elements[a.size], body)
           t == [a EXCEPT !.elements[a.size] = u]
<1>1. /\ a \in SoundLists /\ a.size = l.size + 1
      /\ a.elements[a.size] \in SoundUsers
      /\ a.elements[a.size].has = {}
      /\ \A i \in 1 .. l.size : a.elements[i] = l.elements[i]
  BY AddAdds
<1> HIDE DEF a
<1>2. PICK from \in SoundUsers : body = Serialize(from)
  BY DEF Bodies
<1>3. u \in SoundUsers /\ Serialize(u) = body
  BY <1>1, <1>2, ParseMerges, NoFields, OverEmpty
<1>4. /\ l.size \in Nat /\ a.size \in 1 .. a.size
      /\ \A i \in 1 .. a.size : i \in 1 .. Len(a.elements)
  BY <1>1, ListParts
<1> HIDE DEF u
<1>5. /\ t \in SoundLists /\ t.size = a.size
      /\ \A i \in 1 .. Len(a.elements) :
           t.elements[i] = IF i = a.size THEN u ELSE a.elements[i]
  <2> DEFINE n == a.size
  <2>1. n \in 1 .. a.size
    BY <1>4
  <2> HIDE DEF n
  <2>2. LET s == [a EXCEPT !.elements[n] = u]
        IN  /\ s \in SoundLists
            /\ s.size = a.size
            /\ RecordsOf(s) = [RecordsOf(a) EXCEPT ![n] = Serialize(u)]
            /\ \A j \in 1 .. Len(a.elements) :
                  s.elements[j] = IF j = n THEN u ELSE a.elements[j]
    BY <1>1, <1>3, <2>1, PutPuts
  <2> QED
    BY <2>2 DEF n
<1> HIDE DEF t
<1>6. \A i \in 1 .. l.size : i \in 1 .. a.size /\ i # a.size
  BY <1>1, <1>4
<1>7. \A i \in 1 .. l.size : t.elements[i] = l.elements[i]
  BY <1>1, <1>4, <1>5, <1>6
<1> QED
  BY <1>1, <1>3, <1>4, <1>5, <1>7 DEF a, u, t

\* What has been parsed after i users: m, and the first i records of r.
Parsed(l, m, r, i) ==
  /\ l \in SoundLists
  /\ l.size = m.size + i
  /\ \A j \in 1 .. m.size :
       Serialize(l.elements[j]) = Serialize(m.elements[j])
  /\ \A j \in 1 .. i : Serialize(l.elements[m.size + j]) = r[j]

\* The end of it.
LEMMA ParsedAll ==
  ASSUME NEW m \in SoundLists, NEW r \in Seq(Bodies), NEW l,
         Parsed(l, m, r, Len(r))
  PROVE  /\ l \in SoundLists
         /\ l.size = m.size + Len(r)
         /\ RecordsOf(l) = RecordsOf(m) \o r
<1> DEFINE a == RecordsOf(m)
<1>1. /\ a \in Seq(Bodies) /\ Len(a) = m.size
      /\ \A j \in 1 .. m.size : a[j] = Serialize(m.elements[j])
  BY RecordsType
<1> HIDE DEF a
<1> DEFINE c == a \o r
<1>2. /\ c \in Seq(Bodies) /\ Len(c) = Len(a) + Len(r)
      /\ \A i \in 1 .. Len(a) + Len(r) :
           c[i] = IF i <= Len(a) THEN a[i] ELSE r[i - Len(a)]
  BY <1>1, ConcatProperties, Zenon
<1> HIDE DEF c
<1>3. /\ RecordsOf(l) \in Seq(Bodies) /\ Len(RecordsOf(l)) = Len(c)
      /\ \A i \in 1 .. Len(c) : RecordsOf(l)[i] = Serialize(l.elements[i])
  BY <1>1, <1>2, RecordsType DEF Parsed
<1>4. \A i \in 1 .. Len(c) : RecordsOf(l)[i] = c[i]
  <2> SUFFICES ASSUME NEW i \in 1 .. Len(c) PROVE RecordsOf(l)[i] = c[i]
    OBVIOUS
  <2>1. m.size \in Nat /\ Len(r) \in Nat /\ i \in 1 .. m.size + Len(r)
    BY <1>1, <1>2, ListParts
  <2>2. CASE i <= m.size
    <3>1. i \in 1 .. m.size
      BY <2>1, <2>2
    <3>2. RecordsOf(l)[i] = a[i]
      BY <3>1, <1>1, <1>3 DEF Parsed
    <3> QED
      BY <2>1, <2>2, <3>2, <1>1, <1>2
  <2>3. CASE ~ (i <= m.size)
    <3>1. i - m.size \in 1 .. Len(r) /\ i = m.size + (i - m.size)
      BY <2>1, <2>3
    <3>2. Serialize(l.elements[m.size + (i - m.size)]) = r[i - m.size]
      BY <3>1 DEF Parsed
    <3> QED
      BY <2>1, <2>3, <3>1, <3>2, <1>1, <1>2, <1>3
  <2> QED
    BY <2>2, <2>3
<1>5. RecordsOf(l) = c
  BY <1>2, <1>3, <1>4, SeqEqual
<1> QED
  BY <1>5 DEF a, c, Parsed

\* Parsing what a list of records was written as puts them behind one's own.
LEMMA ListParseAppends ==
  ASSUME NEW m \in SoundLists, NEW r \in Seq(Bodies)
  PROVE  /\ ListParse(m, Encoded(r)) \in SoundLists
         /\ ListParse(m, Encoded(r)).size = m.size + Len(r)
         /\ RecordsOf(ListParse(m, Encoded(r))) = RecordsOf(m) \o r
<1> DEFINE bytes == Encoded(r)
           n == Len(r)
           read == {i \in DOMAIN bytes : WellFormed(SubSeq(bytes, 1, i))}
           into(l, body) == [l EXCEPT !.elements[l.size] = Parse(@, body)]
           after[i \in 0 .. Len(bytes)] ==
             IF i = 0 THEN m ELSE into(add_users(after[i - 1]), bytes[i].body)
<1>1. ListParse(m, bytes) = after[Cardinality(read)]
  BY DEF ListParse
<1>2. /\ n \in Nat /\ Len(bytes) = n
      /\ \A i \in 1 .. n : bytes[i].body = r[i] /\ r[i] \in Bodies
  BY EncodedIsWellFormed
<1>3. Cardinality(read) = n
  <2>1. read = 1 .. n
    BY EncodedIsWellFormed
  <2> HIDE DEF read, n
  <2>2. 1 \in Int /\ n \in Int
    BY <1>2
  <2>3. Cardinality(1 .. n) = IF 1 > n THEN 0 ELSE n - 1 + 1
    BY <2>2, FS_Interval
  <2> QED
    BY <1>2, <2>1, <2>3
<1> HIDE DEF read, bytes
<1>4. \A l \in SoundLists, i \in 1 .. n :
        LET t == into(add_users(l), bytes[i].body)
        IN  /\ t \in SoundLists
            /\ t.size = l.size + 1
            /\ \A j \in 1 .. l.size : t.elements[j] = l.elements[j]
            /\ Serialize(t.elements[t.size]) = r[i]
  BY <1>2, TakeIn
<1> DEFINE turn(l, i) == into(add_users(l), bytes[i].body)
<1>5. after = [i \in 0 .. n |-> IF i = 0 THEN m ELSE turn(after[i - 1], i)]
  <2> DEFINE step == [i \in 1 .. n |-> [l \in SoundLists |-> turn(l, i)]]
             P(g) == g = [i \in 0 .. n |->
                            IF i = 0 THEN m ELSE turn(g[i - 1], i)]
  <2>1. \A i \in 1 .. n : \A l \in SoundLists :
          step[i][l] = turn(l, i) /\ turn(l, i) \in SoundLists
    BY <1>4
  <2>2. after = CHOOSE g : P(g)
    BY <1>2
  <2> HIDE DEF turn, step
  <2>3. StaysIn(step, n, SoundLists)
    BY <2>1 DEF StaysIn
  <2>4. PICK g \in [0 .. n -> SoundLists] : Follows(g, m, step, n)
    BY <1>2, <2>3, Recursion
  <2>5. \A i \in 0 .. n : g[i] = IF i = 0 THEN m ELSE turn(g[i - 1], i)
    <3> TAKE i \in 0 .. n
    <3>1. CASE i = 0
      BY <3>1, <2>4 DEF Follows
    <3>2. CASE i # 0
      <4>1. i \in 1 .. n /\ i - 1 \in 0 .. n
        BY <3>2, <1>2
      <4>2. g[i - 1] \in SoundLists /\ g[i] = step[i][g[i - 1]]
        BY <4>1, <2>4 DEF Follows
      <4> QED
        BY <3>2, <4>1, <4>2, <2>1
    <3> QED
      BY <3>1, <3>2
  <2>6. P(g)
    BY <2>4, <2>5
  <2>7. P(after)
    BY <2>2, <2>6
  <2> QED
    BY <2>7
<1> HIDE DEF after
<1> DEFINE D == {i \in 0 .. n : Parsed(after[i], m, r, i)}
<1>6. 0 \in D
  <2>1. after[0] = m /\ m.size \in Nat
    BY <1>2, <1>5, ListParts
  <2> QED
    BY <1>2, <2>1 DEF Parsed
<1>7. ASSUME NEW i \in 1 .. n, i - 1 \in D PROVE i \in D
  <2> DEFINE l == after[i - 1]
             t == after[i]
  <2>1. Parsed(l, m, r, i - 1) /\ i \in 0 .. n /\ m.size \in Nat
    BY <1>7, <1>2, ListParts
  <2>2. t = turn(l, i)
    <3> HIDE DEF turn
    <3>1. i \in 0 .. n /\ i # 0
      BY <2>1, <1>2
    <3> QED
      BY <1>5, <3>1
  <2> HIDE DEF l, t
  <2>3. l \in SoundLists /\ l.size = m.size + (i - 1)
    BY <2>1 DEF Parsed
  <2>4. /\ t \in SoundLists
        /\ t.size = l.size + 1
        /\ \A j \in 1 .. l.size : t.elements[j] = l.elements[j]
        /\ Serialize(t.elements[t.size]) = r[i]
    BY <2>2, <2>3, <1>4
  <2>5. t.size = m.size + i
    BY <2>1, <2>3, <2>4
  <2>6. \A j \in 1 .. m.size : j \in 1 .. l.size
    BY <2>1, <2>3
  <2>7. ASSUME NEW j \in 1 .. i
        PROVE  Serialize(t.elements[m.size + j]) = r[j]
    <3>1. CASE j = i
      BY <3>1, <2>4, <2>5
    <3>2. CASE j # i
      <4>1. j \in 1 .. i - 1 /\ m.size + j \in 1 .. l.size
        BY <3>2, <2>1, <2>3
      <4> QED
        BY <4>1, <2>1, <2>4 DEF Parsed
    <3> QED
      BY <3>1, <3>2
  <2>8. Parsed(t, m, r, i)
    BY <2>1, <2>4, <2>5, <2>6, <2>7 DEF Parsed
  <2> QED
    BY <2>1, <2>8 DEF t
<1> HIDE DEF D
<1>8. 0 .. n \subseteq D
  BY <1>2, <1>6, <1>7, SetInduction
<1>9. n \in D
  BY <1>2, <1>8
<1>10. Parsed(after[n], m, r, n)
  BY <1>9 DEF D
<1> QED
  BY <1>1, <1>3, <1>10, ParsedAll DEF bytes

-----------------------------------------------------------------------------
(* MessageObjects: what the objects of a program are, and that they do     *)
(* what RecordLists says.                                                  *)

\* The inductive invariant: every object is a sound list.
ObjectsInv == message \in [Objects -> SoundLists]

\* What RecordLists sees of the objects.
LEMMA RecordsAreLists ==
  /\ records = [o \in Objects |-> RecordsOf(message[o])]
  /\ records' = [o \in Objects |-> RecordsOf(message'[o])]
BY DEF records, RecordsOf, Serialize, Slots, user

\* What follows from it for one object.
LEMMA ObjectParts ==
  ASSUME ObjectsInv, NEW o \in Objects
  PROVE  /\ message[o] \in SoundLists
         /\ records[o] = RecordsOf(message[o])
         /\ records[o] \in Seq(Bodies)
         /\ Slots(o) = 1 .. message[o].size
         /\ DOMAIN records[o] = Slots(o)
         /\ \A i \in Slots(o) :
              /\ user(o, i) \in SoundUsers
              /\ user(o, i) = message[o].elements[i]
              /\ records[o][i] = Serialize(user(o, i))
<1>1. message[o] \in SoundLists /\ records[o] = RecordsOf(message[o])
  BY RecordsAreLists DEF ObjectsInv
<1>2. Slots(o) = 1 .. message[o].size
      /\ \A i \in Slots(o) : user(o, i) = message[o].elements[i]
  BY DEF Slots, user
<1>3. \A i \in Slots(o) : user(o, i) \in SoundUsers
  BY <1>1, <1>2, ListParts
<1>4. /\ records[o] \in Seq(Bodies)
      /\ \A i \in Slots(o) : records[o][i] = Serialize(user(o, i))
  BY <1>1, <1>2, RecordsType
<1>5. DOMAIN records[o] = Slots(o)
  BY <1>1, <1>2 DEF RecordsOf
<1> QED
  BY <1>1, <1>2, <1>3, <1>4, <1>5

\* A step that gives one object another sound list.
LEMMA OneObject ==
  ASSUME ObjectsInv, NEW o \in Objects, NEW m \in SoundLists,
         message' = [message EXCEPT ![o] = m]
  PROVE  /\ ObjectsInv'
         /\ records' = [records EXCEPT ![o] = RecordsOf(m)]
<1>1. ObjectsInv'
  BY DEF ObjectsInv
<1>2. \A q \in Objects : message'[q] = IF q = o THEN m ELSE message[q]
  BY DEF ObjectsInv
<1> QED
  BY <1>1, <1>2, RecordsAreLists

\* A write to one user is an update of one record.
LEMMA WriteUpdates ==
  ASSUME ObjectsInv, NEW o \in Objects, NEW i \in Slots(o),
         NEW u \in SoundUsers, Write(o, i, u)
  PROVE  /\ ObjectsInv'
         /\ Records!Update(o, i, Serialize(u))
<1> DEFINE m == message[o]
           s == [m EXCEPT !.elements[i] = u]
<1>1. m \in SoundLists /\ i \in 1 .. m.size
  BY ObjectParts
<1>2. message' = [message EXCEPT ![o] = s]
  BY DEF Write
<1> HIDE DEF m
<1>3. /\ s \in SoundLists
      /\ RecordsOf(s) = [RecordsOf(m) EXCEPT ![i] = Serialize(u)]
  BY <1>1, PutPuts
<1> HIDE DEF s
<1>4. ObjectsInv' /\ records' = [records EXCEPT ![o] = RecordsOf(s)]
  BY <1>2, <1>3, OneObject
<1>5. records[o] = RecordsOf(m)
  BY ObjectParts DEF m
<1> QED
  BY <1>3, <1>4, <1>5 DEF Records!Update

\* A list that takes the place of an object's.
LEMMA BecomeBecomes ==
  ASSUME ObjectsInv, NEW o \in Objects, NEW m \in SoundLists, Become(o, m)
  PROVE  /\ ObjectsInv'
         /\ Records!Become(o, RecordsOf(m))
BY OneObject DEF Become, Records!Become, Records!Quiet

\* What is known of one user before a call.
LEMMA OneUser ==
  ASSUME ObjectsInv, NEW o \in Objects, NEW i \in Slots(o)
  PROVE  /\ user(o, i) \in SoundUsers
         /\ records[o][i] = Serialize(user(o, i))
         /\ DOMAIN records[o][i] = user(o, i).has
         /\ \A g \in user(o, i).has : records[o][i][g] = user(o, i).val[g]
BY ObjectParts DEF Serialize

\* An accessor returns the value, or the default.
LEMMA GetFieldGets ==
  ASSUME ObjectsInv, NEW o \in Objects, NEW i \in Slots(o), NEW f \in Fields,
         GetField(o, i, f)
  PROVE  ObjectsInv' /\ Records!Get(o, i, f)
<1> DEFINE u == user(o, i)
           r == records[o][i]
<1>1. ObjectsInv' /\ records' = records
  BY RecordsAreLists DEF GetField, ObjectsInv
<1>2. u.val[f] = IF f \in DOMAIN r THEN r[f] ELSE Default(f)
  BY OneUser, SoundParts
<1>3. got' = <<f, u.val[f]>>
  BY DEF GetField
<1> QED
  BY <1>1, <1>2, <1>3 DEF Records!Get

\* Both ways to set a field.
LEMMA SetFieldSets ==
  ASSUME ObjectsInv, NEW o \in Objects, NEW i \in Slots(o), NEW f \in Fields,
         NEW v \in Values(f),
         SetField(o, i, f, v) \/ SetAllocatedField(o, i, f, v)
  PROVE  ObjectsInv' /\ Records!SetField(o, i, f, v)
<1> DEFINE u == user(o, i)
           r == records[o][i]
<1>1. Write(o, i, Set(u, f, v)) /\ UNCHANGED got
  BY DEF SetField, SetAllocatedField, SetAllocated
<1>2. /\ Set(u, f, v) \in SoundUsers
      /\ Serialize(Set(u, f, v)) = Records!With(r, f, v)
  BY OneUser, SetSets
<1>3. ObjectsInv' /\ Records!Update(o, i, Records!With(r, f, v))
  BY <1>1, <1>2, WriteUpdates
<1> QED
  BY <1>1, <1>3 DEF Records!SetField, Records!Quiet

\* Both ways to clear it.
LEMMA ClearFieldClears ==
  ASSUME ObjectsInv, NEW o \in Objects, NEW i \in Slots(o), NEW f \in Fields,
         ClearUserField(o, i, f) \/ SetAllocatedFieldNull(o, i, f)
  PROVE  ObjectsInv' /\ Records!UnsetField(o, i, f)
<1> DEFINE u == user(o, i)
           r == records[o][i]
<1>1. Write(o, i, ClearField(u, f)) /\ UNCHANGED got
  BY DEF ClearUserField, SetAllocatedFieldNull, SetAllocatedNull
<1>2. /\ ClearField(u, f) \in SoundUsers
      /\ Serialize(ClearField(u, f)) = Records!Without(r, f)
  BY OneUser, ClearFieldUnsets
<1>3. ObjectsInv' /\ Records!Update(o, i, Records!Without(r, f))
  BY <1>1, <1>2, WriteUpdates
<1> QED
  BY <1>1, <1>3 DEF Records!UnsetField, Records!Quiet

\* A pointer to a field sets it, and changes nothing if it was set.
LEMMA MutableTouches ==
  ASSUME ObjectsInv, NEW o \in Objects, NEW i \in Slots(o), NEW f \in Fields,
         MutableField(o, i, f)
  PROVE  /\ ObjectsInv'
         /\ Records!TouchField(o, i, f) \/ Records!Touched(o, i, f)
<1> DEFINE u == user(o, i)
           r == records[o][i]
<1>1. /\ u \in SoundUsers
      /\ r = Serialize(u)
      /\ DOMAIN r = u.has
  BY OneUser
<1>2. Write(o, i, Mutable(u, f)) /\ UNCHANGED got
  BY DEF MutableField
<1>3. /\ Mutable(u, f) \in SoundUsers
      /\ f \in u.has => Serialize(Mutable(u, f)) = r
      /\ f \notin u.has =>
           Serialize(Mutable(u, f)) = Records!With(r, f, Default(f))
  BY <1>1, MutableSets
<1>4. /\ ObjectsInv'
      /\ Records!Update(o, i, Serialize(Mutable(u, f)))
  BY <1>2, <1>3, WriteUpdates
<1>5. CASE f \in u.has
  <2>1. records' = [records EXCEPT ![o] = [@ EXCEPT ![i] = r]]
    BY <1>3, <1>4, <1>5 DEF Records!Update
  <2>2. records' = records
    <3>1. records[o] \in Seq(Bodies)
      BY ObjectParts
    <3>2. [records[o] EXCEPT ![i] = r] = records[o]
      BY <3>1
    <3>3. records = [q \in Objects |-> records[q]]
      BY RecordsAreLists
    <3> HIDE DEF r
    <3> QED
      BY <2>1, <3>2, <3>3
  <2> QED
    BY <1>1, <1>2, <1>4, <1>5, <2>2 DEF Records!Touched, Records!vars
<1>6. CASE f \notin u.has
  BY <1>1, <1>2, <1>3, <1>4, <1>6 DEF Records!TouchField, Records!Quiet
<1> QED
  BY <1>5, <1>6

\* A release hands the value out.
LEMMA ReleaseReleases ==
  ASSUME ObjectsInv, NEW o \in Objects, NEW i \in Slots(o), NEW f \in Fields,
         ReleaseField(o, i, f)
  PROVE  ObjectsInv' /\ Records!Release(o, i, f)
<1> DEFINE u == user(o, i)
           r == records[o][i]
<1>1. /\ u \in SoundUsers
      /\ r = Serialize(u)
      /\ DOMAIN r = u.has
      /\ \A g \in u.has : r[g] = u.val[g]
  BY OneUser
<1>2. /\ f \in u.has
      /\ got' = <<f, u.val[f]>>
      /\ Write(o, i, ClearField(u, f))
  BY DEF ReleaseField, Release
<1>3. /\ ClearField(u, f) \in SoundUsers
      /\ Serialize(ClearField(u, f)) = Records!Without(r, f)
  BY <1>1, ClearFieldUnsets
<1>4. ObjectsInv' /\ Records!Update(o, i, Records!Without(r, f))
  BY <1>2, <1>3, WriteUpdates
<1> QED
  BY <1>1, <1>2, <1>4 DEF Records!Release

\* The calls on one field.
LEMMA FieldCallKeeps ==
  ASSUME ObjectsInv, NEW o \in Objects, NEW i \in Slots(o), NEW f \in Fields
  PROVE  /\ FieldCall(o, i, f) => ObjectsInv'
         /\ EachFieldCall(o, i, f)
<1>1. EachFieldCall(o, i, f)
  BY GetFieldGets, SetFieldSets, ClearFieldClears, MutableTouches,
     ReleaseReleases DEF EachFieldCall
<1>2. FieldCall(o, i, f) => ObjectsInv'
  BY GetFieldGets, SetFieldSets, ClearFieldClears, MutableTouches,
     ReleaseReleases DEF FieldCall
<1> QED
  BY <1>1, <1>2

\* Clear() of a user; it may be the only object.
LEMMA ClearUserKeeps ==
  ASSUME ObjectsInv, NEW o \in Objects, NEW i \in Slots(o),
         ClearUser(o, i)
  PROVE  ObjectsInv' /\ Records!Forget(o, i)
<1>1. user(o, i) \in SoundUsers
  BY ObjectParts
<1>2. /\ Clear(user(o, i)) \in SoundUsers
      /\ Serialize(Clear(user(o, i))) = Records!Empty
  BY <1>1, ClearClears
<1> QED
  BY <1>2, WriteUpdates DEF ClearUser, Records!Forget, Records!Quiet

\* The calls that take a user and another.
LEMMA WholeUserKeeps ==
  ASSUME ObjectsInv, NEW o \in Objects, NEW i \in Slots(o),
         NEW p \in Objects \ {o}, NEW j \in Slots(p)
  PROVE  /\ MergeUser(o, i, p, j) => ObjectsInv' /\ Records!Merge(o, i, p, j)
         /\ CopyUser(o, i, p, j) => ObjectsInv' /\ Records!Assign(o, i, p, j)
         /\ SwapUsers(o, i, p, j) =>
              ObjectsInv' /\ Records!Exchange(o, i, p, j)
<1> DEFINE u == user(o, i)
           v == user(p, j)
<1>1. /\ u \in SoundUsers /\ records[o][i] = Serialize(u)
      /\ v \in SoundUsers /\ records[p][j] = Serialize(v)
  BY ObjectParts
<1> HIDE DEF u, v
<1>3. MergeUser(o, i, p, j) => ObjectsInv' /\ Records!Merge(o, i, p, j)
  BY <1>1, MergeMerges, WriteUpdates
     DEF MergeUser, Records!Merge, Records!Quiet, u, v
<1>4. CopyUser(o, i, p, j) => ObjectsInv' /\ Records!Assign(o, i, p, j)
  BY <1>1, CopyCopies, WriteUpdates
     DEF CopyUser, Records!Assign, Records!Quiet, u, v
<1>5. ASSUME SwapUsers(o, i, p, j)
      PROVE  ObjectsInv' /\ Records!Exchange(o, i, p, j)
  <2> DEFINE m == message[o]
             n == message[p]
             x == Swapped(u, v)
             y == Swapped(v, u)
             s == [m EXCEPT !.elements[i] = x]
             t == [n EXCEPT !.elements[j] = y]
  <2>1. /\ m \in SoundLists /\ i \in 1 .. m.size /\ records[o] = RecordsOf(m)
        /\ n \in SoundLists /\ j \in 1 .. n.size /\ records[p] = RecordsOf(n)
    BY ObjectParts
  <2>2. message' = [message EXCEPT ![o] = s, ![p] = t]
    BY <1>5 DEF SwapUsers, ObjectsInv, u, v
  <2>3. /\ x \in SoundUsers /\ Serialize(x) = Serialize(v)
        /\ y \in SoundUsers /\ Serialize(y) = Serialize(u)
    BY <1>1, SwappedSwaps
  <2> HIDE DEF m, n, x, y
  <2>4. /\ s \in SoundLists
        /\ RecordsOf(s) = [RecordsOf(m) EXCEPT ![i] = Serialize(v)]
    BY <2>1, <2>3, PutPuts
  <2>5. /\ t \in SoundLists
        /\ RecordsOf(t) = [RecordsOf(n) EXCEPT ![j] = Serialize(u)]
    BY <2>1, <2>3, PutPuts
  <2> HIDE DEF s, t
  <2>6. ObjectsInv'
    BY <2>2, <2>4, <2>5 DEF ObjectsInv
  <2>7. \A q \in Objects :
          message'[q] = IF q = o THEN s ELSE IF q = p THEN t ELSE message[q]
    BY <2>2 DEF ObjectsInv
  <2>8. records' = [records EXCEPT ![o] = RecordsOf(s), ![p] = RecordsOf(t)]
    BY <2>7, RecordsAreLists
  <2> QED
    BY <1>1, <1>5, <2>1, <2>4, <2>5, <2>6, <2>8
       DEF SwapUsers, Records!Exchange, Records!Quiet
<1> QED
  BY <1>3, <1>4, <1>5

\* The calls that take a whole list.
LEMMA ListCallKeeps ==
  ASSUME ObjectsInv, NEW o \in Objects
  PROVE  /\ ListCall(o) => ObjectsInv'
         /\ EachListCall(o)
<1>1. message[o] \in SoundLists /\ records[o] = RecordsOf(message[o])
  BY ObjectParts
<1>2. ASSUME Add(o) PROVE ObjectsInv' /\ Records!Add(o)
  <2>1. /\ add_users(message[o]) \in SoundLists
        /\ RecordsOf(add_users(message[o])) =
             Append(records[o], Records!Empty)
    BY <1>1, AddAdds
  <2>2. /\ ObjectsInv'
        /\ Records!Become(o, Append(records[o], Records!Empty))
    BY <1>2, <2>1, BecomeBecomes DEF Add
  <2> QED
    BY <2>2 DEF Records!Become, Records!Add
<1>3. ASSUME Erase(o) PROVE ObjectsInv' /\ Records!Become(o, << >>)
  BY <1>1, <1>3, ClearErases, BecomeBecomes DEF Erase
<1>4. ASSUME NEW p \in Objects \ {o}
      PROVE  /\ Merge(o, p) =>
                  ObjectsInv' /\ Records!Become(o, records[o] \o records[p])
             /\ Copy(o, p) \/ Construct(o, p) \/ Transfer(o, p) =>
                  ObjectsInv' /\ Records!Become(o, records[p])
             /\ Swap(o, p) => ObjectsInv' /\ Records!ExchangeAll(o, p)
  <2>1. message[p] \in SoundLists /\ records[p] = RecordsOf(message[p])
    BY ObjectParts
  <2>2. ASSUME Merge(o, p)
        PROVE  ObjectsInv' /\ Records!Become(o, records[o] \o records[p])
    <3> DEFINE s == ListMergeFrom(message[o], message[p])
    <3>1. s \in SoundLists /\ RecordsOf(s) = records[o] \o records[p]
      BY <1>1, <2>1, ListMergeAppends
    <3>2. Become(o, s)
      BY <2>2 DEF Merge
    <3> HIDE DEF s
    <3>3. ObjectsInv' /\ Records!Become(o, RecordsOf(s))
      BY <3>1, <3>2, BecomeBecomes
    <3> QED
      BY <3>1, <3>3
  <2>3. ASSUME Copy(o, p)
        PROVE  ObjectsInv' /\ Records!Become(o, records[p])
    BY <1>1, <2>1, <2>3, ListCopies, BecomeBecomes DEF Copy
  <2>4. ASSUME Construct(o, p)
        PROVE  ObjectsInv' /\ Records!Become(o, records[p])
    BY <1>1, <2>1, <2>4, ListCopies, BecomeBecomes DEF Construct
  <2>5. ASSUME Swap(o, p) PROVE ObjectsInv' /\ Records!ExchangeAll(o, p)
    <3>1. ObjectsInv'
      BY <1>1, <2>1, <2>5 DEF Swap, ObjectsInv
    <3>2. \A q \in Objects :
            message'[q] = IF q = o THEN message[p]
                          ELSE IF q = p THEN message[o] ELSE message[q]
      BY <2>5 DEF Swap, ObjectsInv
    <3>3. records' = [records EXCEPT ![o] = records[p], ![p] = records[o]]
      BY <3>2, RecordsAreLists
    <3> QED
      BY <2>5, <3>1, <3>3 DEF Swap, Records!ExchangeAll, Records!Quiet
  <2>6. ASSUME Transfer(o, p)
        PROVE  ObjectsInv' /\ Records!Become(o, records[p])
    <3> DEFINE sized == ListByteSizeLong(message[p])
               parsed == ListParse(ListClear(message[o]),
                                   ListSerialize(sized))
    <3>1. message' = [message EXCEPT ![o] = parsed, ![p] = sized]
      BY <2>6 DEF Transfer
    <3>2. /\ sized \in SoundLists
          /\ RecordsOf(sized) = records[p]
          /\ ListSerialize(sized) = Encoded(records[p])
      BY <2>1, ListSizes
    <3>3. /\ ListClear(message[o]) \in SoundLists
          /\ RecordsOf(ListClear(message[o])) = << >>
      BY <1>1, ClearErases
    <3>4. records[p] \in Seq(Bodies) /\ << >> \o records[p] = records[p]
      BY <2>1, RecordsType, ConcatEmptySeq
    <3>5. parsed \in SoundLists /\ RecordsOf(parsed) = records[p]
      BY <3>2, <3>3, <3>4, ListParseAppends
    <3> HIDE DEF parsed, sized
    <3>6. ObjectsInv'
      BY <3>1, <3>2, <3>5 DEF ObjectsInv
    <3>7. \A q \in Objects :
            message'[q] = IF q = o THEN parsed
                          ELSE IF q = p THEN sized ELSE message[q]
      BY <3>1 DEF ObjectsInv
    <3>8. \A q \in Objects :
            RecordsOf(message'[q]) = IF q = o THEN records[p] ELSE records[q]
      BY <3>2, <3>5, <3>7, RecordsAreLists
    <3>9. records' = [records EXCEPT ![o] = records[p]]
      BY <3>8, RecordsAreLists
    <3> QED
      BY <2>6, <3>6, <3>9 DEF Transfer, Records!Become, Records!Quiet
  <2> QED
    BY <2>2, <2>3, <2>4, <2>5, <2>6
<1>5. ListCall(o) => ObjectsInv'
  BY <1>2, <1>3, <1>4 DEF ListCall
<1>6. EachListCall(o)
  BY <1>2, <1>3, <1>4 DEF EachListCall
<1> QED
  BY <1>5, <1>6

\* The calls on one user.
LEMMA UserCallKeeps ==
  ASSUME ObjectsInv, NEW o \in Objects, NEW i \in Slots(o)
  PROVE  /\ UserCall(o, i) => ObjectsInv'
         /\ EachUserCall(o, i)
<1>1. ClearUser(o, i) => ObjectsInv' /\ Records!Forget(o, i)
  BY ClearUserKeeps
<1>2. ASSUME NEW f \in Fields
      PROVE  /\ FieldCall(o, i, f) => ObjectsInv'
             /\ EachFieldCall(o, i, f)
  BY FieldCallKeeps
<1>3. ASSUME NEW p \in Objects \ {o}, NEW j \in Slots(p)
      PROVE  /\ MergeUser(o, i, p, j) =>
                  ObjectsInv' /\ Records!Merge(o, i, p, j)
             /\ CopyUser(o, i, p, j) =>
                  ObjectsInv' /\ Records!Assign(o, i, p, j)
             /\ SwapUsers(o, i, p, j) =>
                  ObjectsInv' /\ Records!Exchange(o, i, p, j)
  BY WholeUserKeeps
<1>4. UserCall(o, i) => ObjectsInv'
  BY <1>1, <1>2, <1>3 DEF UserCall, MoveUser
<1>5. EachUserCall(o, i)
  BY <1>1, <1>2, <1>3 DEF EachUserCall
<1> QED
  BY <1>4, <1>5

\* No step takes the objects out of the invariant.
LEMMA ObjectsStep == ObjectsInv /\ [Next]_vars => ObjectsInv'
<1> SUFFICES ASSUME ObjectsInv, [Next]_vars
             PROVE  ObjectsInv'
  OBVIOUS
<1>1. CASE UNCHANGED vars
  BY <1>1 DEF vars, ObjectsInv
<1>2. CASE \E o \in Objects : ListCall(o) \/ \E i \in Slots(o) : UserCall(o, i)
  BY <1>2, ListCallKeeps, UserCallKeeps
<1> QED
  BY <1>1, <1>2 DEF Next

\* Each call is that of RecordLists.
LEMMA EachCallKeeps == ObjectsInv => EachCall
BY ListCallKeeps, UserCallKeeps DEF EachCall

\* And so each step is one of RecordLists, or none.
LEMMA RecordsStep ==
  ASSUME ObjectsInv, EachCall, [Next]_vars
  PROVE  [Records!Next]_Records!vars
<1>1. CASE UNCHANGED vars
  BY <1>1, RecordsAreLists DEF vars, Records!vars
<1>2. ASSUME NEW o \in Objects, ListCall(o)
      PROVE  Records!Next
  <2>1. EachListCall(o)
    BY DEF EachCall
  <2> QED
    BY <1>2, <2>1 DEF ListCall, EachListCall, Records!Next
<1>3. ASSUME NEW o \in Objects, NEW i \in Slots(o), UserCall(o, i)
      PROVE  [Records!Next]_Records!vars
  <2>1. i \in DOMAIN records[o] /\ EachUserCall(o, i)
    BY ObjectParts DEF EachCall
  <2>2. CASE ClearUser(o, i)
    BY <2>1, <2>2 DEF EachUserCall, Records!Next
  <2>3. ASSUME NEW f \in Fields, FieldCall(o, i, f)
        PROVE  [Records!Next]_Records!vars
    <3> DEFINE values == [g \in Fields |-> Values(g)]
    <3>1. f \in DOMAIN values /\ values[f] = Values(f)
      OBVIOUS
    <3>2. EachFieldCall(o, i, f)
      BY <2>1 DEF EachUserCall
    <3>3. CASE \E v \in Values(f) :
                 SetField(o, i, f, v) \/ SetAllocatedField(o, i, f, v)
      BY <2>1, <3>1, <3>2, <3>3 DEF EachFieldCall, Records!Next
    <3>4. CASE MutableField(o, i, f)
      BY <2>1, <3>1, <3>2, <3>4
         DEF EachFieldCall, Records!Next, Records!Touched
    <3>5. CASE \/ GetField(o, i, f) \/ ClearUserField(o, i, f)
               \/ ReleaseField(o, i, f) \/ SetAllocatedFieldNull(o, i, f)
      BY <2>1, <3>1, <3>2, <3>5 DEF EachFieldCall, Records!Next
    <3> QED
      BY <2>3, <3>3, <3>4, <3>5 DEF FieldCall
  <2>4. ASSUME NEW p \in Objects \ {o}, NEW j \in Slots(p),
               \/ MergeUser(o, i, p, j) \/ CopyUser(o, i, p, j)
               \/ SwapUsers(o, i, p, j)
        PROVE  Records!Next
    <3>1. j \in DOMAIN records[p]
      BY ObjectParts
    <3>2. \/ Records!Merge(o, i, p, j)
          \/ Records!Assign(o, i, p, j)
          \/ Records!Exchange(o, i, p, j)
      BY <2>1, <2>4 DEF EachUserCall
    <3> QED
      BY <2>1, <3>1, <3>2 DEF Records!Next
  <2> QED
    BY <1>3, <2>2, <2>3, <2>4 DEF UserCall, MoveUser
<1> QED
  BY <1>1, <1>2, <1>3 DEF Next

\* Every object is a sound list, whatever the program calls.
THEOREM ObjectsAreSound == Spec => []ObjectsInv
<1>1. Init => ObjectsInv
  BY NoUsersIsEmpty DEF Init, ObjectsInv
<1>2. ObjectsInv /\ [Next]_vars => ObjectsInv'
  BY ObjectsStep
<1> QED
  BY <1>1, <1>2, PTL DEF Spec

\* A field that is not set holds its default, also in the users that wait to
\* be handed out, which have no field.
THEOREM UnsetFieldsAreDefault == Spec => []UnsetIsDefault
<1>1. ObjectsInv => UnsetIsDefault
  <2> SUFFICES ASSUME ObjectsInv, NEW o \in Objects,
                      NEW i \in DOMAIN message[o].elements
               PROVE  /\ \A f \in Fields \ user(o, i).has :
                           user(o, i).val[f] = Default(f)
                      /\ i > message[o].size => user(o, i).has = {}
    BY DEF UnsetIsDefault
  <2>1. message[o] \in SoundLists
    BY DEF ObjectsInv
  <2>2. /\ message[o].elements[i] \in SoundUsers
        /\ i > message[o].size => message[o].elements[i].has = {}
    BY <2>1, ListParts
  <2> QED
    BY <2>2, SoundParts DEF user
<1> QED
  BY <1>1, ObjectsAreSound, PTL

\* The length that is written before a user is the number of its bytes.
THEOREM LengthsAlwaysAgree == Spec => []LengthsAgree
<1>1. ObjectsInv => LengthsAgree
  <2> SUFFICES ASSUME ObjectsInv, NEW o \in Objects
               PROVE  WellFormed(ListSerialize(ListByteSizeLong(message[o])))
    BY DEF LengthsAgree
  <2>1. message[o] \in SoundLists
    BY DEF ObjectsInv
  <2>2. /\ ListSerialize(ListByteSizeLong(message[o])) =
             Encoded(RecordsOf(message[o]))
        /\ RecordsOf(message[o]) \in Seq(Bodies)
    BY <2>1, ListSizes, RecordsType
  <2> QED
    BY <2>2, EncodedIsWellFormed
<1> QED
  BY <1>1, ObjectsAreSound, PTL

\* The generated classes are lists of partial functions, and each of their
\* calls is that of its name: bits, stale values, kept users and sizes cannot
\* be told from outside, and writing a list and reading it back is a copy.
THEOREM ClassesAreRecords == Spec => ImplementsRecords /\ Records!Spec
<1>1. Init => Records!Init
  <2> SUFFICES ASSUME Init PROVE Records!Init
    OBVIOUS
  <2>1. \A o \in Objects : RecordsOf(message[o]) = << >>
    BY NoUsersIsEmpty DEF Init
  <2> QED
    BY <2>1, RecordsAreLists DEF Init, Records!Init
<1>2. ObjectsInv /\ [Next]_vars => EachCall
  BY EachCallKeeps
<1>3. ObjectsInv /\ [Next]_vars => [Records!Next]_Records!vars
  BY <1>2, RecordsStep
<1> QED
  BY <1>1, <1>2, <1>3, ObjectsAreSound, PTL
     DEF Spec, ImplementsRecords, Records!Spec

-----------------------------------------------------------------------------
(* RestWire: the list of users.                                            *)

PossibleLines == {Line(n, r) : n \in Names, r \in Rows}

\* What is known of the users is a row for each of some names.
KnownInv ==
  /\ DOMAIN users_known \subseteq Names
  /\ \A n \in DOMAIN users_known : users_known[n] \in Rows

\* The names are texts.
LEMMA NamesAreTexts ==
  /\ Len(Order) \in Nat
  /\ DOMAIN Order = 1 .. Len(Order)
  /\ \A i \in 1 .. Len(Order) : Order[i] \in Names /\ Order[i] \in Text
  /\ Names \subseteq Text
<1> DEFINE S == Text \ {""}
<1>1. Order \in Seq(S) /\ S \subseteq Text
  BY RestWireAssumption
<1> HIDE DEF S
<1>2. Len(Order) \in Nat /\ DOMAIN Order = 1 .. Len(Order)
  BY <1>1
<1>3. \A i \in 1 .. Len(Order) : Order[i] \in Text
  BY <1>1, ElementOfSeq
<1> QED
  BY <1>2, <1>3 DEF Names

\* Lines have four parts, with values of the four fields.
LEMMA LineParts ==
  ASSUME NEW l \in PossibleLines
  PROVE  /\ l = <<l[1], l[2], l[3], l[4]>>
         /\ l[1] \in Values("username") /\ l[2] \in Values("ip")
         /\ l[3] \in Values("port") /\ l[4] \in Values("joined_timestamp")
         /\ Fields = {"username", "ip", "joined_timestamp", "port"}
<1>1. PICK n \in Names, r \in Rows :
        l = <<n, r.ip, r.port, r.joined_timestamp>>
  BY DEF PossibleLines, Line
<1>2. n \in Text
  BY NamesAreTexts
<1>3. Strings = {"username", "ip"}
  BY RestWireAssumption DEF Strings
<1> QED
  BY <1>1, <1>2, <1>3, RestWireAssumption DEF Values

\* The loop over the users lists exactly those that are known, each with its
\* row.
LEMMA ListingLists ==
  ASSUME KnownInv
  PROVE  /\ Listing \in Seq(PossibleLines)
         /\ {Listing[i] : i \in 1 .. Len(Listing)} =
              {Line(n, users_known[n]) : n \in DOMAIN users_known}
<1> DEFINE n == Len(Order)
           turn(l, i) ==
             IF Order[i] \in DOMAIN users_known
               THEN Append(l, Line(Order[i], users_known[Order[i]]))
               ELSE l
           upto[i \in 0 .. Len(Order)] ==
             IF i = 0 THEN << >>
             ELSE IF Order[i] \in DOMAIN users_known
             THEN Append(upto[i - 1], Line(Order[i], users_known[Order[i]]))
             ELSE upto[i - 1]
           S == Seq(PossibleLines)
<1>1. Listing = upto[n]
  BY DEF Listing
<1>2. n \in Nat /\ \A i \in 1 .. n : Order[i] \in Names
  BY NamesAreTexts
<1>3. \A i \in 1 .. n : Order[i] \in DOMAIN users_known =>
        Line(Order[i], users_known[Order[i]]) \in PossibleLines
  BY <1>2 DEF KnownInv, PossibleLines
<1>4. << >> \in S /\ \A i \in 1 .. n : \A l \in S : turn(l, i) \in S
  BY <1>3
<1> HIDE DEF S
<1>5. upto \in [0 .. n -> S]
      /\ upto = [i \in 0 .. n |-> IF i = 0 THEN << >>
                                           ELSE turn(upto[i - 1], i)]
  <2> DEFINE step == [i \in 1 .. n |-> [l \in S |-> turn(l, i)]]
             P(g) == g = [i \in 0 .. n |->
                            IF i = 0 THEN << >> ELSE turn(g[i - 1], i)]
  <2>1. upto = CHOOSE g : P(g)
    OBVIOUS
  <2>2. \A i \in 1 .. n : \A l \in S : step[i][l] = turn(l, i)
    OBVIOUS
  <2> HIDE DEF turn, step, n
  <2>3. StaysIn(step, n, S)
    BY <1>4, <2>2 DEF StaysIn
  <2>4. PICK g \in [0 .. n -> S] : Follows(g, << >>, step, n)
    BY <1>2, <1>4, <2>3, Recursion
  <2>5. P(g)
    <3>1. \A i \in 0 .. n : g[i] = IF i = 0 THEN << >> ELSE turn(g[i - 1], i)
      BY <1>2, <2>2, <2>4 DEF Follows
    <3> QED
      BY <2>4, <3>1
  <2>6. P(upto)
    BY <2>1, <2>5
  <2> HIDE DEF upto
  <2> DEFINE D == {i \in 0 .. n : upto[i] \in S}
  <2>7. 0 \in D
    BY <1>2, <1>4, <2>6
  <2>8. ASSUME NEW i \in 1 .. n, i - 1 \in D PROVE i \in D
    <3>1. upto[i - 1] \in S /\ i \in 0 .. n /\ i # 0
      BY <2>8, <1>2
    <3>2. upto[i] = turn(upto[i - 1], i)
      BY <2>6, <3>1
    <3> QED
      BY <1>4, <3>1, <3>2
  <2> HIDE DEF D
  <2>9. 0 .. n \subseteq D
    BY <1>2, <2>7, <2>8, SetInduction
  <2>10. \A i \in 0 .. n : upto[i] \in S
    BY <2>9 DEF D
  <2> QED
    BY <2>6, <2>10
<1> HIDE DEF upto
<1> DEFINE Shown(l) == {l[k] : k \in 1 .. Len(l)}
           Known(i) == {Line(Order[k], users_known[Order[k]]) :
                          k \in {j \in 1 .. i :
                                   Order[j] \in DOMAIN users_known}}
           E == {i \in 0 .. n : Shown(upto[i]) = Known(i)}
<1>6. 0 \in E
  BY <1>2, <1>5
<1>7. ASSUME NEW i \in 1 .. n, i - 1 \in E PROVE i \in E
  <2> DEFINE l == upto[i - 1]
             x == Line(Order[i], users_known[Order[i]])
  <2>1. i - 1 \in 0 .. n /\ i \in 0 .. n /\ i # 0
    BY <1>2
  <2>2. l \in S /\ Shown(l) = Known(i - 1) /\ upto[i] = turn(l, i)
    BY <1>5, <1>7, <2>1
  <2> HIDE DEF l
  <2>3. CASE Order[i] \in DOMAIN users_known
    <3>1. x \in PossibleLines
      BY <1>3, <2>3
    <3> HIDE DEF x
    <3>2. /\ Len(Append(l, x)) = Len(l) + 1 /\ Len(l) \in Nat
          /\ \A k \in 1 .. Len(l) : Append(l, x)[k] = l[k]
          /\ Append(l, x)[Len(l) + 1] = x
      BY <2>2, <3>1, AppendProperties DEF S
    <3>3. Shown(Append(l, x)) = Shown(l) \cup {x}
      BY <3>2
    <3>4. Known(i) = Known(i - 1) \cup {x}
      <4>1. \A k : k \in 1 .. i <=> k \in 1 .. i - 1 \/ k = i
        BY <1>2
      <4> QED
        BY <2>3, <4>1, Zenon DEF x
    <3>5. upto[i] = Append(l, x)
      BY <2>2, <2>3 DEF x
    <3> QED
      BY <2>1, <2>2, <3>3, <3>4, <3>5
  <2>4. CASE Order[i] \notin DOMAIN users_known
    <3>1. Known(i) = Known(i - 1)
      <4>1. \A k : k \in 1 .. i <=> k \in 1 .. i - 1 \/ k = i
        BY <1>2
      <4> QED
        BY <2>4, <4>1, Zenon
    <3> QED
      BY <2>1, <2>2, <2>4, <3>1
  <2> QED
    BY <2>3, <2>4
<1> HIDE DEF E
<1>8. 0 .. n \subseteq E
  BY <1>2, <1>6, <1>7, SetInduction
<1>9. n \in E /\ n \in 0 .. n
  BY <1>2, <1>8
<1>10. Shown(upto[n]) = Known(n)
  BY <1>9 DEF E
<1>11. Known(n) = {Line(m, users_known[m]) : m \in DOMAIN users_known}
  <2>1. \A m \in DOMAIN users_known : \E k \in 1 .. n : m = Order[k]
    BY NamesAreTexts DEF KnownInv, Names
  <2> QED
    BY <2>1
<1> QED
  BY <1>1, <1>5, <1>9, <1>10, <1>11 DEF S

\* The record that stands for a line, and those that stand for several.
RecordOf(l) ==
  [f \in Fields |-> IF f = "username" THEN l[1]
                    ELSE IF f = "ip" THEN l[2]
                    ELSE IF f = "port" THEN l[3] ELSE l[4]]

Answer(lines) == [i \in 1 .. Len(lines) |-> RecordOf(lines[i])]

\* One turn of the loop of Handler_GetUsers adds the record of the line.
LEMMA AddLineAdds ==
  ASSUME NEW m \in SoundLists, NEW l \in PossibleLines
  PROVE  LET t == AddLine(m, l)
         IN  /\ t \in SoundLists
             /\ t.size = m.size + 1
             /\ \A i \in 1 .. m.size : t.elements[i] = m.elements[i]
             /\ Serialize(t.elements[t.size]) = RecordOf(l)
<1> DEFINE a == add_users(m)
           u0 == a.elements[a.size]
           u1 == Set(u0, "username", l[1])
           u2 == Set(u1, "ip", l[2])
           u3 == Set(u2, "port", l[3])
           u4 == Set(u3, "joined_timestamp", l[4])
           t == [a EXCEPT !.elements[a.size] = u4]
<1>1. AddLine(m, l) = t
  BY DEF AddLine
<1>2. /\ a \in SoundLists /\ a.size = m.size + 1
      /\ u0 \in SoundUsers /\ Serialize(u0) = Records!Empty
      /\ \A i \in 1 .. m.size : a.elements[i] = m.elements[i]
  BY AddAdds, NoFields
<1> HIDE DEF a, u0
<1>3. /\ u1 \in SoundUsers
      /\ Serialize(u1) = Records!With(Records!Empty, "username", l[1])
  BY <1>2, LineParts, SetSets
<1> HIDE DEF u1
<1>4. /\ u2 \in SoundUsers
      /\ Serialize(u2) = Records!With(Serialize(u1), "ip", l[2])
  BY <1>3, LineParts, SetSets
<1> HIDE DEF u2
<1>5. /\ u3 \in SoundUsers
      /\ Serialize(u3) = Records!With(Serialize(u2), "port", l[3])
  BY <1>4, LineParts, SetSets
<1> HIDE DEF u3
<1>6. /\ u4 \in SoundUsers
      /\ Serialize(u4) = Records!With(Serialize(u3), "joined_timestamp", l[4])
  BY <1>5, LineParts, SetSets
<1> HIDE DEF u4
<1>7. Serialize(u4) = RecordOf(l)
  <2>1. DOMAIN Serialize(u4) = Fields
    BY <1>3, <1>4, <1>5, <1>6, LineParts DEF Records!With, Records!Empty
  <2>2. /\ Serialize(u4)["username"] = l[1] /\ Serialize(u4)["ip"] = l[2]
        /\ Serialize(u4)["port"] = l[3]
        /\ Serialize(u4)["joined_timestamp"] = l[4]
    BY <1>3, <1>4, <1>5, <1>6, LineParts DEF Records!With, Records!Empty
  <2>3. Serialize(u4) = [f \in Fields |-> Serialize(u4)[f]]
    BY <2>1 DEF Serialize
  <2>4. \A f \in Fields :
          Serialize(u4)[f] = IF f = "username" THEN l[1]
                             ELSE IF f = "ip" THEN l[2]
                             ELSE IF f = "port" THEN l[3] ELSE l[4]
    BY <2>2, LineParts
  <2> QED
    BY <2>3, <2>4 DEF RecordOf
<1> DEFINE n == a.size
<1>8. m.size \in Nat /\ n \in 1 .. a.size
      /\ \A i \in 1 .. a.size : i \in 1 .. Len(a.elements)
  BY <1>2, ListParts
<1> HIDE DEF n
<1>9. LET s == [a EXCEPT !.elements[n] = u4]
      IN  /\ s \in SoundLists
          /\ s.size = a.size
          /\ RecordsOf(s) = [RecordsOf(a) EXCEPT ![n] = Serialize(u4)]
          /\ \A j \in 1 .. Len(a.elements) :
                s.elements[j] = IF j = n THEN u4 ELSE a.elements[j]
  BY <1>2, <1>6, <1>8, PutPuts
<1>10. /\ t \in SoundLists /\ t.size = a.size
       /\ \A j \in 1 .. Len(a.elements) :
            t.elements[j] = IF j = a.size THEN u4 ELSE a.elements[j]
  BY <1>9 DEF n
<1> HIDE DEF t
<1>11. /\ a.size \in 1 .. Len(a.elements)
       /\ \A i \in 1 .. m.size : i \in 1 .. Len(a.elements) /\ i # a.size
  BY <1>2, <1>8 DEF n
<1> QED
  BY <1>1, <1>2, <1>7, <1>10, <1>11

\* The message that Handler_GetUsers makes has the records of the lines.
LEMMA MessageOfLines ==
  ASSUME NEW lines \in Seq(PossibleLines)
  PROVE  LET msg[i \in 0 .. Len(lines)] ==
               IF i = 0 THEN NoUsers ELSE AddLine(msg[i - 1], lines[i])
         IN  /\ msg[Len(lines)] \in SoundLists
             /\ RecordsOf(msg[Len(lines)]) = Answer(lines)
<1> DEFINE n == Len(lines)
           msg[i \in 0 .. Len(lines)] ==
             IF i = 0 THEN NoUsers ELSE AddLine(msg[i - 1], lines[i])
<1>1. n \in Nat /\ \A i \in 1 .. n : lines[i] \in PossibleLines
  OBVIOUS
<1>2. msg = [i \in 0 .. n |->
               IF i = 0 THEN NoUsers ELSE AddLine(msg[i - 1], lines[i])]
  <2> DEFINE step == [i \in 1 .. n |->
                        [l \in SoundLists |-> AddLine(l, lines[i])]]
             P(g) == g = [i \in 0 .. n |->
                            IF i = 0 THEN NoUsers
                                     ELSE AddLine(g[i - 1], lines[i])]
  <2>1. msg = CHOOSE g : P(g)
    OBVIOUS
  <2>2. \A i \in 1 .. n : \A l \in SoundLists :
          step[i][l] = AddLine(l, lines[i])
    OBVIOUS
  <2>3. \A i \in 1 .. n : \A l \in SoundLists :
          AddLine(l, lines[i]) \in SoundLists
    BY <1>1, AddLineAdds
  <2> HIDE DEF step, n
  <2>4. StaysIn(step, n, SoundLists)
    BY <2>2, <2>3 DEF StaysIn
  <2>5. PICK g \in [0 .. n -> SoundLists] : Follows(g, NoUsers, step, n)
    BY <1>1, <2>4, NoUsersIsEmpty, Recursion
  <2>6. P(g)
    <3>1. \A i \in 0 .. n :
            g[i] = IF i = 0 THEN NoUsers ELSE AddLine(g[i - 1], lines[i])
      BY <1>1, <2>2, <2>5 DEF Follows
    <3> QED
      BY <2>5, <3>1
  <2>7. P(msg)
    BY <2>1, <2>6
  <2> QED
    BY <2>7
<1> HIDE DEF msg
<1> DEFINE D == {i \in 0 .. n :
                   /\ msg[i] \in SoundLists /\ msg[i].size = i
                   /\ \A j \in 1 .. i :
                        Serialize(msg[i].elements[j]) = RecordOf(lines[j])}
<1>3. 0 \in D
  BY <1>1, <1>2, NoUsersIsEmpty
<1>4. ASSUME NEW i \in 1 .. n, i - 1 \in D PROVE i \in D
  <2> DEFINE m == msg[i - 1]
             t == msg[i]
  <2>1. /\ m \in SoundLists /\ m.size = i - 1
        /\ \A j \in 1 .. i - 1 :
             Serialize(m.elements[j]) = RecordOf(lines[j])
        /\ i \in 0 .. n /\ i # 0 /\ t = AddLine(m, lines[i])
    BY <1>1, <1>2, <1>4
  <2> HIDE DEF m, t
  <2>2. /\ t \in SoundLists
        /\ t.size = m.size + 1
        /\ \A j \in 1 .. m.size : t.elements[j] = m.elements[j]
        /\ Serialize(t.elements[t.size]) = RecordOf(lines[i])
    BY <1>1, <2>1, AddLineAdds
  <2>3. t.size = i
    BY <2>1, <2>2
  <2>4. \A j \in 1 .. i : j \in 1 .. i - 1 \/ j = i
    BY <2>1
  <2>5. \A j \in 1 .. i : Serialize(t.elements[j]) = RecordOf(lines[j])
    BY <2>1, <2>2, <2>3, <2>4
  <2> QED
    BY <2>1, <2>2, <2>3, <2>5 DEF t
<1> HIDE DEF D
<1>5. 0 .. n \subseteq D
  BY <1>1, <1>3, <1>4, SetInduction
<1>6. n \in D
  BY <1>1, <1>5
<1>7. /\ msg[n] \in SoundLists /\ msg[n].size = n
      /\ \A j \in 1 .. n :
           Serialize(msg[n].elements[j]) = RecordOf(lines[j])
  BY <1>6 DEF D
<1>8. RecordsOf(msg[n]) = Answer(lines)
  BY <1>7 DEF RecordsOf, Answer
<1> QED
  BY <1>7, <1>8 DEF msg

\* PrintUsers prints the lines whose records it gets.
LEMMA PrintsLines ==
  ASSUME NEW lines \in Seq(PossibleLines), NEW m \in SoundLists,
         RecordsOf(m) = Answer(lines)
  PROVE  LET line(u) == <<u.val["username"], u.val["ip"], u.val["port"],
                          u.val["joined_timestamp"]>>
         IN  [i \in DOMAIN users(m) |-> line(CopyOf(users(m)[i]))] = lines
<1> DEFINE line(u) == <<u.val["username"], u.val["ip"], u.val["port"],
                        u.val["joined_timestamp"]>>
           shown == [i \in DOMAIN users(m) |-> line(CopyOf(users(m)[i]))]
<1>1. m.size = Len(lines)
  <2>1. Len(lines) \in Nat /\ Len(Answer(lines)) = Len(lines)
    BY DEF Answer
  <2> QED
    BY <2>1, RecordsType
<1>2. /\ DOMAIN users(m) = 1 .. m.size
      /\ \A i \in 1 .. m.size : users(m)[i] = m.elements[i]
  BY ListParts DEF users
<1>3. \A i \in 1 .. m.size : line(CopyOf(users(m)[i])) = lines[i]
  <2> SUFFICES ASSUME NEW i \in 1 .. m.size
               PROVE  line(CopyOf(users(m)[i])) = lines[i]
    OBVIOUS
  <2> DEFINE u == m.elements[i]
             l == lines[i]
  <2>1. u \in SoundUsers /\ l \in PossibleLines
    BY <1>1, ListParts
  <2>2. Serialize(u) = RecordOf(l)
    BY <1>1, RecordsType DEF Answer
  <2> HIDE DEF u, l
  <2>3. \A f \in Fields : CopyOf(u).val[f] = u.val[f]
    BY <2>1, CopyOfCopies
  <2>4. u.has = Fields /\ \A f \in Fields : u.val[f] = RecordOf(l)[f]
    BY <2>2 DEF Serialize, RecordOf
  <2>5. line(CopyOf(u)) = <<l[1], l[2], l[3], l[4]>>
    BY <2>1, <2>3, <2>4, LineParts DEF RecordOf
  <2> QED
    BY <1>2, <2>1, <2>5, LineParts DEF u, l
<1> HIDE DEF line
<1>4. shown = [i \in 1 .. Len(lines) |-> lines[i]]
  BY <1>1, <1>2, <1>3
<1>5. lines = [i \in 1 .. Len(lines) |-> lines[i]]
  OBVIOUS
<1> QED
  BY <1>4, <1>5 DEF line

\* The inductive invariant of the list: the answer that is on its way is the
\* records of the lines it was made from.
ListInv ==
  /\ KnownInv
  /\ listed \in Seq(PossibleLines)
  /\ console = "answered" => http = Encoded(Answer(listed))
  /\ ScreenShowsTheList

\* The records of lines are those of sound users.
LEMMA AnswerType ==
  ASSUME NEW lines \in Seq(PossibleLines)
  PROVE  Answer(lines) \in Seq(Bodies)
<1>1. PICK m \in SoundLists : RecordsOf(m) = Answer(lines)
  BY MessageOfLines
<1> QED
  BY <1>1, RecordsType

\* Every step of the two ends keeps it.
LEMMA ListStep ==
  ASSUME ListInv, [WireNext]_wireVars
  PROVE  ListInv'
<1>1. CASE UNCHANGED wireVars
  BY <1>1 DEF ListInv, KnownInv, ScreenShowsTheList, wireVars
<1>2. CASE Change
  <2>1. KnownInv'
    <3>1. PICK n \in Names :
            \/ \E r \in Rows :
                 users_known' = [m \in DOMAIN users_known \cup {n} |->
                                   IF m = n THEN r ELSE users_known[m]]
            \/ users_known' = [m \in DOMAIN users_known \ {n} |->
                                 users_known[m]]
      BY <1>2 DEF Change
    <3> QED
      BY <3>1 DEF ListInv, KnownInv
  <2> QED
    BY <1>2, <2>1 DEF Change, ListInv, ScreenShowsTheList
<1>3. CASE Handler_GetUsers
  <2> DEFINE msg[i \in 0 .. Len(Listing)] ==
               IF i = 0 THEN NoUsers ELSE AddLine(msg[i - 1], Listing[i])
             m == msg[Len(Listing)]
  <2>1. /\ http' = ListSerialize(ListByteSizeLong(m))
        /\ listed' = Listing /\ console' = "answered"
        /\ UNCHANGED <<users_known, printed, asked, typed>>
    BY <1>3 DEF Handler_GetUsers
  <2>2. Listing \in Seq(PossibleLines)
    BY ListingLists DEF ListInv
  <2>3. m \in SoundLists /\ RecordsOf(m) = Answer(Listing)
    BY <2>2, MessageOfLines
  <2> HIDE DEF m
  <2>4. http' = Encoded(Answer(listed'))
    BY <2>1, <2>3, ListSizes
  <2> QED
    BY <2>1, <2>2, <2>4 DEF ListInv, KnownInv, ScreenShowsTheList
<1>4. CASE PrintUsers
  <2> DEFINE conn_users == ListParse(ListClear(NoUsers), http)
             line(u) == <<u.val["username"], u.val["ip"], u.val["port"],
                          u.val["joined_timestamp"]>>
  <2>1. /\ console = "answered"
        /\ printed' = [i \in DOMAIN users(conn_users) |->
                         line(CopyOf(users(conn_users)[i]))]
        /\ console' = IF conn_users.size > 0 THEN "prompt" ELSE "listing"
        /\ UNCHANGED <<users_known, http, asked, listed, typed>>
    BY <1>4 DEF PrintUsers
  <2>2. /\ http = Encoded(Answer(listed)) /\ Answer(listed) \in Seq(Bodies)
        /\ listed \in Seq(PossibleLines)
    BY <2>1, AnswerType DEF ListInv
  <2>3. /\ ListClear(NoUsers) \in SoundLists
        /\ RecordsOf(ListClear(NoUsers)) = << >>
    BY NoUsersIsEmpty, ClearErases
  <2>4. /\ conn_users \in SoundLists
        /\ RecordsOf(conn_users) = << >> \o Answer(listed)
    BY <2>2, <2>3, ListParseAppends
  <2>5. RecordsOf(conn_users) = Answer(listed)
    BY <2>2, <2>4, ConcatEmptySeq
  <2> HIDE DEF conn_users
  <2>6. printed' = listed
    BY <2>1, <2>2, <2>4, <2>5, PrintsLines
  <2> QED
    BY <2>1, <2>6 DEF ListInv, KnownInv, ScreenShowsTheList
<1>5. CASE KickUser
  <2>1. console' # "answered" /\ console' # "prompt"
    BY <1>5 DEF KickUser
  <2> QED
    BY <1>5, <2>1 DEF KickUser, ListInv, KnownInv, ScreenShowsTheList
<1>6. CASE Handler_KickUser
  BY <1>6 DEF Handler_KickUser, ListInv, KnownInv, ScreenShowsTheList
<1>7. CASE KickUserFails
  BY <1>7 DEF KickUserFails, ListInv, KnownInv, ScreenShowsTheList
<1>8. CASE PrintUsersFails
  BY <1>8 DEF PrintUsersFails, ListInv, KnownInv, ScreenShowsTheList
<1> QED
  BY <1>1, <1>2, <1>3, <1>4, <1>5, <1>6, <1>7, <1>8 DEF WireNext

\* No step of the two ends takes them out of the invariant.
LEMMA ListAlways == WireSpec => []ListInv
<1>1. WireInit => ListInv
  <2> SUFFICES ASSUME WireInit PROVE ListInv
    OBVIOUS
  <2>1. DOMAIN users_known = {} /\ console = "listing" /\ listed = << >>
    BY DEF WireInit
  <2>2. KnownInv
    BY <2>1 DEF KnownInv
  <2>3. << >> \in Seq(PossibleLines)
    OBVIOUS
  <2> QED
    BY <2>1, <2>2, <2>3 DEF ListInv, ScreenShowsTheList
<1>2. ListInv /\ [WireNext]_wireVars => ListInv'
  BY ListStep
<1> QED
  BY <1>1, <1>2, PTL DEF WireSpec

\* An answer is made from exactly the users that are known at the time, each
\* with its row: the loop of Handler_GetUsers leaves out nobody.
AnswerListsAll ==
  Handler_GetUsers =>
    {listed'[i] : i \in 1 .. Len(listed')} =
      {Line(n, users_known[n]) : n \in DOMAIN users_known}

\* So is every answer of a run.
THEOREM AnswersListAll == WireSpec => [][AnswerListsAll]_wireVars
<1>1. ListInv /\ [WireNext]_wireVars => [AnswerListsAll]_wireVars
  <2> SUFFICES ASSUME ListInv, Handler_GetUsers
               PROVE  {listed'[i] : i \in 1 .. Len(listed')} =
                        {Line(n, users_known[n]) : n \in DOMAIN users_known}
    BY DEF AnswerListsAll
  <2>1. listed' = Listing
    BY DEF Handler_GetUsers
  <2> QED
    BY <2>1, ListingLists DEF ListInv
<1> QED
  BY <1>1, ListAlways, PTL DEF WireSpec

\* The screen shows every user the answer was made from, in their order, with
\* its own address and time, for lists of any length.
THEOREM ScreenAlwaysShowsTheList == WireSpec => []ScreenShowsTheList
<1>1. ListInv => ScreenShowsTheList
  BY DEF ListInv
<1> QED
  BY <1>1, ListAlways, PTL

-----------------------------------------------------------------------------
(* RestWire: the name that is typed.                                       *)

\* There is a last character that is not a blank, or all are blanks.
LEMMA LastLetterIs ==
  ASSUME NEW s \in Seq(Letters \cup Blanks)
  PROVE  /\ LastLetter(s) \in 0 .. Len(s)
         /\ \A j \in LastLetter(s) + 1 .. Len(s) : s[j] \in Blanks
         /\ LastLetter(s) > 0 => s[LastLetter(s)] \notin Blanks
<1> DEFINE T == {i \in 0 .. Len(s) :
                   \A j \in i + 1 .. Len(s) : s[j] \in Blanks}
<1>1. Len(s) \in T /\ T \in SUBSET Nat
  OBVIOUS
<1>2. PICK x \in T : \A y \in T : x <= y
  BY <1>1, LeastNatural
<1>3. x > 0 => s[x] \notin Blanks
  <2> SUFFICES ASSUME x > 0, s[x] \in Blanks PROVE FALSE
    OBVIOUS
  <2>1. x - 1 \in T /\ x \in Nat
    OBVIOUS
  <2> HIDE DEF T
  <2>2. x <= x - 1
    BY <1>2, <2>1
  <2> QED
    BY <2>1, <2>2
<1>4. \E i \in 0 .. Len(s) :
        /\ \A j \in i + 1 .. Len(s) : s[j] \in Blanks
        /\ i > 0 => s[i] \notin Blanks
  BY <1>3
<1> QED
  BY <1>4 DEF LastLetter

\* There is a first one, or the end.
LEMMA FirstLetterIs ==
  ASSUME NEW s \in Seq(Letters \cup Blanks)
  PROVE  /\ FirstLetter(s) \in 1 .. Len(s) + 1
         /\ \A j \in 1 .. FirstLetter(s) - 1 : s[j] \in Blanks
         /\ FirstLetter(s) <= Len(s) => s[FirstLetter(s)] \notin Blanks
<1> DEFINE T == {i \in 1 .. Len(s) + 1 : i <= Len(s) => s[i] \notin Blanks}
<1>1. Len(s) + 1 \in T /\ T \in SUBSET Nat
  OBVIOUS
<1>2. PICK x \in T : \A y \in T : x <= y
  BY <1>1, LeastNatural
<1>3. \A j \in 1 .. x - 1 : s[j] \in Blanks
  BY <1>2
<1>4. \E i \in 1 .. Len(s) + 1 :
        /\ \A j \in 1 .. i - 1 : s[j] \in Blanks
        /\ i <= Len(s) => s[i] \notin Blanks
  BY <1>3
<1> QED
  BY <1>4 DEF FirstLetter

\* trim leaves what is between the first and the last letter, and nothing of
\* a line without letters.
LEMMA TrimTrims ==
  ASSUME NEW s \in Seq(Letters \cup Blanks)
  PROVE  /\ ~ HasLetter(s) => trim(s) = << >>
         /\ HasLetter(s) =>
              /\ trim(s) # << >>
              /\ \E i, j \in DOMAIN s :
                   /\ {s[i], s[j]} \subseteq Letters
                   /\ \A k \in DOMAIN s : s[k] \in Letters => k \in i .. j
                   /\ trim(s) = SubSeq(s, i, j)
<1> DEFINE j == LastLetter(s)
           t == SubSeq(s, 1, j)
           i == FirstLetter(t)
           C == Letters \cup Blanks
<1>1. /\ j \in 0 .. Len(s) /\ Len(s) \in Nat /\ DOMAIN s = 1 .. Len(s)
      /\ \A k \in j + 1 .. Len(s) : s[k] \in Blanks
      /\ j > 0 => s[j] \notin Blanks
  BY LastLetterIs
<1>2. \A k \in 1 .. Len(s) : s[k] \in Letters <=> s[k] \notin Blanks
  <2>1. \A k \in 1 .. Len(s) : s[k] \in C
    OBVIOUS
  <2> QED
    BY <2>1, TrimAssumption
<1> HIDE DEF j
<1>3. /\ t \in Seq(C) /\ Len(t) = j
      /\ \A k \in 1 .. j : t[k] = s[k]
  BY <1>1
<1> HIDE DEF t
<1>4. /\ i \in 1 .. j + 1
      /\ \A k \in 1 .. i - 1 : t[k] \in Blanks
      /\ i <= j => t[i] \notin Blanks
  BY <1>3, FirstLetterIs
<1> HIDE DEF i
<1>5. trim(s) = SubSeq(t, i, j)
  BY <1>3 DEF trim, rtrim, ltrim, j, t, i
<1>6. CASE ~ HasLetter(s)
  <2>1. j = 0
    BY <1>1, <1>2, <1>6 DEF HasLetter
  <2>2. i = 1
    BY <1>4, <2>1
  <2> QED
    BY <1>3, <1>5, <1>6, <2>1, <2>2
<1>7. CASE HasLetter(s)
  <2>1. PICK h \in 1 .. Len(s) : s[h] \in Letters
    BY <1>1, <1>7 DEF HasLetter
  <2>2. h \in 1 .. j
    BY <1>1, <1>2, <2>1
  <2>3. ~ (h \in 1 .. i - 1)
    BY <1>2, <1>3, <1>4, <2>1, <2>2
  <2>4. i \in 1 .. j /\ j \in 1 .. Len(s)
    BY <1>1, <1>4, <2>2, <2>3
  <2>5. s[i] \in Letters /\ s[j] \in Letters
    BY <1>1, <1>2, <1>3, <1>4, <2>4
  <2>6. \A k \in 1 .. Len(s) : s[k] \in Letters => k \in i .. j
    <3> SUFFICES ASSUME NEW k \in 1 .. Len(s), s[k] \in Letters
                 PROVE  k \in i .. j
      OBVIOUS
    <3>1. k \in 1 .. j
      BY <1>1, <1>2
    <3>2. ~ (k \in 1 .. i - 1)
      BY <1>2, <1>3, <1>4, <3>1
    <3> QED
      BY <1>4, <2>4, <3>1, <3>2
  <2>7. SubSeq(t, i, j) = SubSeq(s, i, j)
    <3>1. /\ SubSeq(t, i, j) = [k \in 1 .. j - i + 1 |-> t[i + k - 1]]
          /\ SubSeq(s, i, j) = [k \in 1 .. j - i + 1 |-> s[i + k - 1]]
      BY <1>1, <1>3, <2>4
    <3>2. \A k \in 1 .. j - i + 1 : t[i + k - 1] = s[i + k - 1]
      BY <1>3, <2>4
    <3> QED
      BY <3>1, <3>2
  <2>8. trim(s) # << >>
    <3>1. Len(SubSeq(t, i, j)) = j - i + 1
      BY <1>3, <2>4
    <3>2. j - i + 1 # 0 /\ Len(<< >>) = 0
      BY <1>1, <2>4
    <3> QED
      BY <1>5, <3>1, <3>2
  <2>9. i \in DOMAIN s /\ j \in DOMAIN s
    BY <1>1, <2>4
  <2>10. trim(s) = SubSeq(s, i, j)
    BY <1>5, <2>7
  <2>11. \A k \in DOMAIN s : s[k] \in Letters => k \in i .. j
    BY <1>1, <2>6
  <2>12. {s[i], s[j]} \subseteq Letters
    BY <2>5
  <2>13. \E a, b \in DOMAIN s :
           /\ {s[a], s[b]} \subseteq Letters
           /\ \A k \in DOMAIN s : s[k] \in Letters => k \in a .. b
           /\ trim(s) = SubSeq(s, a, b)
    BY <2>9, <2>10, <2>11, <2>12, Zenon
  <2> QED
    BY <1>7, <2>8, <2>13
<1> QED
  BY <1>6, <1>7

\* The body of a request for n is parsed as n.
LEMMA KickBodyIsParsed ==
  ASSUME NEW n
  PROVE  Kick_username(Kick_Parse(NewKick, KickBody(n))) = n
<1>1. KickBody(n) = {n}
  BY DEF KickBody, Kick_Serialize, Kick_set_username, NewKick
<1>2. (CHOOSE v \in {n} : TRUE) = n
  OBVIOUS
<1> QED
  BY <1>1, <1>2
     DEF Kick_username, Kick_Parse, Kick_set_username, NewKick

\* The inductive invariant of the name: it is what trim leaves of the line,
\* on its way and when it has arrived.
NameInv ==
  /\ typed \in Seq(Letters \cup Blanks)
  /\ console = "kicking" =>
       \E n \in Text : /\ http = KickBody(n)
                       /\ HasLetter(typed)
                       /\ Spelling[n] = trim(typed)
  /\ console # "kicking" /\ HasLetter(typed) =>
       Spelling[asked] = trim(typed)

\* Every step of the two ends keeps it.
LEMMA NameStep ==
  ASSUME NameInv, [WireNext]_wireVars
  PROVE  NameInv'
<1>1. CASE UNCHANGED wireVars
  BY <1>1 DEF NameInv, wireVars
<1>2. CASE Change
  BY <1>2 DEF Change, NameInv
<1>3. CASE Handler_GetUsers
  BY <1>3 DEF Handler_GetUsers, NameInv
<1>4. CASE PrintUsers
  <2>1. /\ console = "answered" /\ console' # "kicking"
        /\ UNCHANGED <<http, asked, typed>>
    BY <1>4 DEF PrintUsers
  <2> QED
    BY <2>1 DEF NameInv
<1>5. CASE KickUser
  <2>1. PICK s \in Lines, n \in Text :
          /\ Spelling[n] = trim(s)
          /\ typed' = IF HasLetter(s) THEN s ELSE typed
          /\ http' = IF n = "" THEN http ELSE KickBody(n)
          /\ console' = IF n = "" THEN "listing" ELSE "kicking"
    BY <1>5 DEF KickUser
  <2>2. console = "prompt" /\ asked' = asked
    BY <1>5 DEF KickUser
  <2>3. s \in Seq(Letters \cup Blanks)
    <3>1. PICK k \in 0 .. MaxLine : s \in [1 .. k -> Letters \cup Blanks]
      BY DEF Lines
    <3>2. MaxLine \in Nat
      BY ONLY RestWireAssumption, Zenon
    <3>3. k \in Nat
      BY <3>1, <3>2
    <3> QED
      BY <3>1, <3>3
  <2>4. n = "" <=> ~ HasLetter(s)
    <3>1. n = "" <=> Spelling[n] = << >>
      BY RestWireAssumption, MessagesAssumption
    <3> QED
      BY <2>1, <2>3, <3>1, TrimTrims
  <2>5. CASE HasLetter(s)
    <3>1. typed' = s /\ http' = KickBody(n) /\ console' = "kicking"
      BY <2>1, <2>4, <2>5
    <3> QED
      BY <2>1, <2>3, <2>5, <3>1 DEF NameInv
  <2>6. CASE ~ HasLetter(s)
    <3>1. typed' = typed /\ console' = "listing"
      BY <2>1, <2>4, <2>6
    <3> QED
      BY <2>2, <3>1 DEF NameInv
  <2> QED
    BY <2>5, <2>6
<1>6. CASE Handler_KickUser
  <2>1. /\ console = "kicking" /\ console' = "listing" /\ typed' = typed
        /\ asked' = Kick_username(Kick_Parse(NewKick, http))
    BY <1>6 DEF Handler_KickUser
  <2>2. PICK n \in Text : /\ http = KickBody(n)
                          /\ HasLetter(typed)
                          /\ Spelling[n] = trim(typed)
    BY <2>1 DEF NameInv
  <2>3. asked' = n
    BY <2>1, <2>2, KickBodyIsParsed
  <2> QED
    BY <2>1, <2>2, <2>3 DEF NameInv
<1>7. CASE KickUserFails
  <2>1. typed' = << >> /\ console' = "listing"
    BY <1>7 DEF KickUserFails
  <2>2. typed' \in Seq(Letters \cup Blanks) /\ Len(typed') = 0
    BY <2>1
  <2>3. ~ HasLetter(typed')
    BY <2>2 DEF HasLetter
  <2> QED
    BY <2>1, <2>2, <2>3 DEF NameInv, HasLetter
<1>8. CASE PrintUsersFails
  BY <1>8 DEF PrintUsersFails, NameInv
<1> QED
  BY <1>1, <1>2, <1>3, <1>4, <1>5, <1>6, <1>7, <1>8 DEF WireNext

\* The user that is asked to leave is the one whose name was typed last, if
\* that request arrived, for lines of any length and names with blanks in them.
THEOREM AskedIsAlwaysTyped == WireSpec => []AskedIsTyped
<1>1. WireInit => NameInv
  <2> SUFFICES ASSUME WireInit PROVE NameInv
    OBVIOUS
  <2>1. typed = << >> /\ console = "listing"
    BY DEF WireInit
  <2>2. << >> \in Seq(Letters \cup Blanks) /\ Len(<< >>) = 0
    OBVIOUS
  <2>3. ~ HasLetter(typed)
    BY <2>1, <2>2 DEF HasLetter
  <2> QED
    BY <2>1, <2>2, <2>3 DEF NameInv
<1>2. NameInv /\ [WireNext]_wireVars => NameInv'
  BY NameStep
<1>3. NameInv => AskedIsTyped
  <2> SUFFICES ASSUME NameInv, console # "kicking", HasLetter(typed)
               PROVE  AskedIsTyped
    BY DEF AskedIsTyped
  <2>1. Spelling[asked] = trim(typed) /\ typed \in Seq(Letters \cup Blanks)
    BY DEF NameInv
  <2> QED
    BY <2>1, TrimTrims DEF AskedIsTyped
<1> QED
  BY <1>1, <1>2, <1>3, PTL DEF WireSpec
=============================================================================
