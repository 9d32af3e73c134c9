-------------------------- MODULE MessagePagesProofs --------------------------
(***************************************************************************)
(* Proofs about the messages of a conversation, for any page size, any     *)
(* number of rows and any order in which inserts start and become visible. *)
(* MessagePages: no message is given twice, and none that was there at the *)
(* beginning is left out.  MessageHistory: the chat page that loads those  *)
(* pages shows them in order and whole, however loads, retries, questions  *)
(* and answers overtake each other.                                        *)
(***************************************************************************)
EXTENDS MessagePages, MessageHistory, FiniteSetTheorems, TLAPS

\* From the library's well-founded order of the natural numbers.
LEMMA LeastNatural ==
    ASSUME NEW S \in SUBSET Nat, S # {}
    PROVE  \E x \in S : \A y \in S : x <= y
<1> DEFINE R == {ss \in Nat \X Nat : ss[1] < ss[2]}
<1>1. IsWellFoundedOn(R, Nat)
  BY NatLessThanWellFounded DEF OpToRel
<1>2. PICK x \in S : \A y \in S : ~(<<y, x>> \in R)
  <2> HIDE DEF R
  <2> QED
    BY <1>1, WFMin
<1>3. \A y \in S : x <= y
  <2> SUFFICES ASSUME NEW y \in S, ~(x <= y) PROVE FALSE
    OBVIOUS
  <2>1. y < x /\ <<y, x>> \in Nat \X Nat
    OBVIOUS
  <2> QED
    BY <1>2, <2>1
<1> QED
  BY <1>3

\* A set of numbers up to N that is not empty has a greatest one.
LEMMA GreatestNumber ==
    ASSUME NEW N \in Nat, NEW S \in SUBSET (1..N), S # {}
    PROVE  \E x \in S : \A y \in S : y <= x
<1> DEFINE D == {d \in 0..N : N - d \in S}
<1>1. D \in SUBSET Nat
  OBVIOUS
<1>2. \A y \in S : y \in Int /\ N - y \in 0..N /\ N - (N - y) = y
  OBVIOUS
<1>3. \A y \in S : N - y \in D
  BY <1>2
<1>4. D # {}
  BY <1>3
<1>5. PICK d \in D : \A e \in D : d <= e
  <2> HIDE DEF D
  <2> QED
    BY <1>1, <1>4, LeastNatural
<1>6. N - d \in S /\ d \in Int
  OBVIOUS
<1>7. \A y \in S : y <= N - d
  <2> TAKE y \in S
  <2>1. d <= N - y
    BY <1>3, <1>5
  <2> QED
    BY <1>2, <1>6, <2>1
<1> QED
  BY <1>6, <1>7

\* And it is finite.
LEMMA FiniteNumbers ==
    ASSUME NEW N \in Nat, NEW S \in SUBSET (1..N)
    PROVE  IsFiniteSet(S) /\ Cardinality(S) \in Nat
<1>1. IsFiniteSet(1..N)
  BY FS_Interval
<1>2. IsFiniteSet(S)
  BY <1>1, FS_Subset
<1> QED
  BY <1>2, FS_CardinalityType

\* ORDER BY id DESC LIMIT n: what is not taken is older than what is.
LEMMA NewestIsTop ==
    ASSUME NEW N \in Nat, NEW S \in SUBSET (1..N), NEW n \in Nat, NEW k \in Newest(S, n),
           NEW i \in S \ Newest(S, n)
    PROVE  i < k
<1> DEFINE Greater(x) == {j \in S : j > x}
<1>1. SUFFICES ASSUME ~(i < k) PROVE FALSE
  OBVIOUS
<1>2. k \in S /\ Cardinality(Greater(k)) < n /\ ~(Cardinality(Greater(i)) < n)
  BY DEF Newest
<1>3. Greater(i) \subseteq Greater(k)
  <2>1. i \in Int /\ k \in Int /\ \A j \in S : j \in Int
    BY <1>2
  <2>2. ASSUME NEW j \in S, j > i PROVE j > k
    BY <1>1, <2>1, <2>2
  <2> QED
    BY <2>2
<1>4. IsFiniteSet(Greater(k)) /\ Cardinality(Greater(k)) \in Nat /\ Cardinality(Greater(i)) \in Nat
  <2>1. Greater(k) \in SUBSET (1..N) /\ Greater(i) \in SUBSET (1..N)
    OBVIOUS
  <2> QED
    BY <2>1, FiniteNumbers
<1>5. Cardinality(Greater(i)) <= Cardinality(Greater(k))
  BY <1>3, <1>4, FS_Subset
<1> QED
  BY <1>2, <1>4, <1>5

\* All are taken when fewer than n could be.
LEMMA NewestOfFew ==
    ASSUME NEW N \in Nat, NEW S \in SUBSET (1..N), NEW n \in Nat, Cardinality(Newest(S, n)) < n
    PROVE  Newest(S, n) = S
<1> DEFINE rest == S \ Newest(S, n)
<1>1. SUFFICES ASSUME rest # {} PROVE FALSE
  BY DEF Newest
<1>2. rest \in SUBSET (1..N)
  OBVIOUS
<1>3. PICK i \in rest : \A j \in rest : j <= i
  <2> HIDE DEF rest
  <2> QED
    BY <1>1, <1>2, GreatestNumber
<1> DEFINE above == {j \in S : j > i}
<1>4. ~(Cardinality(above) < n)
  BY DEF Newest
<1>5. above \subseteq Newest(S, n)
  <2>1. i \in Int /\ \A j \in S : j \in Int
    OBVIOUS
  <2>2. ASSUME NEW j \in S, j > i PROVE j \in Newest(S, n)
    <3>1. ~(j <= i)
      BY <2>1, <2>2
    <3> QED
      BY <1>3, <3>1
  <2> QED
    BY <2>2
<1>6. Newest(S, n) \in SUBSET (1..N) /\ above \in SUBSET (1..N)
  BY DEF Newest
<1>7. IsFiniteSet(Newest(S, n)) /\ Cardinality(Newest(S, n)) \in Nat /\ Cardinality(above) \in Nat
  BY <1>6, FiniteNumbers
<1>8. Cardinality(above) <= Cardinality(Newest(S, n))
  BY <1>5, <1>7, FS_Subset
<1> HIDE DEF above
<1> QED
  BY <1>4, <1>7, <1>8

\* Likewise when there are no more than n.
LEMMA NewestOfAtMost ==
    ASSUME NEW N \in Nat, NEW S \in SUBSET (1..N), NEW n \in Nat, Cardinality(S) <= n
    PROVE  Newest(S, n) = S
<1> SUFFICES ASSUME NEW i \in S PROVE Cardinality({j \in S : j > i}) < n
  BY DEF Newest
<1> DEFINE above == {j \in S : j > i}
<1>1. above \subseteq S /\ i \notin above
  OBVIOUS
<1>2. above # S
  BY <1>1
<1>3. IsFiniteSet(S) /\ Cardinality(S) \in Nat /\ Cardinality(above) \in Nat
  <2>1. above \in SUBSET (1..N)
    OBVIOUS
  <2> QED
    BY <2>1, FiniteNumbers
<1> HIDE DEF above
<1>4. Cardinality(above) <= Cardinality(S) /\ Cardinality(above) # Cardinality(S)
  BY <1>1, <1>2, <1>3, FS_Subset
<1>5. Cardinality(above) < n
  BY <1>3, <1>4
<1> QED
  BY <1>5 DEF above

\* And there is something to take, when there is something.
LEMMA NewestOfSome ==
    ASSUME NEW N \in Nat, NEW S \in SUBSET (1..N), NEW n \in Nat \ {0}, S # {}
    PROVE  Newest(S, n) # {}
<1>1. PICK x \in S : \A y \in S : y <= x
  BY GreatestNumber
<1>2. {j \in S : j > x} = {}
  <2> SUFFICES ASSUME NEW j \in S, j > x PROVE FALSE
    OBVIOUS
  <2>1. j <= x /\ j \in Int /\ x \in Int
    BY <1>1
  <2> QED
    BY <2>1
<1>3. Cardinality({j \in S : j > x}) = 0
  BY <1>2, FS_EmptySet
<1>4. x \in Newest(S, n)
  BY <1>3 DEF Newest
<1> QED
  BY <1>4

\* A page of n rows out of S, for which one more is fetched: the newest of S,
\* and all of it if there are not more than n.
LEMMA PageOfSet ==
    ASSUME NEW N \in Nat, NEW S \in SUBSET (1..N), NEW n \in Nat \ {0},
           NEW fetched, fetched = Newest(S, n + 1), NEW page, page = Newest(fetched, n)
    PROVE  /\ page \subseteq S /\ fetched \subseteq S
           /\ \A i \in S \ page, k \in page : i < k
           /\ Cardinality(fetched) > n =>
                /\ SmallestOf(page) \in page
                /\ \A k \in page : SmallestOf(page) <= k
           /\ ~(Cardinality(fetched) > n) => page = S
<1>1. n + 1 \in Nat /\ fetched \subseteq S /\ page \subseteq fetched
      /\ fetched \in SUBSET (1..N) /\ page \in SUBSET Nat
  <2>1. fetched \subseteq S
    BY DEF Newest
  <2>2. page \subseteq fetched
    BY DEF Newest
  <2>3. \A i \in S : i \in Nat
    OBVIOUS
  <2>4. fetched \in SUBSET (1..N) /\ page \in SUBSET Nat
    <3> HIDE DEF Newest
    <3>1. \A i \in page : i \in Nat
      BY <2>1, <2>2, <2>3
    <3> QED
      BY <2>1, <3>1
  <2> QED
    BY <2>1, <2>2, <2>4
<1>2. ASSUME NEW i \in S \ page, NEW k \in page PROVE i < k
  <2>1. CASE i \in fetched
    BY <1>1, <2>1, NewestIsTop
  <2>2. CASE i \notin fetched
    BY <1>1, <2>2, NewestIsTop
  <2> QED
    BY <2>1, <2>2
<1>3. Cardinality(fetched) \in Nat
  BY <1>1, FiniteNumbers
<1>4. ASSUME Cardinality(fetched) > n
      PROVE  SmallestOf(page) \in page /\ \A k \in page : SmallestOf(page) <= k
  <2>1. fetched # {}
    <3> SUFFICES ASSUME fetched = {} PROVE FALSE
      OBVIOUS
    <3>1. Cardinality(fetched) = 0
      BY FS_EmptySet
    <3> QED
      BY <1>4, <3>1
  <2>2. page # {}
    BY <1>1, <2>1, NewestOfSome
  <2>3. \E x \in page : \A y \in page : x <= y
    BY <1>1, <2>2, LeastNatural
  <2> QED
    BY <2>3 DEF SmallestOf
<1>5. ASSUME ~(Cardinality(fetched) > n) PROVE page = S
  <2>1. Cardinality(fetched) < n + 1 /\ Cardinality(fetched) <= n
    BY <1>3, <1>5
  <2>2. fetched = S
    BY <1>1, <2>1, NewestOfFew
  <2>3. page = fetched
    BY <1>1, <2>1, NewestOfAtMost
  <2> QED
    BY <2>2, <2>3
<1> QED
  BY <1>1, <1>2, <1>4, <1>5
-----------------------------------------------------------------------------
\* The page that follows cursor b: the newest of what is older than b, and all
\* of it if it says that there is no more.
LEMMA PageFacts ==
    ASSUME NEW b \in 0..MaxId
    PROVE  /\ PageOf(b) \subseteq Older(b)
           /\ \A i \in Older(b) \ PageOf(b), k \in PageOf(b) : i < k
           /\ Cardinality(Fetched(b)) > MessagePageSize =>
                /\ NextCursor(b) \in PageOf(b)
                /\ \A k \in PageOf(b) : NextCursor(b) <= k
           /\ ~(Cardinality(Fetched(b)) > MessagePageSize) => PageOf(b) = Older(b)
<1>1. MessagePageSize \in Nat \ {0} /\ MaxId \in Nat
  BY MessagePagesAssumption DEF MessagePagesAssumption
<1>2. Older(b) \in SUBSET (1..MaxId)
  BY DEF Older, Visible, MessageIds
<1>3. Fetched(b) = Newest(Older(b), MessagePageSize + 1) /\ PageOf(b) = Newest(Fetched(b), MessagePageSize)
      /\ NextCursor(b) = SmallestOf(PageOf(b))
  BY DEF Fetched, PageOf, NextCursor
<1>4. /\ PageOf(b) \subseteq Older(b) /\ Fetched(b) \subseteq Older(b)
      /\ \A i \in Older(b) \ PageOf(b), k \in PageOf(b) : i < k
      /\ Cardinality(Fetched(b)) > MessagePageSize =>
           /\ SmallestOf(PageOf(b)) \in PageOf(b)
           /\ \A k \in PageOf(b) : SmallestOf(PageOf(b)) <= k
      /\ ~(Cardinality(Fetched(b)) > MessagePageSize) => PageOf(b) = Older(b)
  <2> HIDE DEF MessageIds
  <2> QED
    BY <1>1, <1>2, <1>3, PageOfSet
<1> QED
  BY <1>3, <1>4

\* What has been given is not older than the cursor, and rows stay visible.
MessagePagesInv ==
    /\ MessagePagesTypeOK
    /\ GivenOnce
    /\ scrolling = "paging" => \A i \in MessageIds : givenTimes[i] # 0 => i >= before
    /\ NothingLeftOut
    /\ atOpening \subseteq Visible

\* One page more keeps it.
LEMMA ReceiveKeeps ==
    ASSUME MessagePagesInv, NEW b \in 0..MaxId, NEW seen \in [MessageIds -> 0..1],
           NEW Q \in SUBSET Visible,
           \A i \in MessageIds : seen[i] # 0 => i \notin Older(b) /\ b # 0 /\ i >= b,
           \A i \in Q : seen[i] = 1 \/ i \in Older(b),
           ReceiveMessages(b, seen), row' = row, atOpening' = Q
    PROVE  MessagePagesInv'
<1>1. PageOf(b) \subseteq Older(b) /\ Older(b) \subseteq Visible /\ Visible \subseteq MessageIds
  BY PageFacts DEF Older, Visible
<1>2. MaxId \in Nat /\ \A i \in MessageIds : i \in Int /\ i >= 1 /\ i <= MaxId
  BY MessagePagesAssumption DEF MessagePagesAssumption, MessageIds
<1>3. (atOpening \subseteq Visible)' /\ (row \in [MessageIds -> {"free", "inserting", "visible", "elsewhere"}])'
      /\ atOpening' \subseteq MessageIds
  BY <1>1 DEF MessagePagesInv, MessagePagesTypeOK, Visible
<1>4. CASE PageOf(b) # {} /\ ~MetadataIsText
  <2>1. scrolling' = "error" /\ before' = 0 /\ givenTimes' = givenTimes
    BY <1>4 DEF ReceiveMessages
  <2> QED
    BY <1>2, <1>3, <2>1
       DEF MessagePagesInv, MessagePagesTypeOK, GivenOnce, NothingLeftOut
<1>5. CASE ~(PageOf(b) # {} /\ ~MetadataIsText)
  <2>1. givenTimes' = [i \in MessageIds |-> IF i \in PageOf(b) THEN OnceMore(seen[i]) ELSE seen[i]]
    BY <1>5 DEF ReceiveMessages
  <2>2. \A i \in MessageIds : givenTimes'[i] = IF i \in PageOf(b) THEN 1 ELSE seen[i]
    BY <1>1, <2>1 DEF OnceMore
  <2>3. givenTimes' \in [MessageIds -> 0..2] /\ GivenOnce'
    BY <2>1, <2>2 DEF GivenOnce, OnceMore
  <2>4. CASE Cardinality(Fetched(b)) > MessagePageSize
    <3>1. scrolling' = "paging" /\ before' = NextCursor(b)
      BY <1>5, <2>4 DEF ReceiveMessages
    <3>2. /\ NextCursor(b) \in PageOf(b)
          /\ \A k \in PageOf(b) : NextCursor(b) <= k
          /\ \A i \in Older(b) \ PageOf(b) : i < NextCursor(b)
      BY <2>4, PageFacts
    <3>3. before' \in MessageIds /\ before' \in Older(b)
      BY <1>1, <3>1, <3>2
    <3>4. ASSUME NEW i \in MessageIds, givenTimes'[i] # 0 PROVE i >= before'
      <4>1. CASE i \in PageOf(b)
        BY <1>2, <3>1, <3>2, <3>3, <4>1
      <4>2. CASE i \notin PageOf(b)
        <5>1. b # 0 /\ i >= b
          BY <2>2, <3>4, <4>2
        <5>2. before' < b
          BY <3>3, <5>1 DEF Older
        <5> QED
          BY <1>2, <3>3, <5>1, <5>2
      <4> QED
        BY <4>1, <4>2
    <3>5. ASSUME NEW i \in Q PROVE givenTimes'[i] = 1 \/ i < before'
      <4>1. i \in MessageIds
        BY <1>1
      <4> QED
        BY <2>2, <3>1, <3>2, <4>1
    <3>6. MessagePagesTypeOK'
      BY <1>2, <1>3, <2>3, <3>1, <3>3 DEF MessagePagesTypeOK
    <3>7. NothingLeftOut'
      BY <3>1, <3>5 DEF NothingLeftOut
    <3> QED
      BY <1>3, <2>3, <3>1, <3>4, <3>6, <3>7 DEF MessagePagesInv
  <2>5. CASE ~(Cardinality(Fetched(b)) > MessagePageSize)
    <3>1. scrolling' = "done" /\ before' = 0
      BY <1>5, <2>5 DEF ReceiveMessages
    <3>2. PageOf(b) = Older(b)
      BY <2>5, PageFacts
    <3>3. ASSUME NEW i \in Q PROVE givenTimes'[i] = 1
      <4>1. i \in MessageIds
        BY <1>1
      <4> QED
        BY <2>2, <3>2, <4>1
    <3>4. MessagePagesTypeOK'
      BY <1>2, <1>3, <2>3, <3>1 DEF MessagePagesTypeOK
    <3>5. NothingLeftOut'
      BY <3>1, <3>3 DEF NothingLeftOut
    <3> QED
      BY <1>3, <2>3, <3>1, <3>4, <3>5 DEF MessagePagesInv
  <2> QED
    BY <2>4, <2>5
<1> QED
  BY <1>4, <1>5

\* Nothing has been given before the conversation is opened.
THEOREM MessagePagesInvInitially == MessagePagesInit => MessagePagesInv
<1> SUFFICES ASSUME MessagePagesInit PROVE MessagePagesInv
  OBVIOUS
<1>1. MessagePagesTypeOK
  BY MessagePagesAssumption DEF MessagePagesAssumption, MessagePagesInit, MessagePagesTypeOK
<1> QED
  BY <1>1 DEF MessagePagesInit, MessagePagesInv, GivenOnce, NothingLeftOut

\* Pages and inserts keep it.
THEOREM MessagePagesInvPreserved == MessagePagesInv /\ [MessagePagesNext]_messagePagesVars => MessagePagesInv'
<1> SUFFICES ASSUME MessagePagesInv, [MessagePagesNext]_messagePagesVars PROVE MessagePagesInv'
  OBVIOUS
<1>1. MaxId \in Nat
  BY MessagePagesAssumption DEF MessagePagesAssumption
<1>2. CASE NewestPage
  <2> DEFINE none == [i \in MessageIds |-> 0]
  <2>1. ReceiveMessages(0, none) /\ atOpening' = Visible /\ row' = row
    BY <1>2 DEF NewestPage
  <2>2. none \in [MessageIds -> 0..1] /\ \A i \in MessageIds : none[i] = 0
    OBVIOUS
  <2>3. \A i \in Visible : i \in Older(0)
    BY DEF Older
  <2>4. 0 \in 0..MaxId
    BY <1>1
  <2> HIDE DEF none
  <2> QED
    BY <2>1, <2>2, <2>3, <2>4, ReceiveKeeps
<1>3. CASE OlderPage
  <2>1. scrolling = "paging" /\ ReceiveMessages(before, givenTimes) /\ row' = row /\ atOpening' = atOpening
    BY <1>3 DEF OlderPage
  <2>2. before \in 0..MaxId /\ before # 0
    BY <2>1 DEF MessagePagesInv, MessagePagesTypeOK
  <2>3. givenTimes \in [MessageIds -> 0..1]
    BY DEF MessagePagesInv, MessagePagesTypeOK, GivenOnce
  <2>4. \A i \in MessageIds : givenTimes[i] # 0 => i \notin Older(before) /\ before # 0 /\ i >= before
    BY <2>1, <2>2 DEF MessagePagesInv, Older, MessageIds
  <2>5. atOpening \in SUBSET Visible
        /\ \A i \in atOpening : givenTimes[i] = 1 \/ i \in Older(before)
    BY <2>1, <2>2 DEF MessagePagesInv, NothingLeftOut, Older
  <2> QED
    BY <2>1, <2>2, <2>3, <2>4, <2>5, ReceiveKeeps
<1>4. CASE Insert \/ Finish
  <2>1. /\ row' \in [MessageIds -> {"free", "inserting", "visible", "elsewhere"}]
        /\ \A i \in MessageIds : row[i] = "visible" => row'[i] = "visible"
        /\ UNCHANGED <<scrolling, before, givenTimes, atOpening>>
    BY <1>4 DEF Insert, Finish, MessagePagesInv, MessagePagesTypeOK
  <2> QED
    BY <2>1 DEF MessagePagesInv, MessagePagesTypeOK, GivenOnce, NothingLeftOut, Visible
<1>5. CASE UNCHANGED messagePagesVars
  BY <1>5 DEF messagePagesVars, MessagePagesInv, MessagePagesTypeOK, GivenOnce, NothingLeftOut, Visible
<1> QED
  BY <1>2, <1>3, <1>4, <1>5 DEF MessagePagesNext

\* So it holds throughout every reading.
THEOREM MessagePagesInvariant == MessagePagesSpec => []MessagePagesInv
BY MessagePagesInvInitially, MessagePagesInvPreserved, PTL DEF MessagePagesSpec
-----------------------------------------------------------------------------
\* MessagePagesTypeOK: a cursor is the id of a row, whenever the response of
\* GET /conversations/:id/messages says that there is more.
THEOREM MessagePagesTypeCorrect == MessagePagesSpec => []MessagePagesTypeOK
<1>1. MessagePagesInv => MessagePagesTypeOK
  BY DEF MessagePagesInv
<1> QED
  BY <1>1, MessagePagesInvariant, PTL

\* GivenOnce: getMessagePageByConversationId gives no message twice, in
\* whatever order rows become visible between the pages.
THEOREM MessagesGivenOnce == MessagePagesSpec => []GivenOnce
<1>1. MessagePagesInv => GivenOnce
  BY DEF MessagePagesInv
<1> QED
  BY <1>1, MessagePagesInvariant, PTL

\* NothingLeftOut: what was visible when the conversation was opened is given
\* by the time its pages end.
THEOREM MessagesComplete == MessagePagesSpec => []NothingLeftOut
<1>1. MessagePagesInv => NothingLeftOut
  BY DEF MessagePagesInv
<1> QED
  BY <1>1, MessagePagesInvariant, PTL
-----------------------------------------------------------------------------
(***************************************************************************)
(* The messages of one conversation on the chat page, MessageHistory.      *)
(* What its lists hold, first.                                             *)
(***************************************************************************)
\* How many numbers of a set are less than one of them.
Rank(S, i) == Cardinality({j \in S : j < i})

\* The rank is less than the size of the set, and grows.
LEMMA RankGrows ==
    ASSUME NEW N \in Nat, NEW S \in SUBSET (1..N)
    PROVE  /\ IsFiniteSet(S) /\ Cardinality(S) \in Nat
           /\ \A i \in S : Rank(S, i) \in 0..(Cardinality(S) - 1)
           /\ \A i, j \in S : i < j => Rank(S, i) < Rank(S, j)
<1> DEFINE Under(i) == {j \in S : j < i}
<1>1. IsFiniteSet(S) /\ Cardinality(S) \in Nat /\ \A i \in S : i \in Int
  BY FiniteNumbers
<1>2. ASSUME NEW T \in SUBSET S
      PROVE  /\ IsFiniteSet(T) /\ Cardinality(T) \in Nat
             /\ Cardinality(T) <= Cardinality(S)
             /\ Cardinality(T) = Cardinality(S) => T = S
  BY <1>1, FS_Subset, FS_CardinalityType
<1>3. ASSUME NEW i \in S PROVE Rank(S, i) \in 0..(Cardinality(S) - 1)
  <2>1. Under(i) \in SUBSET S /\ Under(i) # S
    <3>1. i \notin Under(i)
      BY <1>1
    <3> QED
      BY <3>1
  <2> HIDE DEF Under
  <2>2. Cardinality(Under(i)) \in Nat /\ Cardinality(Under(i)) < Cardinality(S)
    BY <1>1, <1>2, <2>1
  <2>3. Rank(S, i) = Cardinality(Under(i))
    BY DEF Rank, Under
  <2> QED
    BY <1>1, <2>2, <2>3
<1>4. ASSUME NEW i \in S, NEW j \in S, i < j PROVE Rank(S, i) < Rank(S, j)
  <2>1. Under(i) \subseteq Under(j)
    <3> SUFFICES ASSUME NEW k \in S, k < i PROVE k < j
      OBVIOUS
    <3> QED
      BY <1>1, <1>4
  <2>2. i \in Under(j) /\ i \notin Under(i)
    BY <1>1, <1>4
  <2>3. Under(i) \in SUBSET S /\ Under(j) \in SUBSET S
    OBVIOUS
  <2> HIDE DEF Under
  <2>4. Cardinality(Under(i)) <= Cardinality(Under(j))
        /\ (Cardinality(Under(j)) = Cardinality(Under(i)) => Under(j) = Under(i))
    BY <1>2, <2>1, <2>3, FS_Subset
  <2>5. Cardinality(Under(i)) \in Nat /\ Cardinality(Under(j)) \in Nat
    BY <1>2, <2>3
  <2>6. Cardinality(Under(i)) < Cardinality(Under(j))
    BY <2>2, <2>4, <2>5
  <2> QED
    BY <2>6 DEF Rank, Under
<1> QED
  BY <1>1, <1>3, <1>4

\* The elements of a set as a list of n, each once, the least first.
Lists(S, n, ordered) ==
    /\ n \in Nat
    /\ ordered \in [1..n -> S]
    /\ \A j, k \in 1..n : j < k => ordered[j] < ordered[k]
    /\ \A i \in S : \E k \in 1..n : ordered[k] = i

\* InOrder is such a list.
LEMMA InOrderLists ==
    ASSUME NEW N \in Nat, NEW S \in SUBSET (1..N)
    PROVE  Lists(S, Cardinality(S), InOrder(S))
<1> DEFINE ordered == InOrder(S)
<1>1. IsFiniteSet(S) /\ Cardinality(S) \in Nat /\ \A i \in S : i \in Int
  <2>1. \A i \in S : i \in Int
    OBVIOUS
  <2> QED
    BY <2>1, FiniteNumbers
<1>2. PICK rank : rank = [i \in S |-> Rank(S, i)]
  OBVIOUS
<1>3. rank \in [S -> 0..(Cardinality(S) - 1)] /\ \A i \in S : rank[i] = Rank(S, i)
  BY <1>2, RankGrows
<1>4. ASSUME NEW i \in S, NEW j \in S, i # j PROVE rank[i] # rank[j]
  <2>1. i < j \/ j < i
    BY <1>1, <1>4
  <2>2. rank[i] < rank[j] \/ rank[j] < rank[i]
    BY <1>3, <2>1, RankGrows
  <2>3. rank[i] \in Int /\ rank[j] \in Int
    BY <1>3
  <2> QED
    BY <2>2, <2>3
<1>5. rank \in Injection(S, 0..(Cardinality(S) - 1))
  BY <1>3, <1>4 DEF Injection, IsInjective
<1>6. IsFiniteSet(0..(Cardinality(S) - 1)) /\ Cardinality(0..(Cardinality(S) - 1)) = Cardinality(S)
  <2>1. PICK end \in Int : end = Cardinality(S) - 1
    BY <1>1
  <2>2. IsFiniteSet(0..end) /\ Cardinality(0..end) = IF 0 > end THEN 0 ELSE end - 0 + 1
    BY FS_Interval
  <2> QED
    BY <1>1, <2>1, <2>2
<1>7. rank \in Surjection(S, 0..(Cardinality(S) - 1))
  BY <1>1, <1>5, <1>6, FS_Injection
<1>8. \A r \in 0..(Cardinality(S) - 1) : \E i \in S : rank[i] = r
  BY <1>7 DEF Surjection
<1>9. ASSUME NEW k \in 1..Cardinality(S)
      PROVE  ordered[k] \in S /\ rank[ordered[k]] = k - 1
  <2>1. \E i \in S : Rank(S, i) = k - 1
    BY <1>1, <1>3, <1>8
  <2>2. InOrder(S)[k] = CHOOSE i \in S : Rank(S, i) = k - 1
    BY DEF InOrder, Rank
  <2>3. ordered[k] \in S /\ Rank(S, ordered[k]) = k - 1
    BY <2>1, <2>2
  <2> QED
    BY <1>3, <2>3
<1>10. ordered \in [1..Cardinality(S) -> S]
  <2>1. \A k \in 1..Cardinality(S) : InOrder(S)[k] \in S
    BY <1>9
  <2> QED
    BY <2>1 DEF InOrder
<1> HIDE DEF ordered
<1>11. ASSUME NEW j \in 1..Cardinality(S), NEW k \in 1..Cardinality(S), j < k
       PROVE  ordered[j] < ordered[k]
  <2>1. ordered[j] \in S /\ ordered[k] \in S /\ rank[ordered[j]] = j - 1 /\ rank[ordered[k]] = k - 1
    BY <1>9
  <2>2. rank[ordered[j]] < rank[ordered[k]]
    BY <1>11, <2>1
  <2>3. ~(ordered[k] < ordered[j]) /\ ordered[j] # ordered[k]
    <3>1. ASSUME ordered[k] < ordered[j] PROVE FALSE
      <4>1. rank[ordered[k]] < rank[ordered[j]]
        BY <1>3, <2>1, <3>1, RankGrows
      <4> QED
        BY <1>11, <2>1, <4>1
    <3>2. ASSUME ordered[j] = ordered[k] PROVE FALSE
      BY <1>11, <2>1, <3>2
    <3> QED
      BY <3>1, <3>2
  <2>4. ordered[j] \in Int /\ ordered[k] \in Int
    BY <1>1, <2>1
  <2> QED
    BY <2>3, <2>4
<1>12. ASSUME NEW i \in S PROVE \E k \in 1..Cardinality(S) : ordered[k] = i
  <2>1. rank[i] \in 0..(Cardinality(S) - 1)
    BY <1>3
  <2>2. PICK k \in 1..Cardinality(S) : k - 1 = rank[i]
    <3>1. rank[i] + 1 \in 1..Cardinality(S) /\ (rank[i] + 1) - 1 = rank[i]
      BY <1>1, <2>1
    <3> QED
      BY <3>1
  <2>3. ordered[k] \in S /\ rank[ordered[k]] = rank[i]
    BY <1>9, <2>2
  <2> QED
    BY <1>4, <2>3
<1> QED
  BY <1>1, <1>10, <1>11, <1>12 DEF Lists, ordered

\* A list of the messages of two others: those of the first, then those of
\* the second it does not have, each in the order of its list.
Joins(merged, older, current) ==
    /\ \A j \in DOMAIN older : \E k \in DOMAIN merged : merged[k] = older[j]
    /\ \A j \in DOMAIN current : \E k \in DOMAIN merged : merged[k] = current[j]
    /\ \A k \in DOMAIN merged :
          \/ \E a \in DOMAIN older : merged[k] = older[a]
          \/ \E a \in DOMAIN current : merged[k] = current[a]
    /\ \A j, k \in DOMAIN merged : j < k =>
          \/ \E a, b \in DOMAIN older :
                a < b /\ merged[j] = older[a] /\ merged[k] = older[b]
          \/ \E a \in DOMAIN older, b \in DOMAIN current :
                /\ merged[j] = older[a] /\ merged[k] = current[b]
                /\ \A c \in DOMAIN older : older[c] # current[b]
          \/ \E a, b \in DOMAIN current :
                a < b /\ merged[j] = current[a] /\ merged[k] = current[b]

\* mergeUniqueMessages gives such a list.
LEMMA Merged ==
    ASSUME NEW X, NEW older \in Seq(X), NEW current \in Seq(X),
           NEW merged, merged = MergeUnique(older, current)
    PROVE  merged \in Seq(X) /\ Joins(merged, older, current)
<1> DEFINE new == {k \in DOMAIN current : \A j \in DOMAIN older : older[j] # current[k]}
<1>1. PICK fresh : fresh = InOrder(new)
  OBVIOUS
<1>2. Len(current) \in Nat /\ DOMAIN current = 1..Len(current) /\ new \in SUBSET (1..Len(current))
  OBVIOUS
<1>3. PICK n : n = Cardinality(new)
  OBVIOUS
<1>4. /\ n \in Nat
      /\ fresh \in [1..n -> new]
      /\ \A j, k \in 1..n : j < k => fresh[j] < fresh[k]
      /\ \A i \in new : \E k \in 1..n : fresh[k] = i
  <2> HIDE DEF new
  <2>1. Lists(new, Cardinality(new), InOrder(new))
    BY <1>2, InOrderLists
  <2> QED
    BY <1>1, <1>3, <2>1 DEF Lists
<1>5. PICK tail : tail = [k \in 1..n |-> current[fresh[k]]]
  OBVIOUS
<1>6. tail \in Seq(X) /\ Len(tail) = n /\ \A k \in 1..n : tail[k] = current[fresh[k]]
  <2>1. tail \in [1..n -> X]
    BY <1>2, <1>4, <1>5
  <2> QED
    BY <1>4, <1>5, <2>1
<1>7. merged = older \o tail
  <2>1. DOMAIN fresh = 1..n
    BY <1>4
  <2> QED
    BY <1>1, <1>5, <2>1 DEF MergeUnique
<1>8. PICK m : m = Len(older)
  OBVIOUS
<1>9. /\ m \in Nat /\ merged \in Seq(X) /\ Len(merged) = m + n
      /\ DOMAIN older = 1..m /\ DOMAIN merged = 1..(m + n)
      /\ \A k \in 1..(m + n) : merged[k] = IF k <= m THEN older[k] ELSE tail[k - m]
  <2>1. m \in Nat /\ DOMAIN older = 1..m
    BY <1>8
  <2>2. merged \in Seq(X) /\ Len(merged) = m + n
    BY <1>6, <1>7, <1>8
  <2>3. DOMAIN merged = 1..(m + n)
    BY <2>2
  <2>4. ASSUME NEW k \in 1..(m + n)
        PROVE  merged[k] = IF k <= m THEN older[k] ELSE tail[k - m]
    BY <1>6, <1>7, <1>8
  <2> QED
    BY <2>1, <2>2, <2>3, <2>4
<1>10. ASSUME NEW k \in 1..n
       PROVE  /\ fresh[k] \in DOMAIN current /\ merged[m + k] = current[fresh[k]]
              /\ m + k \in DOMAIN merged
              /\ \A c \in DOMAIN older : older[c] # current[fresh[k]]
  <2>1. m + k \in 1..(m + n) /\ ~(m + k <= m) /\ (m + k) - m = k
    BY <1>4, <1>9
  <2>2. fresh[k] \in new
    BY <1>4
  <2> QED
    BY <1>6, <1>9, <2>1, <2>2
<1>11. ASSUME NEW k \in DOMAIN merged
       PROVE  \/ k \in DOMAIN older /\ merged[k] = older[k]
              \/ \E i \in 1..n : k = m + i
  <2>1. CASE k <= m
    BY <1>4, <1>9, <2>1
  <2>2. CASE ~(k <= m)
    <3>1. k - m \in 1..n /\ k = m + (k - m)
      BY <1>4, <1>9, <2>2
    <3> QED
      BY <3>1
  <2> QED
    BY <2>1, <2>2
<1> HIDE DEF new
<1>12. ASSUME NEW j \in DOMAIN older PROVE \E k \in DOMAIN merged : merged[k] = older[j]
  <2>1. j \in 1..(m + n) /\ j <= m
    BY <1>4, <1>9
  <2> QED
    BY <1>9, <2>1
<1>13. ASSUME NEW j \in DOMAIN current PROVE \E k \in DOMAIN merged : merged[k] = current[j]
  <2>1. CASE j \in new
    <3>1. PICK k \in 1..n : fresh[k] = j
      BY <1>4, <2>1
    <3> QED
      BY <1>10, <3>1
  <2>2. CASE j \notin new
    <3>1. PICK a \in DOMAIN older : older[a] = current[j]
      BY <2>2 DEF new
    <3> QED
      BY <1>12, <3>1
  <2> QED
    BY <2>1, <2>2
<1>14. ASSUME NEW k \in DOMAIN merged
       PROVE  \/ \E a \in DOMAIN older : merged[k] = older[a]
              \/ \E a \in DOMAIN current : merged[k] = current[a]
  BY <1>10, <1>11
<1>15. ASSUME NEW j \in DOMAIN merged, NEW k \in DOMAIN merged, j < k
       PROVE  \/ \E a, b \in DOMAIN older :
                   a < b /\ merged[j] = older[a] /\ merged[k] = older[b]
              \/ \E a \in DOMAIN older, b \in DOMAIN current :
                   /\ merged[j] = older[a] /\ merged[k] = current[b]
                   /\ \A c \in DOMAIN older : older[c] # current[b]
              \/ \E a, b \in DOMAIN current :
                   a < b /\ merged[j] = current[a] /\ merged[k] = current[b]
  <2>1. CASE k \in DOMAIN older /\ merged[k] = older[k]
    <3>1. j \in DOMAIN older /\ merged[j] = older[j]
      BY <1>9, <1>15, <2>1
    <3> QED
      BY <1>15, <2>1, <3>1
  <2>2. CASE \E i \in 1..n : k = m + i
    <3>1. PICK i \in 1..n : k = m + i
      BY <2>2
    <3>2. CASE j \in DOMAIN older /\ merged[j] = older[j]
      BY <1>10, <3>1, <3>2
    <3>3. CASE \E h \in 1..n : j = m + h
      <4>1. PICK h \in 1..n : j = m + h
        BY <3>3
      <4>2. h < i
        BY <1>9, <1>15, <3>1, <4>1
      <4>3. fresh[h] < fresh[i]
        BY <1>4, <4>2
      <4> QED
        BY <1>10, <3>1, <4>1, <4>3
    <3> QED
      BY <1>11, <3>2, <3>3
  <2> QED
    BY <1>11, <2>1, <2>2
<1> QED
  BY <1>9, <1>12, <1>13, <1>14, <1>15 DEF Joins

\* n groups of messages, each from its first to its last place: they follow
\* each other, and leave none out.
Cut(messages, groups, n, first, last) ==
    /\ n \in Nat
    /\ first \in [1..n -> DOMAIN messages] /\ last \in [1..n -> DOMAIN messages]
    /\ DOMAIN groups = 1..n
    /\ \A g \in 1..n :
          /\ DOMAIN groups[g] = 1..(last[g] - first[g] + 1)
          /\ \A x \in DOMAIN groups[g] : groups[g][x] = messages[first[g] + x - 1]
    /\ \A g, h \in 1..n : g < h => last[g] < first[h]
    /\ \A k \in DOMAIN messages : \E g \in 1..n : first[g] <= k /\ k <= last[g]

\* groupMessages cuts the messages like that.
LEMMA Grouped ==
    ASSUME NEW X, NEW messages \in Seq(X)
    PROVE  \E n, first, last : Cut(messages, GroupMessages(messages), n, first, last)
<1> DEFINE groups == GroupMessages(messages)
<1> DEFINE heads == {k \in DOMAIN messages : k = 1 \/ messages[k].role = "user"}
<1>1. PICK len \in Nat : len = Len(messages) /\ DOMAIN messages = 1..len
  OBVIOUS
<1>2. heads \in SUBSET (1..len)
  BY <1>1
<1>3. PICK n : n = Cardinality(heads)
  OBVIOUS
<1>4. PICK first : first = InOrder(heads)
  OBVIOUS
<1>5. Lists(heads, n, first)
  <2> HIDE DEF heads
  <2> QED
    BY <1>2, <1>3, <1>4, InOrderLists
<1>6. n \in Nat /\ first \in [1..n -> 1..len] /\ DOMAIN first = 1..n
  BY <1>2, <1>5 DEF Lists
<1>7. \A g, h \in 1..n : g < h => first[g] < first[h]
  BY <1>5 DEF Lists
<1>8. PICK last : last = [g \in 1..n |-> IF g = n THEN len ELSE first[g + 1] - 1]
  OBVIOUS
<1>9. ASSUME NEW g \in 1..n, g # n
      PROVE  g + 1 \in 1..n /\ g < g + 1 /\ first[g] < first[g + 1] /\ last[g] = first[g + 1] - 1
             /\ first[g + 1] \in 1..len
  <2>1. g + 1 \in 1..n /\ g < g + 1
    BY <1>6, <1>9
  <2> QED
    BY <1>6, <1>7, <1>8, <1>9, <2>1
<1>10. ASSUME NEW g \in 1..n
       PROVE  first[g] \in 1..len /\ last[g] \in 1..len /\ first[g] <= last[g]
  <2>1. first[g] \in 1..len
    BY <1>6
  <2>2. CASE g = n
    BY <1>8, <2>1, <2>2
  <2>3. CASE g # n
    BY <1>9, <2>1, <2>3
  <2> QED
    BY <2>1, <2>2, <2>3
<1>11. last \in [1..n -> 1..len]
  BY <1>8, <1>10
<1>12. groups = [g \in 1..n |-> SubSeq(messages, first[g], last[g])]
  <2>1. groups = [g \in DOMAIN first |->
                    SubSeq(messages, first[g], IF g = Len(first) THEN Len(messages) ELSE first[g + 1] - 1)]
    BY <1>4 DEF GroupMessages
  <2>2. Len(first) = n
    BY <1>6
  <2>3. \A g \in 1..n : last[g] = IF g = Len(first) THEN Len(messages) ELSE first[g + 1] - 1
    BY <1>1, <1>8, <2>2
  <2> QED
    BY <1>6, <2>1, <2>3
<1>13. ASSUME NEW g \in 1..n
       PROVE  /\ DOMAIN groups[g] = 1..(last[g] - first[g] + 1)
              /\ \A x \in DOMAIN groups[g] : groups[g][x] = messages[first[g] + x - 1]
  BY <1>1, <1>10, <1>12
<1>14. ASSUME NEW g \in 1..n, NEW h \in 1..n, g < h PROVE last[g] < first[h]
  <2>1. g # n
    BY <1>6, <1>14
  <2>2. g + 1 \in 1..n /\ last[g] = first[g + 1] - 1 /\ first[g + 1] \in Int /\ first[h] \in Int
    BY <1>6, <1>9, <2>1
  <2>3. g + 1 = h \/ g + 1 < h
    BY <1>14
  <2>4. first[g + 1] <= first[h]
    BY <1>7, <2>2, <2>3
  <2> QED
    BY <2>2, <2>4
<1>15. ASSUME NEW k \in DOMAIN messages PROVE \E g \in 1..n : first[g] <= k /\ k <= last[g]
  <2> DEFINE upTo == {i \in heads : i <= k}
  <2>1. k \in 1..len /\ 1 \in upTo /\ upTo \in SUBSET (1..len)
    BY <1>1
  <2>2. PICK head \in upTo : \A i \in upTo : i <= head
    <3> HIDE DEF upTo
    <3> QED
      BY <1>1, <2>1, GreatestNumber
  <2>3. PICK g \in 1..n : first[g] = head
    BY <1>5 DEF Lists
  <2>4. k <= last[g]
    <3>1. CASE g = n
      BY <1>8, <2>1, <3>1
    <3>2. CASE g # n
      <4>1. first[g + 1] \in heads
        <5>1. g + 1 \in 1..n
          BY <1>9, <3>2
        <5> QED
          BY <1>5, <5>1 DEF Lists
      <4>2. ~(first[g + 1] <= head) /\ last[g] = first[g + 1] - 1 /\ first[g + 1] \in Int
        BY <1>9, <1>10, <2>3, <3>2
      <4>3. ~(first[g + 1] <= k)
        BY <2>2, <4>1, <4>2
      <4> QED
        BY <2>1, <4>2, <4>3
    <3> QED
      BY <3>1, <3>2
  <2> QED
    BY <2>2, <2>3, <2>4
<1>16. DOMAIN groups = 1..n
  BY <1>12
<1> HIDE DEF groups
<1>17. Cut(messages, groups, n, first, last)
  BY <1>1, <1>6, <1>11, <1>13, <1>14, <1>15, <1>16 DEF Cut
<1> QED
  BY <1>17 DEF groups

\* So the page shows the messages of the pane, in their order.
LEMMA Displayed ==
    ASSUME NEW X, pane \in Seq(X), NEW shown, shown = OnDisplay
    PROVE  /\ \A k \in DOMAIN pane : \E p \in DOMAIN shown : shown[p] = pane[k]
           /\ \A p, q \in DOMAIN shown : Above(p, q) =>
                \E j, k \in DOMAIN pane : j < k /\ shown[p] = pane[j] /\ shown[q] = pane[k]
<1>1. PICK groups : groups = GroupMessages(pane)
  OBVIOUS
<1>2. PICK n, first, last : Cut(pane, groups, n, first, last)
  BY <1>1, Grouped
<1>3. /\ n \in Nat
      /\ first \in [1..n -> DOMAIN pane] /\ last \in [1..n -> DOMAIN pane]
      /\ DOMAIN groups = 1..n
      /\ \A g \in 1..n :
            /\ DOMAIN groups[g] = 1..(last[g] - first[g] + 1)
            /\ \A x \in DOMAIN groups[g] : groups[g][x] = pane[first[g] + x - 1]
      /\ \A g, h \in 1..n : g < h => last[g] < first[h]
      /\ \A k \in DOMAIN pane : \E g \in 1..n : first[g] <= k /\ k <= last[g]
  BY <1>2 DEF Cut
<1>4. PICK len \in Nat : DOMAIN pane = 1..len
  <2>1. Len(pane) \in Nat /\ DOMAIN pane = 1..Len(pane)
    OBVIOUS
  <2> QED
    BY <2>1
<1>5. \A g \in 1..n : first[g] \in 1..len /\ last[g] \in 1..len
  BY <1>3, <1>4
<1>6. PICK places : places = UNION {{g} \X DOMAIN groups[g] : g \in DOMAIN groups}
  OBVIOUS
<1>7. shown = [p \in places |-> groups[p[1]][p[2]]]
  BY <1>1, <1>6 DEF OnDisplay
<1>8. ASSUME NEW g \in 1..n, NEW x \in 1..(last[g] - first[g] + 1)
      PROVE  <<g, x>> \in DOMAIN shown /\ shown[<<g, x>>] = pane[first[g] + x - 1]
  <2>1. g \in DOMAIN groups /\ x \in DOMAIN groups[g] /\ groups[g][x] = pane[first[g] + x - 1]
    BY <1>3
  <2>2. <<g, x>> \in places
    BY <1>6, <2>1
  <2> QED
    BY <1>7, <2>1, <2>2
<1>9. ASSUME NEW p \in DOMAIN shown
      PROVE  \E g \in 1..n : \E x \in 1..(last[g] - first[g] + 1) : p = <<g, x>>
  <2>1. p \in places
    BY <1>7
  <2>2. PICK g \in DOMAIN groups : p \in {g} \X DOMAIN groups[g]
    BY <1>6, <2>1
  <2>3. g \in 1..n /\ DOMAIN groups[g] = 1..(last[g] - first[g] + 1)
    BY <1>3, <2>2
  <2>4. PICK x \in DOMAIN groups[g] : p = <<g, x>>
    BY <2>2
  <2> QED
    BY <2>3, <2>4
<1>10. ASSUME NEW k \in DOMAIN pane PROVE \E p \in DOMAIN shown : shown[p] = pane[k]
  <2>1. PICK g \in 1..n : first[g] <= k /\ k <= last[g]
    BY <1>3
  <2>2. k \in Int /\ first[g] \in Int /\ last[g] \in Int
    BY <1>4, <1>5
  <2>3. PICK x \in 1..(last[g] - first[g] + 1) : first[g] + x - 1 = k
    <3>1. k - first[g] + 1 \in 1..(last[g] - first[g] + 1)
          /\ first[g] + (k - first[g] + 1) - 1 = k
      BY <2>1, <2>2
    <3> QED
      BY <3>1
  <2> QED
    BY <1>8, <2>3
<1>11. ASSUME NEW p \in DOMAIN shown, NEW q \in DOMAIN shown, Above(p, q)
       PROVE  \E j, k \in DOMAIN pane : j < k /\ shown[p] = pane[j] /\ shown[q] = pane[k]
  <2>1. PICK g \in 1..n : \E x \in 1..(last[g] - first[g] + 1) : p = <<g, x>>
    BY <1>9
  <2>2. PICK x \in 1..(last[g] - first[g] + 1) : p = <<g, x>>
    BY <2>1
  <2>3. PICK h \in 1..n : \E y \in 1..(last[h] - first[h] + 1) : q = <<h, y>>
    BY <1>9
  <2>4. PICK y \in 1..(last[h] - first[h] + 1) : q = <<h, y>>
    BY <2>3
  <2>5. /\ first[g] \in 1..len /\ last[g] \in 1..len /\ first[h] \in 1..len /\ last[h] \in 1..len
        /\ x \in Int /\ y \in Int
    BY <1>5
  <2>6. PICK j : j = first[g] + x - 1
    OBVIOUS
  <2>7. PICK k : k = first[h] + y - 1
    OBVIOUS
  <2>8. j \in 1..len /\ j <= last[g] /\ k \in 1..len /\ first[h] <= k
    <3>1. 1 <= x /\ x <= last[g] - first[g] + 1 /\ 1 <= y /\ y <= last[h] - first[h] + 1
      OBVIOUS
    <3>2. j \in 1..len /\ j <= last[g]
      BY <2>5, <2>6, <3>1
    <3>3. k \in 1..len /\ first[h] <= k
      BY <2>5, <2>7, <3>1
    <3> QED
      BY <3>2, <3>3
  <2>9. shown[p] = pane[j] /\ shown[q] = pane[k]
    BY <1>8, <2>2, <2>4, <2>6, <2>7
  <2>10. g < h \/ (g = h /\ x < y)
    <3>1. p[1] = g /\ p[2] = x /\ q[1] = h /\ q[2] = y
      BY <2>2, <2>4
    <3> QED
      BY <1>11, <3>1 DEF Above
  <2>11. j < k
    <3>1. CASE g < h
      <4>1. last[g] < first[h]
        BY <1>3, <3>1
      <4> QED
        BY <2>5, <2>8, <4>1
    <3>2. CASE g = h /\ x < y
      BY <2>5, <2>6, <2>7, <3>2
    <3> QED
      BY <2>10, <3>1, <3>2
  <2> QED
    BY <1>4, <2>8, <2>9, <2>11
<1> QED
  BY <1>10, <1>11
-----------------------------------------------------------------------------
(***************************************************************************)
(* The pane.  What was there when the newest page was read is shown, or    *)
(* older than the cursor; the load that is live brings the page before it. *)
(***************************************************************************)
\* Messages of the table, and any message.
RowMessages == {Message(i) : i \in Store!MessageIds}
Texts == [id : Nat, role : {"user", "assistant"}]

PageRequests == [stage : {"sent", "answered", "over"}, prepend : BOOLEAN, cursor : 0..LastRow,
                 stale : BOOLEAN, page : Seq(RowMessages), next : 0..LastRow,
                 seen : SUBSET Store!MessageIds]

Retries == [prepend : BOOLEAN, cursor : 0..LastRow]

HistoryTypeOK ==
    /\ table \in [Store!MessageIds -> {"free", "inserting", "visible", "elsewhere"}]
    /\ loading \in Seq(PageRequests)
    /\ pane \in Seq(Texts)
    /\ messageCursor \in 0..LastRow
    /\ failure \in Retries \cup {NothingFailed}
    /\ asked \in Nat
    /\ atLoad \subseteq Store!Visible
    /\ replied \subseteq Store!MessageIds

Shows(messages, i) == \E k \in DOMAIN messages : messages[k] = Message(i)
Ascending(messages) == \A j, k \in DOMAIN messages : j < k => messages[j].id < messages[k].id
From(messages, i) == \A k \in DOMAIN messages : i <= messages[k].id

\* A load the page still waits for.
Live(load) == load.stage # "over" /\ ~load.stale

\* What a load brings, or asks for.
LoadIsTrue(load) ==
    /\ load.seen \subseteq Store!Visible
    /\ load.prepend <=> load.cursor # 0
    /\ Ascending(load.page)
    /\ From(load.page, load.next)
    /\ load.next # 0 => Shows(load.page, load.next)
    /\ load.prepend => \A k \in DOMAIN load.page : load.page[k].id < load.cursor
    /\ Live(load) /\ ~load.prepend /\ load.stage = "answered" =>
        \A i \in load.seen : Shows(load.page, i) \/ i < load.next
    /\ ~shuffled /\ Live(load) /\ load.prepend =>
        /\ load.cursor = messageCursor
        /\ load.stage = "answered" =>
             \A i \in atLoad : i < load.cursor => Shows(load.page, i) \/ i < load.next

LoadsAreTrue ==
    /\ \A n \in DOMAIN loading : LoadIsTrue(loading[n])
    /\ \A m, n \in DOMAIN loading : Live(loading[m]) /\ Live(loading[n]) => m = n

\* What can be tried again.
FailureIsTrue == failure # NothingFailed => (failure.prepend <=> failure.cursor # 0)

\* Messages with an id of the table are those of the table; questions of this
\* tab have ids of their own.
PaneIsKnown ==
    \A k \in DOMAIN pane :
        /\ pane[k].id <= LastRow + asked + 1
        /\ pane[k].id \in Store!MessageIds => pane[k] = Message(pane[k].id)

Placed(id) == id \in Store!MessageIds \ replied

PaneIsWhole ==
    /\ \A j, k \in DOMAIN pane : j < k =>
          /\ pane[j].id # pane[k].id
          /\ Placed(pane[j].id) /\ Placed(pane[k].id) => pane[j].id < pane[k].id
    /\ \A k \in DOMAIN pane : Placed(pane[k].id) => messageCursor <= pane[k].id
    /\ \A i \in atLoad : i < messageCursor \/ Shows(pane, i)

HistoryInv ==
    /\ HistoryTypeOK
    /\ LoadsAreTrue
    /\ FailureIsTrue
    /\ PaneIsKnown
    /\ ~shuffled => PaneIsWhole
-----------------------------------------------------------------------------
\* A message of the table is known by its id.
LEMMA MessageFacts ==
    /\ LastRow \in Nat /\ Store!MessageIds = 1..LastRow /\ Store!Visible \subseteq Store!MessageIds
    /\ \A i : Message(i).id = i
    /\ \A i \in Store!MessageIds : Message(i) \in RowMessages /\ Message(i) \in Texts /\ i \in Int
    /\ \A m \in RowMessages : m.id \in Store!MessageIds /\ m = Message(m.id) /\ m \in Texts /\ m.id \in Int
<1>1. LastRow \in Nat /\ Store!MessageIds = 1..LastRow /\ Store!Visible \subseteq Store!MessageIds
  BY HistoryAssumption DEF HistoryAssumption, Store!MessageIds, Store!Visible
<1>2. \A i : Message(i).id = i
  BY DEF Message
<1>3. ASSUME NEW i \in Store!MessageIds PROVE Message(i) \in RowMessages /\ Message(i) \in Texts /\ i \in Int
  BY <1>1 DEF RowMessages, Message, Texts
<1>4. ASSUME NEW m \in RowMessages
      PROVE  m.id \in Store!MessageIds /\ m = Message(m.id) /\ m \in Texts /\ m.id \in Int
  <2>1. PICK i \in Store!MessageIds : m = Message(i)
    BY DEF RowMessages
  <2> QED
    BY <1>2, <1>3, <2>1
<1> QED
  BY <1>1, <1>2, <1>3, <1>4

\* The pages of the table are those of MessagePages.
LEMMA StorePages ==
    ASSUME NEW c \in 0..LastRow
    PROVE  /\ Store!PageOf(c) \subseteq Store!Older(c)
           /\ \A i \in Store!Older(c) \ Store!PageOf(c), k \in Store!PageOf(c) : i < k
           /\ Cardinality(Store!Fetched(c)) > HistoryPage =>
                /\ Store!NextCursor(c) \in Store!PageOf(c)
                /\ \A k \in Store!PageOf(c) : Store!NextCursor(c) <= k
           /\ ~(Cardinality(Store!Fetched(c)) > HistoryPage) => Store!PageOf(c) = Store!Older(c)
<1>1. \A S : Store!Cardinality(S) = Cardinality(S)
  BY DEF Store!Cardinality, Cardinality
<1>2. \A S, n : Store!Newest(S, n) = Newest(S, n)
  BY <1>1 DEF Store!Newest, Newest
<1>3. \A S : Store!SmallestOf(S) = SmallestOf(S)
  BY DEF Store!SmallestOf, SmallestOf
<1>4. HistoryPage \in Nat \ {0} /\ LastRow \in Nat
  BY HistoryAssumption DEF HistoryAssumption
<1>5. Store!Older(c) \in SUBSET (1..LastRow)
  BY DEF Store!Older, Store!Visible, Store!MessageIds
<1>6. /\ Store!Fetched(c) = Newest(Store!Older(c), HistoryPage + 1)
      /\ Store!PageOf(c) = Newest(Store!Fetched(c), HistoryPage)
      /\ Store!NextCursor(c) = SmallestOf(Store!PageOf(c))
  BY <1>2, <1>3 DEF Store!Fetched, Store!PageOf, Store!NextCursor
<1>7. /\ Store!PageOf(c) \subseteq Store!Older(c) /\ Store!Fetched(c) \subseteq Store!Older(c)
      /\ \A i \in Store!Older(c) \ Store!PageOf(c), k \in Store!PageOf(c) : i < k
      /\ Cardinality(Store!Fetched(c)) > HistoryPage =>
           /\ SmallestOf(Store!PageOf(c)) \in Store!PageOf(c)
           /\ \A k \in Store!PageOf(c) : SmallestOf(Store!PageOf(c)) <= k
      /\ ~(Cardinality(Store!Fetched(c)) > HistoryPage) => Store!PageOf(c) = Store!Older(c)
  BY <1>4, <1>5, <1>6, PageOfSet
<1> QED
  BY <1>6, <1>7

\* A page of the table in its order, and what comes before it.
LEMMA PageListed ==
    ASSUME NEW c \in 0..LastRow, NEW ordered, ordered = InOrder(Store!PageOf(c)),
           NEW page, page = [k \in DOMAIN ordered |-> Message(ordered[k])],
           NEW next, next = IF Cardinality(Store!Fetched(c)) > HistoryPage
                            THEN Store!NextCursor(c) ELSE 0
    PROVE  /\ page \in Seq(RowMessages) /\ next \in 0..LastRow
           /\ Ascending(page) /\ From(page, next)
           /\ next # 0 => Shows(page, next)
           /\ c # 0 => \A k \in DOMAIN page : page[k].id < c
           /\ \A i \in Store!Visible : c = 0 \/ i < c => Shows(page, i) \/ i < next
<1>1. PICK rows : rows = Store!PageOf(c)
  OBVIOUS
<1>2. rows \subseteq Store!Older(c) /\ rows \subseteq 1..LastRow /\ LastRow \in Nat
      /\ \A i \in rows : i \in Store!MessageIds
  BY <1>1, StorePages, MessageFacts DEF Store!Older, Store!Visible
<1>3. PICK n : n = Cardinality(rows)
  OBVIOUS
<1>4. Lists(rows, n, ordered)
  BY <1>1, <1>2, <1>3, InOrderLists
<1>5. n \in Nat /\ ordered \in [1..n -> rows] /\ DOMAIN page = 1..n
  BY <1>4 DEF Lists
<1>6. ASSUME NEW k \in 1..n
      PROVE  page[k] = Message(ordered[k]) /\ page[k].id = ordered[k] /\ ordered[k] \in rows
             /\ page[k] \in RowMessages
  BY <1>2, <1>5, MessageFacts
<1>7. page \in Seq(RowMessages)
  <2>1. page \in [1..n -> RowMessages]
    BY <1>5, <1>6
  <2> QED
    BY <1>5, <2>1
<1>8. Ascending(page)
  BY <1>4, <1>5, <1>6 DEF Ascending, Lists
<1>9. \A i \in rows : Shows(page, i)
  BY <1>4, <1>5, <1>6 DEF Shows, Lists
<1>10. CASE Cardinality(Store!Fetched(c)) > HistoryPage
  <2>1. /\ next \in rows /\ \A k \in rows : next <= k
        /\ \A i \in Store!Older(c) \ rows, k \in rows : i < k
    BY <1>1, <1>10, StorePages
  <2>2. next \in 0..LastRow /\ From(page, next) /\ Shows(page, next)
    <3>1. next \in 0..LastRow
      BY <1>2, <2>1
    <3>2. \A k \in 1..n : next <= page[k].id
      BY <1>6, <2>1
    <3> QED
      BY <1>5, <1>9, <2>1, <3>1, <3>2 DEF From
  <2>3. \A i \in Store!Older(c) : Shows(page, i) \/ i < next
    BY <1>9, <2>1
  <2>4. \A k \in DOMAIN page : page[k].id \in Store!Older(c)
    BY <1>2, <1>5, <1>6
  <2> QED
    BY <1>7, <1>8, <2>2, <2>3, <2>4 DEF Store!Older
<1>11. CASE ~(Cardinality(Store!Fetched(c)) > HistoryPage)
  <2>1. next = 0 /\ rows = Store!Older(c)
    BY <1>1, <1>11, StorePages
  <2>2. next \in 0..LastRow /\ From(page, next)
    BY <1>2, <1>5, <1>6, <2>1 DEF From
  <2>3. \A i \in Store!Older(c) : Shows(page, i)
    BY <1>9, <2>1
  <2>4. \A k \in DOMAIN page : page[k].id \in Store!Older(c)
    BY <1>2, <1>5, <1>6
  <2> QED
    BY <1>7, <1>8, <2>1, <2>2, <2>3, <2>4 DEF Store!Older
<1> QED
  BY <1>10, <1>11

\* The page welcomes, and nothing was loaded.
THEOREM HistoryInvInitially == HistoryInit => HistoryInv
<1> SUFFICES ASSUME HistoryInit PROVE HistoryInv
  OBVIOUS
<1>1. loading \in Seq(PageRequests) /\ DOMAIN loading = {}
  BY DEF HistoryInit
<1>2. LastRow \in Nat /\ Store!MessageIds = 1..LastRow
  BY MessageFacts
<1>3. PICK welcome : welcome = [id |-> LastRow + 1, role |-> "assistant"]
  OBVIOUS
<1>4. welcome \in Texts /\ welcome.id = LastRow + 1 /\ welcome.id \notin Store!MessageIds
  BY <1>2, <1>3 DEF Texts
<1>5. pane = <<welcome>>
  BY <1>3 DEF HistoryInit, InitialMessages
<1>6. pane \in Seq(Texts) /\ DOMAIN pane = {1} /\ pane[1] = welcome
  BY <1>4, <1>5
<1>7. HistoryTypeOK
  BY <1>1, <1>2, <1>6 DEF HistoryInit, HistoryTypeOK
<1>8. PaneIsKnown
  BY <1>2, <1>4, <1>6 DEF HistoryInit, PaneIsKnown
<1>9. PaneIsWhole
  BY <1>4, <1>6 DEF HistoryInit, PaneIsWhole, Placed
<1> QED
  BY <1>1, <1>7, <1>8, <1>9 DEF HistoryInit, HistoryInv, LoadsAreTrue, FailureIsTrue

\* The messages of the pane have numbers.
LEMMA PaneFacts ==
    ASSUME HistoryInv
    PROVE  /\ pane \in Seq(Texts) /\ Len(pane) \in Nat /\ DOMAIN pane = 1..Len(pane)
           /\ \A k \in DOMAIN pane : pane[k] \in Texts /\ pane[k].id \in Nat
<1>1. pane \in Seq(Texts)
  BY DEF HistoryInv, HistoryTypeOK
<1>2. \A k \in DOMAIN pane : pane[k] \in Texts
  BY <1>1
<1>3. \A m \in Texts : m.id \in Nat
  BY DEF Texts
<1> QED
  BY <1>1, <1>2, <1>3

\* A load is known for what it is.
LEMMA LoadFacts ==
    ASSUME HistoryInv, NEW n \in DOMAIN loading, NEW load, load = loading[n]
    PROVE  /\ load \in PageRequests /\ LoadIsTrue(load)
           /\ load.cursor \in 0..LastRow /\ load.next \in 0..LastRow
           /\ load.page \in Seq(RowMessages) /\ load.seen \subseteq Store!MessageIds
           /\ load.prepend \in BOOLEAN /\ load.stale \in BOOLEAN
<1>1. load \in PageRequests
  BY DEF HistoryInv, HistoryTypeOK
<1>2. LoadIsTrue(load)
  BY DEF HistoryInv, LoadsAreTrue
<1> QED
  BY <1>1, <1>2 DEF PageRequests

\* A load that is over brings nothing.
LEMMA OverFacts ==
    /\ PageOver \in PageRequests /\ PageOver.stage = "over" /\ PageOver.seen = {}
    /\ ~PageOver.prepend /\ PageOver.cursor = 0 /\ PageOver.page = <<>> /\ PageOver.next = 0
    /\ ~Live(PageOver)
<1>1. <<>> \in Seq(RowMessages) /\ 0 \in 0..LastRow
  BY MessageFacts
<1> QED
  BY <1>1 DEF PageOver, PageRequest, PageRequests, Live

\* A load that starts is the only one that is live.
LEMMA LoadStarts ==
    ASSUME HistoryInv, NEW prepend \in BOOLEAN, NEW cursor \in 0..LastRow, NEW stale \in BOOLEAN,
           LoadMessages(prepend, cursor, stale),
           UNCHANGED <<table, pane, replied, shuffled, asked>>,
           failure' \in {failure, NothingFailed},
           \/ messageCursor' = messageCursor /\ atLoad' = atLoad
           \/ messageCursor' = 0 /\ atLoad' = {},
           prepend <=> cursor # 0,
           ~shuffled /\ prepend /\ ~stale => cursor = messageCursor'
    PROVE  HistoryInv'
<1> DEFINE new == PageRequest("sent", prepend, cursor, stale)
<1>1. LastRow \in Nat /\ Store!MessageIds' = Store!MessageIds /\ Store!Visible' = Store!Visible
  BY MessageFacts DEF Store!MessageIds, Store!Visible
<1>2. <<>> \in Seq(RowMessages) /\ 0 \in 0..LastRow
  BY <1>1
<1>3. /\ new \in PageRequests /\ new.stage = "sent" /\ new.prepend = prepend /\ new.cursor = cursor
      /\ new.stale = stale /\ new.page = <<>> /\ new.next = 0 /\ new.seen = {}
  BY <1>2 DEF PageRequests, PageRequest
<1>4. /\ loading \in Seq(PageRequests) /\ Len(loading) \in Nat /\ DOMAIN loading = 1..Len(loading)
      /\ \A n \in 1..Len(loading) : loading[n] \in PageRequests /\ LoadIsTrue(loading[n])
  BY DEF HistoryInv, HistoryTypeOK, LoadsAreTrue
<1> HIDE DEF new
<1>5. PICK aborted : aborted = AbortLoads
  OBVIOUS
<1>6. ASSUME NEW n \in 1..Len(loading)
      PROVE  /\ aborted[n] \in PageRequests
             /\ ~Live(aborted[n])
             /\ LoadIsTrue(aborted[n])'
  <2>1. PICK load : load = loading[n]
    OBVIOUS
  <2>2. load \in PageRequests /\ LoadIsTrue(load)
    BY <1>4, <2>1
  <2>3. aborted[n] = CASE load.stage = "sent" -> PageOver
                       [] load.stage = "answered" -> [load EXCEPT !.stale = TRUE]
                       [] OTHER -> load
    BY <1>4, <1>5, <2>1 DEF AbortLoads
  <2>4. CASE load.stage = "sent"
    <3>1. aborted[n] = PageOver
      BY <2>3, <2>4
    <3> QED
      BY <3>1, OverFacts DEF LoadIsTrue, Ascending, From
  <2>5. CASE load.stage = "answered"
    <3>1. PICK late : late = [load EXCEPT !.stale = TRUE]
      OBVIOUS
    <3>2. aborted[n] = late
      BY <2>3, <2>5, <3>1
    <3>3. /\ late \in PageRequests /\ late.stale /\ late.prepend = load.prepend
          /\ late.cursor = load.cursor /\ late.page = load.page /\ late.next = load.next
          /\ late.seen = load.seen
      BY <2>2, <3>1 DEF PageRequests
    <3> QED
      BY <1>1, <2>2, <3>2, <3>3 DEF LoadIsTrue, Live
  <2>6. CASE load.stage = "over"
    <3>1. aborted[n] = load
      BY <2>3, <2>6
    <3> QED
      BY <1>1, <2>2, <2>6, <3>1 DEF LoadIsTrue, Live
  <2> QED
    BY <2>2, <2>4, <2>5, <2>6 DEF PageRequests
<1>7. DOMAIN aborted = 1..Len(loading) /\ aborted \in Seq(PageRequests) /\ Len(aborted) = Len(loading)
  <2>1. DOMAIN aborted = 1..Len(loading) /\ aborted = [n \in 1..Len(loading) |-> aborted[n]]
    BY <1>4, <1>5 DEF AbortLoads
  <2> QED
    BY <1>4, <1>6, <2>1
<1>8. loading' = Append(aborted, new)
  BY <1>5 DEF LoadMessages, new
<1>9. /\ loading' \in Seq(PageRequests) /\ DOMAIN loading' = 1..(Len(loading) + 1)
      /\ \A n \in 1..Len(loading) : loading'[n] = aborted[n]
      /\ loading'[Len(loading) + 1] = new
  BY <1>3, <1>4, <1>7, <1>8
<1>10. HistoryTypeOK'
  BY <1>1, <1>2, <1>9 DEF HistoryInv, HistoryTypeOK
<1>11. LoadIsTrue(new)'
  BY <1>3 DEF LoadIsTrue, Live, Ascending, From
<1>12. LoadsAreTrue'
  <2>1. ASSUME NEW n \in DOMAIN loading' PROVE LoadIsTrue(loading[n])'
    <3>1. CASE n \in 1..Len(loading)
      BY <1>6, <1>9, <3>1
    <3>2. CASE n = Len(loading) + 1
      BY <1>9, <1>11, <3>2
    <3> QED
      BY <1>4, <1>9, <3>1, <3>2
  <2>2. \A n \in DOMAIN loading' : Live(loading'[n]) => n = Len(loading) + 1
    BY <1>4, <1>6, <1>9
  <2> QED
    BY <2>1, <2>2 DEF LoadsAreTrue, Live
<1>13. FailureIsTrue'
  BY DEF HistoryInv, FailureIsTrue
<1>14. PaneIsKnown'
  BY <1>1 DEF HistoryInv, PaneIsKnown
<1>15. ASSUME ~shuffled' PROVE PaneIsWhole'
  <2>1. PaneIsWhole
    BY <1>15 DEF HistoryInv
  <2>2. \A k \in DOMAIN pane : pane[k].id \in Nat
    BY PaneFacts
  <2>3. \A id : Placed(id)' <=> Placed(id)
    BY <1>1 DEF Placed
  <2> QED
    BY <2>1, <2>2, <2>3 DEF PaneIsWhole
<1> QED
  BY <1>10, <1>12, <1>13, <1>14, <1>15 DEF HistoryInv

\* One load goes on, from what was true of it.
LEMMA LoadGoesOn ==
    ASSUME HistoryInv, NEW n \in DOMAIN loading, NEW load \in PageRequests,
           loading' = [loading EXCEPT ![n] = load],
           UNCHANGED <<table, pane, messageCursor, atLoad, replied, shuffled, asked>>,
           LoadIsTrue(load), Live(load) => Live(loading[n]),
           failure' \in Retries \cup {NothingFailed}, FailureIsTrue'
    PROVE  HistoryInv'
<1>1. /\ loading \in Seq(PageRequests) /\ DOMAIN loading = 1..Len(loading)
      /\ \A m \in DOMAIN loading : loading[m] \in PageRequests /\ LoadIsTrue(loading[m])
  BY DEF HistoryInv, HistoryTypeOK, LoadsAreTrue
<1>2. /\ loading' \in Seq(PageRequests) /\ DOMAIN loading' = DOMAIN loading /\ loading'[n] = load
      /\ \A m \in DOMAIN loading : m # n => loading'[m] = loading[m]
  BY <1>1
<1>3. Store!Visible' = Store!Visible
  BY DEF Store!Visible
<1>4. HistoryTypeOK'
  BY <1>2, <1>3 DEF HistoryInv, HistoryTypeOK
<1>5. \A c : LoadIsTrue(c)' <=> LoadIsTrue(c)
  BY <1>3 DEF LoadIsTrue
<1>6. LoadsAreTrue'
  <2>1. ASSUME NEW m \in DOMAIN loading' PROVE LoadIsTrue(loading[m])'
    BY <1>1, <1>2, <1>5
  <2>2. \A m \in DOMAIN loading' : Live(loading'[m]) => Live(loading[m])
    BY <1>2
  <2> QED
    BY <1>2, <2>1, <2>2 DEF HistoryInv, LoadsAreTrue, Live
<1>7. PaneIsKnown' /\ (~shuffled => PaneIsWhole)'
  BY DEF HistoryInv, PaneIsKnown, PaneIsWhole, Placed
<1> QED
  BY <1>4, <1>6, <1>7 DEF HistoryInv

\* What the server answers is a page of the table.
LEMMA PageServed ==
    ASSUME HistoryInv, NEW n \in DOMAIN loading, ServeMessages(n)
    PROVE  HistoryInv'
<1>1. PICK old : old = loading[n]
  OBVIOUS
<1>2. PICK c : c = old.cursor
  OBVIOUS
<1>3. PICK ordered : ordered = InOrder(Store!PageOf(c))
  OBVIOUS
<1>4. PICK page : page = [k \in DOMAIN ordered |-> Message(ordered[k])]
  OBVIOUS
<1>5. PICK next : next = IF Cardinality(Store!Fetched(c)) > HistoryPage
                         THEN Store!NextCursor(c) ELSE 0
  OBVIOUS
<1>6. PICK load : load = [old EXCEPT !.stage = "answered", !.page = page, !.next = next,
                                     !.seen = Store!Visible]
  OBVIOUS
<1>7. /\ old.stage = "sent"
      /\ loading' = [loading EXCEPT ![n] = load]
      /\ UNCHANGED <<table, pane, messageCursor, atLoad, replied, shuffled, asked, failure>>
  BY <1>1, <1>2, <1>3, <1>4, <1>5, <1>6 DEF ServeMessages, paneVars, askVars
<1>8. old \in PageRequests /\ LoadIsTrue(old) /\ c \in 0..LastRow
  BY <1>1, <1>2, LoadFacts
<1>9. /\ page \in Seq(RowMessages) /\ next \in 0..LastRow
      /\ Ascending(page) /\ From(page, next)
      /\ next # 0 => Shows(page, next)
      /\ c # 0 => \A k \in DOMAIN page : page[k].id < c
      /\ \A i \in Store!Visible : c = 0 \/ i < c => Shows(page, i) \/ i < next
  BY <1>3, <1>4, <1>5, <1>8, PageListed
<1>10. Store!Visible \in SUBSET Store!MessageIds
  BY MessageFacts
<1>11. /\ load \in PageRequests /\ load.stage = "answered" /\ load.prepend = old.prepend
       /\ load.cursor = c /\ load.stale = old.stale /\ load.page = page /\ load.next = next
       /\ load.seen = Store!Visible
  BY <1>2, <1>6, <1>8, <1>9, <1>10 DEF PageRequests
<1>12. Live(load) => Live(old)
  BY <1>7, <1>11 DEF Live
<1>13. atLoad \subseteq Store!Visible
  BY DEF HistoryInv, HistoryTypeOK
<1>14. LoadIsTrue(load)
  BY <1>2, <1>8, <1>9, <1>11, <1>12, <1>13 DEF LoadIsTrue
<1>15. failure' \in Retries \cup {NothingFailed} /\ FailureIsTrue'
  BY <1>7 DEF HistoryInv, HistoryTypeOK, FailureIsTrue
<1> QED
  BY <1>1, <1>7, <1>11, <1>12, <1>14, <1>15, LoadGoesOn

\* A load that fails can be tried again.
LEMMA LoadFailed ==
    ASSUME HistoryInv, NEW n \in DOMAIN loading, MessagesFail(n)
    PROVE  HistoryInv'
<1>1. PICK old : old = loading[n]
  OBVIOUS
<1>2. /\ UNCHANGED <<table, pane, messageCursor, atLoad, replied, shuffled, asked>>
      /\ loading' = [loading EXCEPT ![n] = PageOver]
      /\ failure' = [prepend |-> old.prepend, cursor |-> old.cursor]
  BY <1>1 DEF MessagesFail, paneVars
<1>3. old \in PageRequests /\ LoadIsTrue(old)
  BY <1>1 DEF HistoryInv, HistoryTypeOK, LoadsAreTrue
<1>4. LoadIsTrue(PageOver)
  BY OverFacts DEF LoadIsTrue, Ascending, From
<1>5. failure' \in Retries
  BY <1>2, <1>3 DEF Retries, PageRequests
<1>6. FailureIsTrue'
  BY <1>2, <1>3 DEF FailureIsTrue, LoadIsTrue
<1> QED
  BY <1>2, <1>4, <1>5, <1>6, OverFacts, LoadGoesOn

\* The page before the cursor is put in front of the pane.
LEMMA PanePrepended ==
    ASSUME HistoryInv, ~shuffled, NEW n \in DOMAIN loading, NEW load, load = loading[n],
           load.stage = "answered", load.prepend, ~load.stale,
           pane' = MergeUnique(load.page, pane), messageCursor' = load.next,
           UNCHANGED <<table, atLoad, replied>>
    PROVE  PaneIsWhole'
<1>1. PICK page : page = load.page
  OBVIOUS
<1>2. PICK next : next = load.next
  OBVIOUS
<1>3. /\ page \in Seq(RowMessages) /\ next \in 0..LastRow /\ LoadIsTrue(load)
  BY <1>1, <1>2, LoadFacts
<1>4. /\ Ascending(page) /\ From(page, next)
      /\ next # 0 => Shows(page, next)
      /\ \A k \in DOMAIN page : page[k].id < messageCursor
      /\ \A i \in atLoad : i < messageCursor => Shows(page, i) \/ i < next
  BY <1>1, <1>2, <1>3 DEF LoadIsTrue, Live
<1>5. PaneIsWhole /\ PaneIsKnown /\ messageCursor \in 0..LastRow /\ LastRow \in Nat
  BY MessageFacts DEF HistoryInv, HistoryTypeOK
<1>6. \A k \in DOMAIN page : page[k] \in RowMessages
  BY <1>3
<1>7. \A k \in DOMAIN page :
         page[k].id \in Store!MessageIds /\ page[k].id \in Int /\ page[k] = Message(page[k].id)
  BY <1>6, MessageFacts
<1>8. page \in Seq(Texts) /\ pane \in Seq(Texts)
  <2>1. RowMessages \subseteq Texts
    BY MessageFacts
  <2> QED
    BY <1>3, <2>1, PaneFacts
<1>9. PICK merged : merged = MergeUnique(page, pane)
  OBVIOUS
<1>10. pane' = merged
  BY <1>1, <1>9
<1>11. Joins(merged, page, pane)
  BY <1>8, <1>9, Merged
<1>12. \A k \in DOMAIN pane : pane[k].id \in Nat
  BY PaneFacts
<1>13. ASSUME NEW a \in DOMAIN page, NEW b \in DOMAIN pane,
              \A c \in DOMAIN page : page[c] # pane[b]
       PROVE  page[a].id # pane[b].id /\ (Placed(pane[b].id) => page[a].id < pane[b].id)
  <2>1. page[a].id # pane[b].id
    <3> SUFFICES ASSUME page[a].id = pane[b].id PROVE FALSE
      OBVIOUS
    <3>1. pane[b] = Message(pane[b].id)
      BY <1>5, <1>7 DEF PaneIsKnown
    <3>2. page[a] = pane[b]
      BY <1>7, <3>1
    <3> QED
      BY <1>13, <3>2
  <2>2. ASSUME Placed(pane[b].id) PROVE page[a].id < pane[b].id
    <3>1. messageCursor <= pane[b].id
      BY <1>5, <2>2 DEF PaneIsWhole
    <3>2. page[a].id < messageCursor /\ page[a].id \in Int /\ pane[b].id \in Int /\ messageCursor \in Int
      BY <1>4, <1>5, <1>7, <1>12
    <3> QED
      BY <3>1, <3>2
  <2> QED
    BY <2>1, <2>2
<1>14. ASSUME NEW j \in DOMAIN merged, NEW k \in DOMAIN merged, j < k
       PROVE  /\ merged[j].id # merged[k].id
              /\ Placed(merged[j].id) /\ Placed(merged[k].id) => merged[j].id < merged[k].id
  <2>1. CASE \E a, b \in DOMAIN page : a < b /\ merged[j] = page[a] /\ merged[k] = page[b]
    <3>1. PICK a \in DOMAIN page, b \in DOMAIN page :
             a < b /\ merged[j] = page[a] /\ merged[k] = page[b]
      BY <2>1
    <3>2. page[a].id < page[b].id /\ page[a].id \in Int /\ page[b].id \in Int
      BY <1>4, <1>7, <3>1 DEF Ascending
    <3> QED
      BY <3>1, <3>2
  <2>2. CASE \E a \in DOMAIN page, b \in DOMAIN pane :
                /\ merged[j] = page[a] /\ merged[k] = pane[b]
                /\ \A c \in DOMAIN page : page[c] # pane[b]
    BY <1>13, <2>2
  <2>3. CASE \E a, b \in DOMAIN pane : a < b /\ merged[j] = pane[a] /\ merged[k] = pane[b]
    BY <1>5, <2>3 DEF PaneIsWhole
  <2> QED
    BY <1>11, <1>14, <2>1, <2>2, <2>3 DEF Joins
<1>15. next = 0 \/ next < messageCursor
  <2> SUFFICES ASSUME next # 0 PROVE next < messageCursor
    OBVIOUS
  <2>1. PICK k \in DOMAIN page : page[k] = Message(next)
    BY <1>4 DEF Shows
  <2>2. page[k].id = next
    BY <2>1, MessageFacts
  <2> QED
    BY <1>4, <2>2
<1>16. ASSUME NEW k \in DOMAIN merged, Placed(merged[k].id) PROVE next <= merged[k].id
  <2>1. CASE \E a \in DOMAIN page : merged[k] = page[a]
    BY <1>4, <2>1 DEF From
  <2>2. CASE \E a \in DOMAIN pane : merged[k] = pane[a]
    <3>1. PICK a \in DOMAIN pane : merged[k] = pane[a]
      BY <2>2
    <3>2. messageCursor <= pane[a].id /\ pane[a].id \in Nat
      BY <1>5, <1>12, <1>16, <3>1 DEF PaneIsWhole
    <3>3. next \in Nat /\ messageCursor \in Nat
      BY <1>3, <1>5
    <3> QED
      BY <1>15, <3>1, <3>2, <3>3
  <2> QED
    BY <1>11, <2>1, <2>2 DEF Joins
<1>17. ASSUME NEW i \in atLoad PROVE i < next \/ Shows(merged, i)
  <2>1. Shows(page, i) => Shows(merged, i)
    BY <1>11 DEF Joins, Shows
  <2>2. Shows(pane, i) => Shows(merged, i)
    BY <1>11 DEF Joins, Shows
  <2> QED
    BY <1>4, <1>5, <2>1, <2>2 DEF PaneIsWhole
<1>18. \A id : Placed(id)' <=> Placed(id)
  BY DEF Placed, Store!MessageIds
<1> QED
  BY <1>2, <1>10, <1>14, <1>16, <1>17, <1>18 DEF PaneIsWhole, Shows

\* The newest page replaces the pane.
LEMMA PaneReplaced ==
    ASSUME HistoryInv, NEW n \in DOMAIN loading, NEW load, load = loading[n],
           load.stage = "answered", ~load.prepend, ~load.stale,
           pane' = IF load.page = <<>> THEN InitialMessages ELSE load.page,
           messageCursor' = load.next, atLoad' = load.seen
    PROVE  PaneIsWhole'
<1>1. /\ load.page \in Seq(RowMessages) /\ load.next \in 0..LastRow /\ LoadIsTrue(load)
      /\ load.seen \subseteq Store!MessageIds
  BY LoadFacts
<1>2. /\ Ascending(load.page) /\ From(load.page, load.next)
      /\ \A i \in load.seen : Shows(load.page, i) \/ i < load.next
  BY <1>1 DEF LoadIsTrue, Live
<1>3. LastRow \in Nat /\ Store!MessageIds = 1..LastRow /\ Store!MessageIds' = Store!MessageIds
  BY MessageFacts DEF Store!MessageIds
<1>4. CASE load.page = <<>>
  <2>1. pane' = InitialMessages
    BY <1>4
  <2>2. DOMAIN pane' = {1} /\ pane'[1].id = LastRow + 1
    BY <2>1 DEF InitialMessages
  <2>3. ~Placed(pane[1].id)'
    BY <1>3, <2>2 DEF Placed
  <2>4. \A i \in load.seen : i < load.next
    BY <1>2, <1>4 DEF Shows
  <2> QED
    BY <2>2, <2>3, <2>4 DEF PaneIsWhole
<1>5. CASE load.page # <<>>
  <2>1. pane' = load.page
    BY <1>5
  <2>2. \A k \in DOMAIN load.page : load.page[k] \in RowMessages
    BY <1>1
  <2>3. \A k \in DOMAIN load.page : load.page[k].id \in Int
    BY <2>2, MessageFacts
  <2>4. ASSUME NEW j \in DOMAIN load.page, NEW k \in DOMAIN load.page, j < k
        PROVE  load.page[j].id < load.page[k].id /\ load.page[j].id # load.page[k].id
    BY <1>2, <2>3, <2>4 DEF Ascending
  <2> QED
    BY <1>2, <2>1, <2>4 DEF PaneIsWhole, From, Shows
<1> QED
  BY <1>4, <1>5

\* The page a load brings is put in its place, whatever it is.
LEMMA PaneStaysKnown ==
    ASSUME HistoryInv, NEW n \in DOMAIN loading, NEW load, load = loading[n], asked' = asked,
           \/ pane' = MergeUnique(load.page, pane)
           \/ pane' = IF load.page = <<>> THEN InitialMessages ELSE load.page
    PROVE  pane' \in Seq(Texts) /\ PaneIsKnown'
<1>1. LastRow \in Nat /\ Store!MessageIds = 1..LastRow /\ Store!MessageIds' = Store!MessageIds /\ asked \in Nat
      /\ RowMessages \subseteq Texts
  BY MessageFacts DEF Store!MessageIds, HistoryInv, HistoryTypeOK
<1> DEFINE Known(m) == m.id <= LastRow + asked + 1 /\ (m.id \in Store!MessageIds => m = Message(m.id))
<1>2. load.page \in Seq(RowMessages)
  BY LoadFacts
<1>3. load.page \in Seq(Texts) /\ \A k \in DOMAIN load.page : load.page[k] \in RowMessages
  BY <1>1, <1>2
<1>4. \A k \in DOMAIN load.page : Known(load.page[k])
  <2> SUFFICES ASSUME NEW m \in RowMessages PROVE Known(m)
    BY <1>3
  <2>1. m.id \in Store!MessageIds /\ m = Message(m.id)
    BY MessageFacts
  <2> QED
    BY <1>1, <2>1
<1>5. pane \in Seq(Texts) /\ \A k \in DOMAIN pane : Known(pane[k])
  BY PaneFacts DEF HistoryInv, PaneIsKnown
<1> HIDE DEF Known
<1>6. pane' \in Seq(Texts) /\ \A k \in DOMAIN pane' : Known(pane'[k])
  <2>1. CASE pane' = MergeUnique(load.page, pane)
    <3>1. PICK merged : merged = MergeUnique(load.page, pane)
      OBVIOUS
    <3>2. merged \in Seq(Texts) /\ Joins(merged, load.page, pane)
      BY <1>3, <1>5, <3>1, Merged
    <3> QED
      BY <1>4, <1>5, <2>1, <3>1, <3>2 DEF Joins
  <2>2. CASE pane' = InitialMessages
    <3>1. PICK welcome : welcome = [id |-> LastRow + 1, role |-> "assistant"]
      OBVIOUS
    <3>2. welcome \in Texts /\ Known(welcome)
      BY <1>1, <3>1 DEF Texts, Known
    <3>3. pane' = <<welcome>>
      BY <2>2, <3>1 DEF InitialMessages
    <3> QED
      BY <3>2, <3>3
  <2>3. CASE pane' = load.page
    BY <1>3, <1>4, <2>3
  <2> QED
    BY <2>1, <2>2, <2>3
<1> QED
  BY <1>1, <1>6 DEF PaneIsKnown, Known

\* So the pane stays whole when a load is answered.
LEMMA LoadArrived ==
    ASSUME HistoryInv, NEW n \in DOMAIN loading, MessagesArrive(n)
    PROVE  HistoryInv'
<1>1. PICK load : load = loading[n]
  OBVIOUS
<1>2. /\ UNCHANGED <<table, failure, asked>>
      /\ loading' = [loading EXCEPT ![n] = PageOver]
      /\ load.stage = "answered"
      /\ messageCursor' = load.next
  BY <1>1 DEF MessagesArrive, askVars
<1>3. /\ loading \in Seq(PageRequests) /\ DOMAIN loading = 1..Len(loading)
      /\ \A m \in DOMAIN loading : loading[m] \in PageRequests /\ LoadIsTrue(loading[m])
      /\ \A m \in DOMAIN loading : Live(loading[m]) /\ Live(load) => m = n
  BY <1>1 DEF HistoryInv, HistoryTypeOK, LoadsAreTrue
<1>4. /\ loading' \in Seq(PageRequests) /\ DOMAIN loading' = DOMAIN loading /\ loading'[n] = PageOver
      /\ \A m \in DOMAIN loading : m # n => loading'[m] = loading[m]
  BY <1>2, <1>3, OverFacts
<1>5. /\ LoadIsTrue(load) /\ load.next \in 0..LastRow /\ load.seen \subseteq Store!Visible
      /\ load.prepend \in BOOLEAN /\ load.stale \in BOOLEAN
  BY <1>1, LoadFacts DEF LoadIsTrue
<1>6. Store!Visible' = Store!Visible /\ Store!MessageIds' = Store!MessageIds
  BY <1>2 DEF Store!Visible, Store!MessageIds
<1>7. /\ ~shuffled' => Live(load)
      /\ ~shuffled' /\ load.prepend => ~shuffled
      /\ atLoad' \subseteq Store!Visible /\ replied' \subseteq Store!MessageIds
  <2>1. CASE load.prepend
    BY <1>1, <1>2, <2>1 DEF MessagesArrive, Live, HistoryInv, HistoryTypeOK
  <2>2. CASE ~load.prepend
    BY <1>1, <1>2, <1>5, <2>2 DEF MessagesArrive, Live
  <2> QED
    BY <2>1, <2>2
<1>8. pane' \in Seq(Texts) /\ PaneIsKnown'
  <2>1. \/ pane' = MergeUnique(load.page, pane)
        \/ pane' = IF load.page = <<>> THEN InitialMessages ELSE load.page
    BY <1>1 DEF MessagesArrive
  <2> QED
    BY <1>1, <1>2, <2>1, PaneStaysKnown
<1>9. HistoryTypeOK'
  BY <1>2, <1>4, <1>5, <1>6, <1>7, <1>8 DEF HistoryInv, HistoryTypeOK
<1>10. LoadsAreTrue'
  <2>1. LoadIsTrue(PageOver)'
    BY OverFacts DEF LoadIsTrue, Ascending, From
  <2>2. ASSUME NEW m \in DOMAIN loading', m # n PROVE LoadIsTrue(loading[m])'
    <3>1. PICK other : other = loading[m]
      OBVIOUS
    <3>2. loading'[m] = other /\ LoadIsTrue(other) /\ (Live(other) => ~Live(load))
      BY <1>3, <1>4, <2>2, <3>1
    <3>3. LoadIsTrue(other)'
      BY <1>6, <1>7, <3>2 DEF LoadIsTrue
    <3> QED
      BY <3>2, <3>3
  <2>3. ASSUME NEW m \in DOMAIN loading' PROVE LoadIsTrue(loading[m])'
    BY <1>4, <2>1, <2>2
  <2>4. \A m \in DOMAIN loading' : Live(loading'[m]) => Live(loading[m]) /\ m # n
    BY <1>4, OverFacts
  <2> QED
    BY <1>4, <2>3, <2>4 DEF HistoryInv, LoadsAreTrue, Live
<1>11. FailureIsTrue'
  BY <1>2 DEF HistoryInv, FailureIsTrue
<1>12. ASSUME ~shuffled' PROVE PaneIsWhole'
  <2>1. ~load.stale
    BY <1>7, <1>12 DEF Live
  <2>2. CASE load.prepend
    <3>1. /\ pane' = MergeUnique(load.page, pane)
          /\ UNCHANGED <<table, atLoad, replied>>
      BY <1>1, <1>2, <2>2 DEF MessagesArrive
    <3>2. ~shuffled
      BY <1>7, <1>12, <2>2
    <3> QED
      BY <1>1, <1>2, <2>1, <2>2, <3>1, <3>2, PanePrepended
  <2>3. CASE ~load.prepend
    <3>1. /\ pane' = IF load.page = <<>> THEN InitialMessages ELSE load.page
          /\ atLoad' = load.seen
      BY <1>1, <2>3 DEF MessagesArrive
    <3> QED
      BY <1>1, <1>2, <2>1, <2>3, <3>1, PaneReplaced
  <2> QED
    BY <2>2, <2>3
<1> QED
  BY <1>8, <1>9, <1>10, <1>11, <1>12 DEF HistoryInv

\* A question of this tab has an id that no other message has.
LEMMA QuestionAppended ==
    ASSUME HistoryInv, Send
    PROVE  HistoryInv'
<1>1. PICK question : question = Question(asked + 1)
  OBVIOUS
<1>2. /\ pane' = Append(pane, question) /\ asked' = asked + 1 /\ failure' = NothingFailed
      /\ UNCHANGED <<table, loading, messageCursor, atLoad, replied, shuffled>>
  BY <1>1 DEF Send
<1>3. LastRow \in Nat /\ Store!MessageIds = 1..LastRow /\ Store!MessageIds' = Store!MessageIds /\ asked \in Nat
      /\ Store!Visible' = Store!Visible
  BY <1>2, MessageFacts DEF Store!MessageIds, Store!Visible, HistoryInv, HistoryTypeOK
<1>4. /\ question \in Texts /\ question.id = LastRow + asked + 2
      /\ question.id \in Nat /\ question.id \notin Store!MessageIds
  BY <1>1, <1>3 DEF Question, Texts
<1>5. /\ pane \in Seq(Texts) /\ Len(pane) \in Nat /\ DOMAIN pane = 1..Len(pane)
      /\ \A k \in DOMAIN pane : pane[k].id \in Nat
  BY PaneFacts
<1>6. PICK len \in Nat : len = Len(pane)
  BY <1>5
<1>7. /\ pane' \in Seq(Texts) /\ DOMAIN pane' = 1..(len + 1) /\ DOMAIN pane = 1..len
      /\ pane'[len + 1] = question /\ \A k \in 1..len : pane'[k] = pane[k]
  BY <1>2, <1>4, <1>5, <1>6
<1>8. \A k \in 1..len :
         /\ pane[k].id \in Nat /\ pane[k].id <= LastRow + asked + 1
         /\ pane[k].id \in Store!MessageIds => pane[k] = Message(pane[k].id)
  BY <1>5, <1>7 DEF HistoryInv, PaneIsKnown
<1>9. \A k \in 1..(len + 1) : k \in 1..len \/ k = len + 1
  OBVIOUS
<1>10. HistoryTypeOK'
  BY <1>2, <1>3, <1>7 DEF HistoryInv, HistoryTypeOK
<1>11. PaneIsKnown'
  <2>1. ASSUME NEW k \in 1..(len + 1)
        PROVE  /\ pane'[k].id <= LastRow + asked' + 1
               /\ pane'[k].id \in Store!MessageIds => pane'[k] = Message(pane'[k].id)
    <3>1. CASE k \in 1..len
      BY <1>2, <1>3, <1>7, <1>8, <3>1
    <3>2. CASE k = len + 1
      BY <1>2, <1>3, <1>4, <1>7, <3>2
    <3> QED
      BY <1>9, <3>1, <3>2
  <2> QED
    BY <1>3, <1>7, <2>1 DEF PaneIsKnown
<1>12. LoadsAreTrue' /\ FailureIsTrue'
  BY <1>2, <1>3 DEF HistoryInv, LoadsAreTrue, LoadIsTrue, FailureIsTrue
<1>13. ASSUME ~shuffled' PROVE PaneIsWhole'
  <2>1. PaneIsWhole
    BY <1>2, <1>13 DEF HistoryInv
  <2>2. \A id : Placed(id)' <=> Placed(id)
    BY <1>2, <1>3 DEF Placed
  <2>3. ~Placed(question.id)
    BY <1>4 DEF Placed
  <2>4. ASSUME NEW j \in 1..(len + 1), NEW k \in 1..(len + 1), j < k
        PROVE  /\ pane'[j].id # pane'[k].id
               /\ Placed(pane'[j].id) /\ Placed(pane'[k].id) => pane'[j].id < pane'[k].id
    <3>1. j \in 1..len
      BY <2>4
    <3>2. CASE k \in 1..len
      BY <1>7, <2>1, <2>4, <3>1, <3>2 DEF PaneIsWhole
    <3>3. CASE k = len + 1
      <4>1. pane'[k] = question /\ pane'[j] = pane[j] /\ pane[j].id <= LastRow + asked + 1
            /\ pane[j].id \in Nat
        BY <1>7, <1>8, <3>1, <3>3
      <4>2. pane[j].id # question.id
        BY <1>3, <1>4, <4>1
      <4> QED
        BY <2>3, <4>1, <4>2
    <3> QED
      BY <1>9, <3>2, <3>3
  <2>5. ASSUME NEW k \in 1..(len + 1), Placed(pane'[k].id) PROVE messageCursor <= pane'[k].id
    BY <1>7, <1>9, <2>1, <2>3, <2>5 DEF PaneIsWhole
  <2>6. ASSUME NEW i \in atLoad PROVE i < messageCursor \/ Shows(pane, i)'
    <3>1. Shows(pane, i) => Shows(pane, i)'
      <4> SUFFICES ASSUME NEW k \in DOMAIN pane, pane[k] = Message(i) PROVE Shows(pane, i)'
        BY DEF Shows
      <4>1. k \in DOMAIN pane' /\ pane'[k] = Message(i)
        BY <1>7
      <4> QED
        BY <4>1 DEF Shows
    <3> QED
      BY <2>1, <3>1 DEF PaneIsWhole
  <2> QED
    BY <1>2, <1>7, <2>2, <2>4, <2>5, <2>6 DEF PaneIsWhole
<1> QED
  BY <1>10, <1>11, <1>12, <1>13 DEF HistoryInv

\* The answer to one is appended, unless a load has shown it.
LEMMA AnswerAppended ==
    ASSUME HistoryInv, AnswersArrive
    PROVE  HistoryInv'
<1>1. PICK i \in Store!Visible : /\ pane' = MergeUnique(pane, <<Message(i)>>)
                                 /\ replied' = replied \cup {i}
  BY DEF AnswersArrive
<1>2. UNCHANGED <<table, loading, messageCursor, atLoad, shuffled, failure, asked>>
  BY DEF AnswersArrive
<1>3. LastRow \in Nat /\ Store!MessageIds = 1..LastRow /\ Store!MessageIds' = Store!MessageIds /\ asked \in Nat
      /\ Store!Visible' = Store!Visible /\ i \in Store!MessageIds
  BY <1>1, <1>2, MessageFacts DEF Store!MessageIds, Store!Visible, HistoryInv, HistoryTypeOK
<1>4. PICK answer : answer = <<Message(i)>>
  OBVIOUS
<1>5. answer \in Seq(Texts) /\ DOMAIN answer = {1} /\ answer[1] = Message(i) /\ Message(i).id = i
  <2>1. Message(i) \in Texts /\ Message(i).id = i
    BY <1>3, MessageFacts
  <2> QED
    BY <1>4, <2>1
<1>6. PICK merged : merged = MergeUnique(pane, answer)
  OBVIOUS
<1>7. merged \in Seq(Texts) /\ Joins(merged, pane, answer) /\ pane' = merged
  <2>1. pane \in Seq(Texts)
    BY PaneFacts
  <2>2. pane' = merged
    BY <1>1, <1>4, <1>6
  <2> QED
    BY <1>5, <1>6, <2>1, <2>2, Merged
<1>8. \A k \in DOMAIN merged : (\E a \in DOMAIN pane : merged[k] = pane[a]) \/ merged[k] = Message(i)
  BY <1>5, <1>7 DEF Joins
<1>9. PaneIsKnown
  BY DEF HistoryInv
<1>10. HistoryTypeOK'
  BY <1>1, <1>2, <1>3, <1>7 DEF HistoryInv, HistoryTypeOK
<1>11. PaneIsKnown'
  <2>1. ASSUME NEW k \in DOMAIN merged
        PROVE  /\ merged[k].id <= LastRow + asked + 1
               /\ merged[k].id \in Store!MessageIds => merged[k] = Message(merged[k].id)
    <3>1. CASE \E a \in DOMAIN pane : merged[k] = pane[a]
      BY <1>9, <3>1 DEF PaneIsKnown
    <3>2. CASE merged[k] = Message(i)
      BY <1>3, <1>5, <3>2
    <3> QED
      BY <1>8, <3>1, <3>2
  <2> QED
    BY <1>2, <1>3, <1>7, <2>1 DEF PaneIsKnown
<1>12. LoadsAreTrue' /\ FailureIsTrue'
  BY <1>2, <1>3 DEF HistoryInv, LoadsAreTrue, LoadIsTrue, FailureIsTrue
<1>13. ASSUME ~shuffled' PROVE PaneIsWhole'
  <2>1. PaneIsWhole
    BY <1>2, <1>13 DEF HistoryInv
  <2>2. \A id : Placed(id)' => Placed(id) /\ id # i
    BY <1>1, <1>3 DEF Placed
  <2>3. ASSUME NEW j \in DOMAIN merged, NEW k \in DOMAIN merged, j < k
        PROVE  /\ merged[j].id # merged[k].id
               /\ Placed(merged[j].id)' /\ Placed(merged[k].id)' => merged[j].id < merged[k].id
    <3>1. CASE \E a, b \in DOMAIN pane : a < b /\ merged[j] = pane[a] /\ merged[k] = pane[b]
      <4>1. PICK a \in DOMAIN pane, b \in DOMAIN pane :
               a < b /\ merged[j] = pane[a] /\ merged[k] = pane[b]
        BY <3>1
      <4>2. /\ pane[a].id # pane[b].id
            /\ Placed(pane[a].id) /\ Placed(pane[b].id) => pane[a].id < pane[b].id
        BY <2>1, <4>1 DEF PaneIsWhole
      <4> QED
        BY <2>2, <4>1, <4>2
    <3>2. CASE \E a \in DOMAIN pane, b \in DOMAIN answer :
                  /\ merged[j] = pane[a] /\ merged[k] = answer[b]
                  /\ \A c \in DOMAIN pane : pane[c] # answer[b]
      <4>1. PICK a \in DOMAIN pane : merged[j] = pane[a] /\ merged[k] = Message(i)
                                     /\ pane[a] # Message(i)
        BY <1>5, <3>2
      <4>2. pane[a].id # i
        BY <1>3, <1>9, <4>1 DEF PaneIsKnown
      <4> QED
        BY <1>5, <2>2, <4>1, <4>2
    <3>3. CASE \E a, b \in DOMAIN answer : a < b /\ merged[j] = answer[a] /\ merged[k] = answer[b]
      BY <1>5, <3>3
    <3> QED
      BY <1>7, <2>3, <3>1, <3>2, <3>3 DEF Joins
  <2>4. ASSUME NEW k \in DOMAIN merged, Placed(merged[k].id)' PROVE messageCursor <= merged[k].id
    <3>1. merged[k].id # i /\ Placed(merged[k].id)
      BY <2>2, <2>4
    <3>2. PICK a \in DOMAIN pane : merged[k] = pane[a]
      BY <1>5, <1>8, <3>1
    <3> QED
      BY <2>1, <3>1, <3>2 DEF PaneIsWhole
  <2>5. ASSUME NEW h \in atLoad PROVE h < messageCursor \/ Shows(merged, h)
    <3>1. Shows(pane, h) => Shows(merged, h)
      BY <1>7 DEF Joins, Shows
    <3> QED
      BY <2>1, <3>1 DEF PaneIsWhole
  <2> QED
    BY <1>2, <1>7, <2>3, <2>4, <2>5 DEF PaneIsWhole, Shows
<1> QED
  BY <1>10, <1>11, <1>12, <1>13 DEF HistoryInv

\* Rows stay visible.
LEMMA RowsStay ==
    ASSUME HistoryInv, UNCHANGED <<loading, pane, messageCursor, atLoad, replied, shuffled, asked>>,
           failure' \in {failure, NothingFailed},
           TableChanges \/ UNCHANGED table
    PROVE  HistoryInv'
<1>1. table \in [Store!MessageIds -> {"free", "inserting", "visible", "elsewhere"}]
  BY DEF HistoryInv, HistoryTypeOK
<1>2. /\ table' \in [Store!MessageIds -> {"free", "inserting", "visible", "elsewhere"}]
      /\ \A i \in Store!MessageIds : table[i] = "visible" => table'[i] = "visible"
  BY <1>1 DEF TableChanges, Store!Insert, Store!Finish
<1>3. Store!MessageIds' = Store!MessageIds
  BY DEF Store!MessageIds
<1>4. Store!Visible \subseteq Store!Visible'
  BY <1>2, <1>3 DEF Store!Visible
<1>5. HistoryTypeOK'
  BY <1>2, <1>3, <1>4 DEF HistoryInv, HistoryTypeOK
<1>6. \A load : LoadIsTrue(load) => LoadIsTrue(load)'
  BY <1>4 DEF LoadIsTrue
<1>7. LoadsAreTrue'
  BY <1>6 DEF HistoryInv, LoadsAreTrue
<1>8. PaneIsKnown' /\ FailureIsTrue' /\ (~shuffled => PaneIsWhole)'
  BY <1>3 DEF HistoryInv, PaneIsKnown, FailureIsTrue, PaneIsWhole, Placed
<1> QED
  BY <1>5, <1>7, <1>8 DEF HistoryInv

\* Loads, answers, failures, questions and inserts keep it.
THEOREM HistoryInvPreserved == HistoryInv /\ [HistoryNext]_historyVars => HistoryInv'
<1> SUFFICES ASSUME HistoryInv, [HistoryNext]_historyVars PROVE HistoryInv'
  OBVIOUS
<1>1. LastRow \in Nat /\ messageCursor \in 0..LastRow /\ 0 \in 0..LastRow
  BY MessageFacts DEF HistoryInv, HistoryTypeOK
<1>2. CASE Select
  BY <1>1, <1>2, LoadStarts DEF Select, askVars
<1>3. CASE LoadOlder
  BY <1>1, <1>3, LoadStarts DEF LoadOlder, paneVars, askVars
<1>4. CASE RetryMessages
  <2>1. /\ failure.prepend \in BOOLEAN /\ failure.cursor \in 0..LastRow
        /\ failure.prepend <=> failure.cursor # 0
    BY <1>4 DEF RetryMessages, HistoryInv, HistoryTypeOK, FailureIsTrue, Retries
  <2>2. PICK stale : stale = (failure.prepend /\ failure.cursor # messageCursor)
    OBVIOUS
  <2>3. /\ LoadMessages(failure.prepend, failure.cursor, stale) /\ failure' = NothingFailed
        /\ UNCHANGED <<table, pane, messageCursor, atLoad, replied, shuffled, asked>>
    BY <1>4, <2>2 DEF RetryMessages, paneVars
  <2>4. stale \in BOOLEAN /\ (failure.prepend /\ ~stale => failure.cursor = messageCursor)
    BY <2>2
  <2> QED
    BY <2>1, <2>3, <2>4, LoadStarts
<1>5. ASSUME NEW n \in DOMAIN loading, ServeMessages(n) \/ MessagesArrive(n) \/ MessagesFail(n)
      PROVE  HistoryInv'
  BY <1>5, PageServed, LoadArrived, LoadFailed
<1>6. CASE Send
  BY <1>6, QuestionAppended
<1>7. CASE AnswersArrive
  BY <1>7, AnswerAppended
<1>8. CASE SendFails
  BY <1>8, RowsStay DEF SendFails, paneVars
<1>9. CASE TableChanges
  BY <1>9, RowsStay DEF TableChanges, paneVars, askVars
<1>10. CASE UNCHANGED historyVars
  BY <1>10, RowsStay DEF historyVars, paneVars, askVars
<1> QED
  BY <1>2, <1>3, <1>4, <1>5, <1>6, <1>7, <1>8, <1>9, <1>10 DEF HistoryNext

\* So it holds however loads, answers, failures and questions overtake each
\* other.
THEOREM HistoryInvariant == HistorySpec => []HistoryInv
BY HistoryInvInitially, HistoryInvPreserved, PTL DEF HistorySpec

\* HistoryIsWhole: the messages that ChatPage.jsx shows in their groups are
\* those of the conversation from the cursor on, in their order, each once and
\* none missing, whatever order the answers of loadMessages and sendMessage
\* come in, with the aborts, retries and failures of App.jsx.
THEOREM HistoryStaysWhole == HistorySpec => []HistoryIsWhole
<1>1. HistoryInv => HistoryIsWhole
  <2> SUFFICES ASSUME HistoryInv PROVE HistoryIsWhole
    OBVIOUS
  <2>1. PICK shown : shown = OnDisplay
    OBVIOUS
  <2>2. /\ \A k \in DOMAIN pane : \E p \in DOMAIN shown : shown[p] = pane[k]
        /\ \A p, q \in DOMAIN shown : Above(p, q) =>
              \E j, k \in DOMAIN pane : j < k /\ shown[p] = pane[j] /\ shown[q] = pane[k]
    BY <2>1, PaneFacts, Displayed
  <2>3. ASSUME ~shuffled, NEW p \in DOMAIN shown, NEW q \in DOMAIN shown, Above(p, q)
        PROVE  /\ shown[p].id # shown[q].id
               /\ {shown[p].id, shown[q].id} \subseteq Store!MessageIds \ replied
                    => shown[p].id < shown[q].id
    <3>1. PICK j \in DOMAIN pane, k \in DOMAIN pane :
             j < k /\ shown[p] = pane[j] /\ shown[q] = pane[k]
      BY <2>2, <2>3
    <3>2. /\ pane[j].id # pane[k].id
          /\ Placed(pane[j].id) /\ Placed(pane[k].id) => pane[j].id < pane[k].id
      BY <2>3, <3>1 DEF HistoryInv, PaneIsWhole
    <3> QED
      BY <3>1, <3>2 DEF Placed
  <2>4. ASSUME ~shuffled, NEW i \in atLoad
        PROVE  i < messageCursor \/ \E p \in DOMAIN shown : shown[p] = Message(i)
    BY <2>2, <2>4 DEF HistoryInv, PaneIsWhole, Shows
  <2> QED
    BY <2>1, <2>3, <2>4 DEF HistoryIsWhole
<1> QED
  BY <1>1, HistoryInvariant, PTL
=============================================================================
