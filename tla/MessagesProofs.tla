--------------------------- MODULE MessagesProofs ---------------------------
(***************************************************************************)
(* Retention, the shared read flag and the alerts, for any agents, tasks,  *)
(* limits and sizes of the box.                                            *)
(***************************************************************************)
EXTENDS Messages, FiniteSetTheorems, SequenceTheorems, WellFoundedInduction, TLAPS

-----------------------------------------------------------------------------
(***************************************************************************)
(* Retention.  In a box whose old messages come first, PruneMessages takes *)
(* a prefix, although it filters.                                          *)
(***************************************************************************)
OldFirst(ms) == \A i, j \in 1..Len(ms) : i <= j /\ ms[j].old => ms[i].old

\* A set of numbers has a least one.
LEMMA LeastNat ==
  ASSUME NEW S \in SUBSET Nat, S # {}
  PROVE  \E m \in S : \A x \in S : m <= x
<1>1. PICK m \in S : \A y \in S : ~ (<<y, m>> \in OpToRel(<, Nat))
  BY NatLessThanWellFounded, WFMin, Zenon
<1>2. \A y \in S : ~(y < m)
  BY <1>1, Zenon DEF OpToRel
<1> QED
  BY <1>2

\* The old messages end somewhere.
LEMMA OldIsPrefix ==
  ASSUME NEW ms \in Seq(Message), OldFirst(ms)
  PROVE  \E k \in 0..Len(ms) :
           /\ \A i \in 1..k : ms[i].old
           /\ \A i \in (k + 1)..Len(ms) : ~ms[i].old
<1> DEFINE kept == {i \in 1..Len(ms) : ~ms[i].old}
<1>1. CASE kept = {}
  BY <1>1
<1>2. CASE kept # {}
  <2>1. PICK m \in kept : \A i \in kept : m <= i
    <3>1. kept \in SUBSET Nat
      OBVIOUS
    <3> HIDE DEF kept
    <3> QED
      BY <1>2, <3>1, LeastNat
  <2>2. m - 1 \in 0..Len(ms) /\ \A i \in 1..(m - 1) : ms[i].old
    BY <2>1
  <2>3. \A i \in m..Len(ms) : ~ms[i].old
    BY <2>1 DEF OldFirst
  <2>4. (m - 1) + 1 = m
    BY <2>1
  <2> HIDE DEF kept
  <2> QED
    BY <2>2, <2>3, <2>4
<1> QED
  BY <1>1, <1>2

\* The size of an interval, as the filter counts it.
LEMMA IntervalSize ==
  ASSUME NEW a \in Nat, NEW b \in Nat, a <= b
  PROVE  Cardinality((a + 1)..b) = b - a
<1>1. a + 1 \in Int /\ b \in Int
  OBVIOUS
<1>2. Cardinality((a + 1)..b) = IF a + 1 > b THEN 0 ELSE b - (a + 1) + 1
  BY <1>1, FS_Interval, Zenon
<1> QED
  BY <1>2

\* The filter leaves a suffix.
LEMMA YoungIsSuffix ==
  ASSUME NEW ms \in Seq(Message), NEW k \in 0..Len(ms),
         \A i \in 1..k : ms[i].old,
         \A i \in (k + 1)..Len(ms) : ~ms[i].old
  PROVE  Young(ms) = SubSeq(ms, k + 1, Len(ms))
<1> DEFINE kept == {i \in 1..Len(ms) : ~ms[i].old}
<1> DEFINE nth(n) == CHOOSE i \in kept : Cardinality(kept \cap (1..i)) = n
<1>1. kept = (k + 1)..Len(ms)
  OBVIOUS
<1>2. Cardinality(kept) = Len(ms) - k
  <2>1. Cardinality((k + 1)..Len(ms)) = Len(ms) - k
    BY IntervalSize
  <2> HIDE DEF kept
  <2> QED
    BY <1>1, <2>1
<1>3. ASSUME NEW i \in kept
      PROVE  Cardinality(kept \cap (1..i)) = i - k
  <2>1. kept \cap (1..i) = (k + 1)..i
    BY <1>1
  <2>2. i \in Nat /\ k <= i
    BY <1>1
  <2>3. Cardinality((k + 1)..i) = i - k
    BY <2>2, IntervalSize
  <2> QED
    BY <2>1, <2>3
<1>4. ASSUME NEW n \in 1..(Len(ms) - k)
      PROVE  nth(n) = k + n
  <2>1. k + n \in kept
    BY <1>1
  <2>2. Cardinality(kept \cap (1..(k + n))) = n
    BY <2>1, <1>3
  <2>3. nth(n) \in kept /\ Cardinality(kept \cap (1..nth(n))) = n
    BY <2>1, <2>2
  <2>4. nth(n) - k = n
    BY <2>3, <1>3
  <2> HIDE DEF kept, nth
  <2> QED
    BY <2>3, <2>4, <1>1
<1>5. Young(ms) = [n \in 1..(Len(ms) - k) |-> ms[nth(n)]]
  BY <1>2 DEF Young
<1>6. SubSeq(ms, k + 1, Len(ms)) = [n \in 1..(Len(ms) - k) |-> ms[k + n]]
  OBVIOUS
<1> HIDE DEF nth, kept
<1>7. [n \in 1..(Len(ms) - k) |-> ms[nth(n)]] = [n \in 1..(Len(ms) - k) |-> ms[k + n]]
  BY <1>4
<1> QED
  BY <1>5, <1>6, <1>7

\* What PruneMessages leaves of a box whose last message is new.
LEMMA KeptIsSuffix ==
  ASSUME NEW ms \in Seq(Message), OldFirst(ms), Len(ms) > 0, ~ms[Len(ms)].old
  PROVE  \E k \in 0..(Len(ms) - 1) :
           /\ Kept(ms) = SubSeq(ms, k + 1, Len(ms))
           /\ k = 0 \/ ms[k].old \/ Len(Kept(ms)) = MaxCount
<1>1. PICK k \in 0..Len(ms) : /\ \A i \in 1..k : ms[i].old
                              /\ \A i \in (k + 1)..Len(ms) : ~ms[i].old
  BY OldIsPrefix
<1>2. Young(ms) = SubSeq(ms, k + 1, Len(ms))
  BY <1>1, YoungIsSuffix
<1>3. k < Len(ms) /\ Len(Young(ms)) = Len(ms) - k
  BY <1>1, <1>2
<1>4. MaxCount \in Nat
  BY BoundsAssumption
<1>5. CASE MaxCount > 0 /\ Len(Young(ms)) > MaxCount
  <2> DEFINE young == Young(ms)
             j == Len(ms) - MaxCount
             u == SubSeq(ms, j + 1, Len(ms))
  <2>1. j \in k..(Len(ms) - 1) /\ j = k + (Len(young) - MaxCount)
    BY <1>3, <1>4, <1>5
  <2>2. young \in Seq(Message) /\ \A i \in 1..Len(young) : young[i] = ms[k + i]
    BY <1>2, <1>3
  <2>3. Kept(ms) = SubSeq(young, Len(young) - MaxCount + 1, Len(young))
    BY <1>5 DEF Kept
  <2>4. u \in Seq(Message) /\ Len(u) = MaxCount /\ \A i \in 1..MaxCount : u[i] = ms[j + i]
    BY <1>4, <2>1
  <2> HIDE DEF young, j, u
  <2>5. /\ Kept(ms) \in Seq(Message) /\ Len(Kept(ms)) = MaxCount
        /\ \A i \in 1..MaxCount : Kept(ms)[i] = young[Len(young) - MaxCount + i]
    BY <1>4, <1>5, <2>2, <2>3 DEF young
  <2>6. ASSUME NEW i \in 1..MaxCount
        PROVE  Kept(ms)[i] = ms[j + i]
    <3>1. Len(young) \in Nat /\ Len(young) > MaxCount
      BY <1>5, <2>2 DEF young
    <3>2. Len(young) - MaxCount + i \in 1..Len(young)
      BY <1>4, <3>1
    <3>3. Kept(ms)[i] = ms[k + (Len(young) - MaxCount + i)]
      BY <2>2, <2>5, <3>2
    <3> QED
      BY <1>4, <2>1, <3>1, <3>3
  <2>7. Kept(ms) = u
    BY <2>4, <2>5, <2>6, SeqEqual
  <2>8. j \in 0..(Len(ms) - 1) /\ Kept(ms) = SubSeq(ms, j + 1, Len(ms))
    BY <2>1, <2>7 DEF u
  <2> QED
    BY <2>5, <2>8
<1>6. CASE ~(MaxCount > 0 /\ Len(Young(ms)) > MaxCount)
  <2>1. Kept(ms) = SubSeq(ms, k + 1, Len(ms))
    BY <1>2, <1>6 DEF Kept
  <2>2. k = 0 \/ ms[k].old
    BY <1>1
  <2> QED
    BY <1>3, <2>1, <2>2
<1> QED
  BY <1>5, <1>6

-----------------------------------------------------------------------------
(***************************************************************************)
(* The box.  Every change of it is one of five: a suffix, one more message,*)
(* some that were read, one that is older now, or messages for the driver. *)
(***************************************************************************)
Shown(m) == m.read => \E a \in m.shown : For(m, a)
Sound(ms) ==
  /\ ms \in Seq(Message)
  /\ OldFirst(ms)
  /\ \A i \in 1..Len(ms) : Shown(ms[i])

LEMMA NewIsSound ==
  ASSUME NEW a \in Agent \cup {"all"}
  PROVE  New(a) \in Message /\ ~New(a).old /\ Shown(New(a))
  BY DEF New, Message, Shown

LEMMA SuffixIsSound ==
  ASSUME NEW ms, Sound(ms), NEW k \in 0..Len(ms)
  PROVE  Sound(SubSeq(ms, k + 1, Len(ms)))
<1> DEFINE s == SubSeq(ms, k + 1, Len(ms))
<1>1. s \in Seq(Message) /\ Len(s) = Len(ms) - k /\ \A i \in 1..Len(s) : s[i] = ms[k + i]
  BY DEF Sound
<1>2. \A i \in 1..Len(s) : k + i \in 1..Len(ms)
  BY <1>1 DEF Sound
<1> HIDE DEF s
<1>3. \A i \in 1..Len(s) : Shown(s[i])
  BY <1>1, <1>2 DEF Sound
<1>4. OldFirst(s)
  <2> SUFFICES ASSUME NEW i \in 1..Len(s), NEW j \in 1..Len(s), i <= j, s[j].old
               PROVE  s[i].old
    BY Zenon DEF OldFirst
  <2>1. k + i <= k + j /\ s[j] = ms[k + j] /\ s[i] = ms[k + i]
    BY <1>1
  <2> QED
    BY <1>2, <2>1 DEF Sound, OldFirst
<1> QED
  BY <1>1, <1>3, <1>4 DEF Sound, s

LEMMA ConcatIsSound ==
  ASSUME NEW ms, Sound(ms), NEW a \in Agent \cup {"all"}, NEW n \in Nat
  PROVE  Sound(ms \o [i \in 1..n |-> New(a)])
<1> DEFINE more == [i \in 1..n |-> New(a)]
<1> DEFINE s == ms \o more
<1>1. more \in Seq(Message) /\ Len(more) = n
  BY NewIsSound
<1>2. /\ s \in Seq(Message) /\ Len(s) = Len(ms) + n
      /\ \A i \in 1..Len(s) : s[i] = IF i <= Len(ms) THEN ms[i] ELSE New(a)
  BY <1>1, ConcatProperties DEF Sound
<1> HIDE DEF s
<1>3. \A i \in 1..Len(s) : Shown(s[i])
  BY <1>2, NewIsSound DEF Sound
<1>4. OldFirst(s)
  <2> SUFFICES ASSUME NEW i \in 1..Len(s), NEW j \in 1..Len(s), i <= j, s[j].old
               PROVE  s[i].old
    BY Zenon DEF OldFirst
  <2>1. j <= Len(ms) /\ s[j] = ms[j] /\ s[i] = ms[i]
    BY <1>2, NewIsSound
  <2> QED
    BY <2>1 DEF Sound, OldFirst
<1> QED
  BY <1>2, <1>3, <1>4 DEF Sound, s

LEMMA AppendIsSound ==
  ASSUME NEW ms, Sound(ms), NEW a \in Agent \cup {"all"}
  PROVE  Sound(Append(ms, New(a)))
<1> DEFINE s == Append(ms, New(a))
<1>1. /\ s \in Seq(Message) /\ Len(s) = Len(ms) + 1
      /\ \A i \in 1..Len(s) : s[i] = IF i <= Len(ms) THEN ms[i] ELSE New(a)
  BY NewIsSound DEF Sound
<1> HIDE DEF s
<1>2. \A i \in 1..Len(s) : Shown(s[i])
  BY <1>1, NewIsSound DEF Sound
<1>3. OldFirst(s)
  BY <1>1, NewIsSound DEF Sound, OldFirst
<1> QED
  BY <1>1, <1>2, <1>3 DEF Sound, s

GivenIn(ms, R, a) == [i \in 1..Len(ms) |-> IF i \in R THEN Given(ms[i], {a}) ELSE ms[i]]

\* Reading gives the messages in some set R to a, and marks no other.
LEMMA ReadIsSound ==
  ASSUME NEW ms, Sound(ms), NEW a \in Agent, NEW R, \A i \in R : For(ms[i], a)
  PROVE  Sound(GivenIn(ms, R, a)) /\ Len(GivenIn(ms, R, a)) = Len(ms)
<1> DEFINE s == GivenIn(ms, R, a)
<1> USE DEF GivenIn
<1>1. \A i \in 1..Len(ms) : ms[i] \in Message
  BY DEF Sound
<1>2. Len(ms) \in Nat
  BY DEF Sound
<1>3. \A i \in 1..Len(ms) : s[i] \in Message /\ s[i].old = ms[i].old /\ s[i].to = ms[i].to
  <2>1. \A m \in Message : /\ Given(m, {a}) \in Message
                           /\ Given(m, {a}).old = m.old
                           /\ Given(m, {a}).to = m.to
    BY DEF Message, Given
  <2> QED
    BY <1>1, <2>1
<1>4. s \in Seq(Message) /\ Len(s) = Len(ms)
  <2>1. s = [i \in 1..Len(ms) |-> s[i]]
    OBVIOUS
  <2> HIDE DEF s, GivenIn
  <2> QED
    BY <1>2, <1>3, <2>1
<1>5. \A i \in 1..Len(ms) :
        IF i \in R THEN s[i].shown = IF ms[i].read THEN ms[i].shown ELSE {a} ELSE s[i] = ms[i]
  BY <1>1 DEF Message, Given
<1> HIDE DEF s, GivenIn
<1>6. ASSUME NEW i \in 1..Len(s)
      PROVE  Shown(s[i])
  <2>1. CASE i \in R
    <3>1. \A b : For(s[i], b) <=> For(ms[i], b)
      BY <1>3, <1>4 DEF For
    <3>2. CASE ms[i].read
      <4>1. s[i].shown = ms[i].shown /\ Shown(ms[i])
        BY <1>4, <1>5, <2>1, <3>2 DEF Sound
      <4> QED
        BY <3>1, <3>2, <4>1 DEF Shown
    <3>3. CASE ~ms[i].read
      <4>1. a \in s[i].shown /\ For(s[i], a)
        BY <1>4, <1>5, <2>1, <3>1, <3>3
      <4> QED
        BY <4>1 DEF Shown
    <3> QED
      BY <3>2, <3>3
  <2>2. CASE i \notin R
    BY <1>4, <1>5, <2>2 DEF Sound
  <2> QED
    BY <2>1, <2>2
<1>7. OldFirst(s)
  BY <1>3, <1>4 DEF Sound, OldFirst
<1> QED
  BY <1>4, <1>6, <1>7 DEF Sound, s

LEMMA AgeingIsSound ==
  ASSUME NEW ms, Sound(ms), NEW n \in 1..Len(ms), \A j \in 1..(n - 1) : ms[j].old
  PROVE  /\ Sound([ms EXCEPT ![n].old = TRUE])
         /\ Len([ms EXCEPT ![n].old = TRUE]) = Len(ms)
<1> DEFINE m == [ms[n] EXCEPT !.old = TRUE]
<1> DEFINE s == [ms EXCEPT ![n].old = TRUE]
<1>1. ms[n] \in Message
  BY DEF Sound
<1>2. m \in Message /\ m.old /\ m.read = ms[n].read /\ m.shown = ms[n].shown /\ m.to = ms[n].to
  BY <1>1 DEF Message
<1>3. s = [ms EXCEPT ![n] = m]
  OBVIOUS
<1> HIDE DEF m, s
<1>4. /\ s \in Seq(Message) /\ Len(s) = Len(ms)
      /\ \A i \in 1..Len(ms) : s[i] = IF i = n THEN m ELSE ms[i]
  BY <1>2, <1>3 DEF Sound
<1>5. \A i \in 1..Len(s) : Shown(s[i])
  BY <1>2, <1>4 DEF Sound, Shown, For
<1>6. OldFirst(s)
  <2> SUFFICES ASSUME NEW i \in 1..Len(s), NEW j \in 1..Len(s), i <= j, s[j].old
               PROVE  s[i].old
    BY Zenon DEF OldFirst
  <2>1. CASE i = n
    BY <1>2, <1>4, <2>1
  <2>2. CASE i < n
    BY <1>4, <2>2
  <2>3. CASE i > n
    <3>1. s[j] = ms[j] /\ s[i] = ms[i]
      BY <1>4, <2>3
    <3> QED
      BY <1>4, <3>1 DEF Sound, OldFirst
  <2> QED
    BY <2>1, <2>2, <2>3 DEF Sound
<1> QED
  BY <1>4, <1>5, <1>6 DEF Sound, s

BoxInv == Sound(box) /\ Len(box) <= MaxBox

\* What sending does to the box.
LEMMA SendEffect ==
  ASSUME Sound(box), NEW a \in Agent \cup {"all"}, Send(a)
  PROVE  \E k \in 0..Len(box) :
           /\ box' = SubSeq(Append(box, New(a)), k + 1, Len(box) + 1)
           /\ k = 0 \/ box[k].old \/ Len(box') = MaxCount
<1> DEFINE ms == Append(box, New(a))
<1>1. /\ ms \in Seq(Message) /\ Len(ms) = Len(box) + 1 /\ ms[Len(ms)] = New(a)
      /\ \A i \in 1..Len(box) : ms[i] = box[i]
  BY NewIsSound DEF Sound
<1>2. OldFirst(ms)
  BY AppendIsSound DEF Sound
<1>3. box' = Kept(ms)
  BY DEF Send
<1>4. ~ms[Len(ms)].old /\ Len(ms) > 0
  BY <1>1, NewIsSound DEF Sound
<1> HIDE DEF ms
<1>5. PICK k \in 0..(Len(ms) - 1) :
         /\ Kept(ms) = SubSeq(ms, k + 1, Len(ms))
         /\ k = 0 \/ ms[k].old \/ Len(Kept(ms)) = MaxCount
  BY <1>1, <1>2, <1>4, KeptIsSuffix
<1>6. k \in 0..Len(box) /\ (k = 0 \/ ms[k] = box[k])
  BY <1>1, <1>5 DEF Sound
<1> QED
  BY <1>1, <1>3, <1>5, <1>6 DEF ms

LEMMA MailKeepsBox ==
  ASSUME BoxInv, Mail
  PROVE  BoxInv'
<1> USE DEF BoxInv
<1>1. ASSUME NEW a \in Agent \cup {"all"}, Send(a)
      PROVE  BoxInv'
  <2> DEFINE ms == Append(box, New(a))
  <2>1. Sound(ms) /\ Len(ms) = Len(box) + 1
    BY AppendIsSound, NewIsSound DEF Sound
  <2>2. PICK k \in 0..Len(box) : box' = SubSeq(ms, k + 1, Len(box) + 1)
    BY <1>1, SendEffect
  <2> HIDE DEF ms
  <2>3. k \in 0..Len(ms) /\ box' = SubSeq(ms, k + 1, Len(ms))
    BY <2>1, <2>2 DEF Sound
  <2>4. Sound(box')
    BY <2>1, <2>3, SuffixIsSound
  <2>5. Len(box') <= MaxBox
    BY <1>1 DEF Send
  <2> QED
    BY <2>4, <2>5 DEF Sound, OldFirst
<1>2. ASSUME NEW a \in Agent \cup {"all"}, Post(a)
      PROVE  BoxInv'
  <2>1. box' = Append(box, New(a)) /\ Len(box) < MaxBox
    <3>1. Cardinality(Task) \in Nat
      BY BoundsAssumption, FS_CardinalityType
    <3> QED
      BY <1>2, <3>1, BoundsAssumption DEF Post, Sound
  <2>2. Sound(box')
    BY <2>1, AppendIsSound
  <2>3. Len(box') = Len(box) + 1 /\ Len(box) \in Nat
    BY <2>1, NewIsSound DEF Sound
  <2>4. Len(box') <= MaxBox
    BY <2>1, <2>3, BoundsAssumption
  <2> QED
    BY <2>2, <2>4 DEF Sound, OldFirst
<1>3. ASSUME NEW a \in Agent, NEW unreadOnly \in BOOLEAN, NEW limit \in Limits,
             Read(a, unreadOnly, limit)
      PROVE  BoxInv'
  <2> DEFINE R == Returned(a, unreadOnly, limit)
  <2>1. box' = GivenIn(box, R, a)
    BY <1>3 DEF Read, GivenIn
  <2>2. \A i \in R : For(box[i], a)
    BY DEF Returned
  <2> HIDE DEF R
  <2>3. Sound(box') /\ Len(box') = Len(box)
    BY <2>1, <2>2, ReadIsSound
  <2> QED
    BY <2>3 DEF Sound, OldFirst
<1>4. ASSUME GrowOld
      PROVE  BoxInv'
  <2>1. PICK n \in 1..Len(box) : /\ \A j \in 1..(n - 1) : box[j].old
                                 /\ box' = [box EXCEPT ![n].old = TRUE]
    BY <1>4 DEF GrowOld
  <2> DEFINE s == [box EXCEPT ![n].old = TRUE]
  <2>2. Sound(s) /\ Len(s) = Len(box)
    BY <2>1, AgeingIsSound, Zenon
  <2>3. box' = s
    BY <2>1
  <2> HIDE DEF s
  <2>4. Sound(box') /\ Len(box') = Len(box)
    BY <2>2, <2>3
  <2> QED
    BY <2>4 DEF Sound, OldFirst
<1> QED
  BY <1>1, <1>2, <1>3, <1>4, BoundsAssumption DEF Mail

LEMMA BoxStep ==
  ASSUME BoxInv, working \subseteq Task, [Next]_vars
  PROVE  BoxInv'
<1> USE DEF BoxInv
<1>1. CASE Mail
  BY <1>1, MailKeepsBox
<1>2. CASE Reset
  <2>1. box' = <<>>
    BY <1>2 DEF Reset
  <2> QED
    BY <2>1, BoundsAssumption DEF Sound, OldFirst
<1>3. ASSUME NEW stuck \in SUBSET Task, Check(stuck)
      PROVE  BoxInv'
  <2> DEFINE news == {t \in working \ stuck : Alert(t) # ""}
             count == Cardinality(news) + (IF stuck = {} THEN 0 ELSE 1)
  <2>1. box' = box \o [i \in 1..count |-> New(Driver)] /\ Len(box) + count <= MaxBox
    BY <1>3 DEF Check
  <2>2. Cardinality(news) \in Nat
    BY BoundsAssumption, FS_Subset, FS_CardinalityType
  <2> HIDE DEF news
  <2>3. count \in Nat
    BY <2>2
  <2> HIDE DEF count
  <2>4. Sound(box')
    BY <2>1, <2>3, ConcatIsSound, AgentsAssumption
  <2>5. Len(box') = Len(box) + count
    BY <2>1, <2>3, NewIsSound, AgentsAssumption DEF Sound
  <2> QED
    BY <2>1, <2>4, <2>5 DEF Sound, OldFirst
<1>4. CASE UNCHANGED box
  BY <1>4 DEF Sound, OldFirst
<1>5. Next => Mail \/ Reset \/ (\E stuck \in SUBSET Task : Check(stuck)) \/ UNCHANGED box
  BY DEF Next, Work, Create, Start, Leave, Report, Update, Silence, Overrun, CheckLost, Restart
<1> QED
  BY <1>1, <1>2, <1>3, <1>4, <1>5 DEF vars

-----------------------------------------------------------------------------
(***************************************************************************)
(* The types                                                               *)
(***************************************************************************)
LEMMA AlertLevel == \A t \in Task : Alert(t) \in Level \cup {""}
  BY DEF Alert, Level

LEMMA RememberedType ==
  ASSUME alerted \in [Task -> Level \cup {""}], NEW stuck \in SUBSET Task
  PROVE  Remembered(stuck) \in [Task -> Level \cup {""}]
  BY AlertLevel DEF Remembered

LEMMA LostBound == MaxLost \in Nat /\ 0 \in 0..MaxLost
<1>1. MaxLost \in Nat
  BY BoundsAssumption, Zenon
<1> QED
  BY <1>1

LEMMA UnsaidType == Unsaid \in [Level -> Nat]
  BY DEF Unsaid

LEMMA EndedType ==
  ASSUME posted \in [Task -> [Level -> Nat]], lost \in [Task -> 0..MaxLost], NEW ts, Ended(ts)
  PROVE  posted' \in [Task -> [Level -> Nat]] /\ lost' \in [Task -> 0..MaxLost]
  BY UnsaidType, BoundsAssumption DEF Ended

LEMMA ForgottenType ==
  ASSUME lost \in [Task -> 0..MaxLost], NEW ts, Forgotten(ts)
  PROVE  lost' \in [Task -> 0..MaxLost]
<1> DEFINE gone == {t \in ts : alerted[t] # ""}
<1>1. /\ \A t \in gone : lost[t] < MaxLost
      /\ lost' = [t \in Task |-> IF t \in gone THEN lost[t] + 1 ELSE lost[t]]
  BY DEF Forgotten
<1> HIDE DEF gone
<1>2. \A t \in Task : (IF t \in gone THEN lost[t] + 1 ELSE lost[t]) \in 0..MaxLost
  BY <1>1, BoundsAssumption
<1> QED
  BY <1>1, <1>2

LEMMA PostedType ==
  ASSUME NEW p \in [Level -> Nat], NEW l \in Level
  PROVE  [p EXCEPT ![l] = @ + 1] \in [Level -> Nat]
  OBVIOUS

\* The types of everything but the box.
QuietType == quiet \in [Task -> 0..2]
TaskTypes ==
  /\ QuietType
  /\ tasks \subseteq Task
  /\ working \subseteq tasks
  /\ progressed \subseteq Task
  /\ late \subseteq Task
  /\ alerted \in [Task -> Level \cup {""}]
  /\ posted \in [Task -> [Level -> Nat]]
  /\ lost \in [Task -> 0..MaxLost]
  /\ told \subseteq Task
  /\ muted \subseteq Task

LEMMA QuietStep ==
  ASSUME QuietType, [Next]_vars
  PROVE  QuietType'
<1> USE DEF QuietType
<1>1. ASSUME NEW t \in Task, Start(t) \/ Report(t) \/ Update(t) \/ Silence(t)
      PROVE  QuietType'
  <2>1. quiet' = quiet \/ quiet' = [quiet EXCEPT ![t] = 0]
                      \/ (quiet[t] < 2 /\ quiet' = [quiet EXCEPT ![t] = quiet[t] + 1])
    BY <1>1 DEF Start, Report, Update, Silence
  <2>2. quiet[t] \in 0..2
    OBVIOUS
  <2>3. CASE quiet[t] < 2 /\ quiet' = [quiet EXCEPT ![t] = quiet[t] + 1]
    <3>1. quiet[t] + 1 \in 0..2
      BY <2>2, <2>3
    <3> QED
      BY <2>3, <3>1
  <2>4. CASE quiet' = [quiet EXCEPT ![t] = 0]
    BY <2>4
  <2> QED
    BY <2>1, <2>3, <2>4
<1>2. CASE Reset
  BY <1>2 DEF Reset
<1>3. Next => \/ \E t \in Task : Start(t) \/ Report(t) \/ Update(t) \/ Silence(t)
              \/ Reset \/ UNCHANGED quiet
  BY DEF Next, Mail, Send, Post, Read, GrowOld, Work, Create, Leave, Overrun, Check, CheckLost, Restart, clock
<1> QED
  BY <1>1, <1>2, <1>3 DEF vars, clock

LEMMA TaskStep ==
  ASSUME TaskTypes, [Next]_vars
  PROVE  TaskTypes'
<1>1. QuietType'
  BY QuietStep DEF TaskTypes
<1> USE <1>1 DEF TaskTypes
<1>2. CASE Mail
  BY <1>2 DEF Mail, Send, Post, Read, GrowOld, board, clock, said
<1>3. ASSUME NEW t \in Task,
             Create(t) \/ Start(t) \/ Leave(t) \/ Report(t) \/ Update(t) \/ Silence(t) \/ Overrun(t)
      PROVE  TaskTypes'
  <2>1. CASE Start(t)
    BY <2>1 DEF Start
  <2>2. CASE Leave(t)
    <3>1. posted' \in [Task -> [Level -> Nat]] /\ lost' \in [Task -> 0..MaxLost]
      BY <2>2, EndedType DEF Leave
    <3> QED
      BY <2>2, <3>1 DEF Leave, Heard
  <2>3. CASE Report(t)
    BY <2>3 DEF Report, Heard, board
  <2>4. CASE Update(t)
    BY <2>4 DEF Update, Heard, board
  <2>5. CASE Silence(t)
    BY <2>5 DEF Silence, board, said
  <2>6. CASE Overrun(t)
    BY <2>6 DEF Overrun, board, said
  <2>7. CASE Create(t)
    BY <2>7 DEF Create, clock, said
  <2> QED
    BY <1>3, <2>1, <2>2, <2>3, <2>4, <2>5, <2>6, <2>7
<1>4. CASE Reset
  <2>1. posted' \in [Task -> [Level -> Nat]] /\ lost' \in [Task -> 0..MaxLost]
    BY <1>4, EndedType DEF Reset
  <2> QED
    BY <1>4, <2>1 DEF Reset, Heard
<1>5. ASSUME NEW stuck \in SUBSET Task, Check(stuck)
      PROVE  TaskTypes'
  <2>1. alerted' \in [Task -> Level \cup {""}]
    BY <1>5, RememberedType DEF Check
  <2>2. posted' \in [Task -> [Level -> Nat]]
    <3>1. posted' = [t \in Task |->
                       IF t \in stuck THEN Unsaid
                       ELSE IF t \in working \ stuck /\ Alert(t) # ""
                            THEN [posted[t] EXCEPT ![Alert(t)] = @ + 1]
                       ELSE posted[t]]
      BY <1>5 DEF Check
    <3>2. ASSUME NEW t \in Task, Alert(t) # ""
          PROVE  [posted[t] EXCEPT ![Alert(t)] = @ + 1] \in [Level -> Nat]
      BY <3>2, AlertLevel, PostedType
    <3> QED
      BY <3>1, <3>2, UnsaidType
  <2>3. working' \subseteq tasks' /\ late' \subseteq Task /\ told' \subseteq Task /\ muted' \subseteq Task
    BY <1>5 DEF Check
  <2>4. UNCHANGED <<tasks, progressed>>
    BY <1>5 DEF Check
  <2>5. lost' \in [Task -> 0..MaxLost]
    <3>1. lost' = [t \in Task |-> IF t \in stuck THEN 0 ELSE lost[t]]
      BY <1>5 DEF Check
    <3>2. \A t \in Task : lost[t] \in 0..MaxLost
      BY DEF TaskTypes
    <3> QED
      BY <3>1, <3>2, LostBound
  <2> QED
    BY <2>1, <2>2, <2>3, <2>4, <2>5
<1>6. ASSUME NEW stuck \in SUBSET Task, CheckLost(stuck)
      PROVE  TaskTypes'
  <2>1. lost' \in [Task -> 0..MaxLost]
    BY <1>6, ForgottenType DEF CheckLost
  <2> QED
    BY <1>6, <2>1, RememberedType DEF CheckLost, board, clock
<1>7. CASE Restart
  <2>1. lost' \in [Task -> 0..MaxLost]
    BY <1>7, ForgottenType DEF Restart
  <2> QED
    BY <1>7, <2>1 DEF Restart, board, clock
<1>8. CASE UNCHANGED vars
  BY <1>8 DEF vars, board, clock, said
<1> QED
  BY <1>2, <1>3, <1>4, <1>5, <1>6, <1>7, <1>8 DEF Next, Work

LEMMA TypesSplit == TypeOK <=> box \in Seq(Message) /\ Len(box) <= MaxBox /\ TaskTypes
  BY DEF TypeOK, TaskTypes, QuietType

LEMMA InitTypes == Init => TaskTypes
<1> SUFFICES ASSUME Init PROVE TaskTypes
  OBVIOUS
<1>1. QuietType
  <2>1. quiet = [t \in Task |-> 0]
    BY DEF Init
  <2> QED
    BY <2>1 DEF QuietType
<1>2. lost \in [Task -> 0..MaxLost]
  <2>1. lost = [t \in Task |-> 0]
    BY DEF Init
  <2> QED
    BY <2>1, LostBound
<1> QED
  BY <1>1, <1>2, UnsaidType DEF Init, TaskTypes

LEMMA TypesAndBox == Spec => [](TypeOK /\ BoxInv)
<1>1. Init => TypeOK /\ BoxInv
  <2> SUFFICES ASSUME Init PROVE TypeOK /\ BoxInv
    OBVIOUS
  <2>1. TaskTypes
    BY InitTypes
  <2>2. box = <<>>
    BY DEF Init
  <2>3. BoxInv
    BY <2>2, BoundsAssumption DEF BoxInv, Sound, OldFirst
  <2> QED
    BY <2>1, <2>3, TypesSplit DEF BoxInv, Sound
<1>2. TypeOK /\ BoxInv /\ [Next]_vars => (TypeOK /\ BoxInv)'
  <2> SUFFICES ASSUME TypeOK, BoxInv, [Next]_vars PROVE TypeOK' /\ BoxInv'
    OBVIOUS
  <2>1. TaskTypes'
    BY TypesSplit, TaskStep
  <2>2. BoxInv'
    BY BoxStep, TypesSplit DEF TaskTypes
  <2>3. box' \in Seq(Message) /\ Len(box') <= MaxBox
    BY <2>2 DEF BoxInv, Sound
  <2>4. TypeOK'
    BY <2>1, <2>3, Zenon DEF TypeOK, TaskTypes, QuietType
  <2> QED
    BY <2>2, <2>4
<1> QED
  BY <1>1, <1>2, PTL DEF Spec

\* Every state has the declared types, whatever was sent, pruned and alerted.
THEOREM TypeCorrect == Spec => []TypeOK
  BY TypesAndBox, PTL

\* Nobody's messages are marked read before somebody they are for was given
\* them.
THEOREM ReadCorrect == Spec => []ReadWasShown
<1>1. BoxInv => ReadWasShown
  BY DEF BoxInv, Sound, Shown, ReadWasShown
<1> QED
  BY <1>1, TypesAndBox, PTL

\* Retention takes the oldest, and none without need, although PruneMessages
\* filters and cuts, and all other writers do neither.
THEOREM RetentionCorrect == Spec => RetentionTakesOldest
<1> DEFINE Takes(a) == \E k \in 0..Len(box) :
                         /\ box' = Append(SubSeq(box, k + 1, Len(box)), New(a))
                         /\ k = 0 \/ box[k].old \/ Len(box') = MaxCount
<1>1. ASSUME BoxInv, NEW a \in Agent \cup {"all"}, Send(a)
      PROVE  Takes(a)
  <2> DEFINE ms == Append(box, New(a))
  <2>1. PICK k \in 0..Len(box) : /\ box' = SubSeq(ms, k + 1, Len(box) + 1)
                                 /\ k = 0 \/ box[k].old \/ Len(box') = MaxCount
    BY <1>1, SendEffect DEF BoxInv
  <2>2. SubSeq(ms, k + 1, Len(box) + 1) = Append(SubSeq(box, k + 1, Len(box)), New(a))
    <3> DEFINE s == SubSeq(ms, k + 1, Len(box) + 1)
               u == Append(SubSeq(box, k + 1, Len(box)), New(a))
    <3>1. box \in Seq(Message) /\ New(a) \in Message
      BY <1>1, NewIsSound DEF BoxInv, Sound
    <3>2. /\ ms \in Seq(Message) /\ Len(ms) = Len(box) + 1
          /\ \A i \in 1..Len(ms) : ms[i] = IF i <= Len(box) THEN box[i] ELSE New(a)
      BY <3>1
    <3>3. /\ u \in Seq(Message) /\ Len(u) = Len(box) - k + 1
          /\ \A i \in 1..Len(u) : u[i] = IF i <= Len(box) - k THEN box[k + i] ELSE New(a)
      BY <3>1
    <3> HIDE DEF ms, u
    <3>4. /\ s \in Seq(Message) /\ Len(s) = Len(box) - k + 1
          /\ \A i \in 1..Len(s) : s[i] = ms[k + i]
      BY <3>1, <3>2
    <3> HIDE DEF s
    <3>5. \A i \in 1..Len(s) : s[i] = u[i]
      BY <3>1, <3>2, <3>3, <3>4
    <3>6. s = u
      BY <3>3, <3>4, <3>5, SeqEqual
    <3> QED
      BY <3>6 DEF s, u, ms
  <2> QED
    BY <2>1, <2>2
<1>2. BoxInv => [\A a \in Agent \cup {"all"} : Send(a) => Takes(a)]_box
  BY <1>1
<1> QED
  BY <1>2, TypesAndBox, PTL DEF RetentionTakesOldest

-----------------------------------------------------------------------------
(***************************************************************************)
(* The alerts.  What was posted of a task leaves its trace in alertedTasks,*)
(* which only moves up from "" over a warning and a critical alert to      *)
(* sla_exceeded as long as the task is in progress and the entry is not    *)
(* lost; and a grave entry is of the present silence of the task, or the   *)
(* history knows of what else.                                             *)
(***************************************************************************)
\* The levels an entry has come to or passed over.
Reached(a) ==
  {l \in Level : l = a \/ (l = "warning" /\ a # "") \/ (l = "critical" /\ a = "sla_exceeded")}

\* n is how often the entry was lost, a what it is now.
Traced(p, n, a) ==
  \A l \in Level : p[l] <= n + 1 /\ (l \notin Reached(a) => p[l] <= n)

SaidInv(t) ==
  /\ t \notin working => posted[t] = Unsaid
  /\ Traced(posted[t], lost[t], alerted[t])

ToldInv(t) == alerted[t] \in Grave => t \in muted \/ (t \in working /\ t \in told)

LEMMA UnsaidIsTraced == \A n \in Nat : \A a : Traced(Unsaid, n, a)
  BY DEF Traced, Unsaid

\* An alert is only posted when the entry is of a lower level.
LEMMA AlertIsAbove ==
  ASSUME NEW t \in Task, Alert(t) # ""
  PROVE  /\ Alert(t) \in Level
         /\ Alert(t) \in Reached(Alert(t))
         /\ Alert(t) \notin Reached(alerted[t])
         /\ Reached(alerted[t]) \subseteq Reached(Alert(t))
  BY DEF Alert, Level, Grave, Reached

LEMMA PostedIsTraced ==
  ASSUME NEW p \in [Level -> Nat], NEW n \in Nat, NEW a, Traced(p, n, a),
         NEW m \in Level, m \notin Reached(a), m \in Reached(m), Reached(a) \subseteq Reached(m)
  PROVE  Traced([p EXCEPT ![m] = @ + 1], n, m)
<1> DEFINE q == [p EXCEPT ![m] = @ + 1]
<1> SUFFICES ASSUME NEW l \in Level
             PROVE  q[l] <= n + 1 /\ (l \notin Reached(m) => q[l] <= n)
  BY DEF Traced
<1>1. p[l] \in Nat /\ p[l] <= n + 1 /\ (l \notin Reached(a) => p[l] <= n)
  BY DEF Traced
<1>2. q[l] = IF l = m THEN p[l] + 1 ELSE p[l]
  OBVIOUS
<1> HIDE DEF q
<1> QED
  BY <1>1, <1>2

LEMMA RaisedIsTraced ==
  ASSUME NEW p, NEW n, NEW a, NEW b, Traced(p, n, a), Reached(a) \subseteq Reached(b)
  PROVE  Traced(p, n, b)
  BY DEF Traced

\* When an entry is lost, once more is allowed; there is nothing to lose of an
\* empty one.
LEMMA LostIsTraced ==
  ASSUME NEW p \in [Level -> Nat], NEW n \in Nat, NEW a, Traced(p, n, a)
  PROVE  Traced(p, IF a # "" THEN n + 1 ELSE n, "")
<1>1. CASE a # ""
  <2>1. \A l \in Level : p[l] \in Nat /\ p[l] <= n + 1
    BY DEF Traced
  <2>2. \A l \in Level : p[l] <= (n + 1) + 1 /\ p[l] <= n + 1
    BY <2>1
  <2>3. Traced(p, n + 1, "")
    BY <2>2, Zenon DEF Traced
  <2> QED
    BY <1>1, <2>3
<1>2. CASE a = ""
  BY <1>2
<1> QED
  BY <1>1, <1>2

LEMMA SaidStep ==
  ASSUME TaskTypes, NEW t \in Task, SaidInv(t), [Next]_vars
  PROVE  SaidInv(t)'
<1>0. posted[t] \in [Level -> Nat] /\ lost[t] \in Nat /\ lost'[t] \in Nat
  <2>1. lost' \in [Task -> 0..MaxLost]
    BY TaskStep DEF TaskTypes
  <2>2. lost[t] \in 0..MaxLost /\ lost'[t] \in 0..MaxLost
    BY <2>1 DEF TaskTypes
  <2>3. lost[t] \in Nat /\ lost'[t] \in Nat
    BY <2>2, BoundsAssumption
  <2> QED
    BY <2>3 DEF TaskTypes
<1>1. CASE posted'[t] = Unsaid
  BY <1>0, <1>1, UnsaidIsTraced DEF SaidInv
<1>2. CASE UNCHANGED <<alerted[t], posted[t], lost[t]>> /\ (t \notin working' => t \notin working)
  BY <1>2 DEF SaidInv
<1>3. ASSUME NEW stuck \in SUBSET Task, Check(stuck)
      PROVE  SaidInv(t)'
  <2>1. CASE t \in stuck
    <3>1. posted'[t] = Unsaid
      BY <1>3, <2>1 DEF Check
    <3> QED
      BY <1>1, <3>1
  <2>2. CASE t \notin working /\ t \notin stuck
    <3>1. posted'[t] = posted[t]
      BY <1>3, <2>2 DEF Check
    <3> QED
      BY <1>1, <2>2, <3>1 DEF SaidInv
  <2>3. CASE t \in working \ stuck
    <3>1. t \in working' /\ lost'[t] = lost[t]
      BY <1>3, <2>3 DEF Check
    <3>2. CASE Alert(t) = ""
      <4>1. UNCHANGED <<alerted[t], posted[t]>>
        BY <1>3, <2>3, <3>2 DEF Check, Remembered
      <4> QED
        BY <1>2, <3>1, <4>1
    <3>3. CASE Alert(t) # ""
      <4>1. alerted'[t] = Alert(t)
        BY <1>3, <2>3, <3>3 DEF Check, Remembered
      <4>2. posted'[t] = [posted[t] EXCEPT ![Alert(t)] = @ + 1]
        BY <1>3, <2>3, <3>3 DEF Check
      <4>3. Traced(posted'[t], lost'[t], alerted'[t])
        <5>1. Traced(posted[t], lost[t], alerted[t])
          BY DEF SaidInv
        <5>2. Traced([posted[t] EXCEPT ![Alert(t)] = @ + 1], lost[t], Alert(t))
          BY <1>0, <3>3, <5>1, AlertIsAbove, PostedIsTraced
        <5> QED
          BY <3>1, <4>1, <4>2, <5>2
      <4> QED
        BY <3>1, <4>3 DEF SaidInv
    <3> QED
      BY <3>2, <3>3
  <2> QED
    BY <2>1, <2>2, <2>3
<1>4. ASSUME NEW stuck \in SUBSET Task, CheckLost(stuck)
      PROVE  SaidInv(t)'
  <2>1. posted'[t] = posted[t] /\ working' = working
    BY <1>4 DEF CheckLost, board
  <2>2. CASE t \notin working
    BY <1>1, <2>1, <2>2 DEF SaidInv
  <2>3. CASE t \in stuck
    <3>1. alerted'[t] = "" /\ t \in tasks
      BY <1>4, <2>3 DEF CheckLost, Remembered, TaskTypes
    <3>2. lost'[t] = IF alerted[t] # "" THEN lost[t] + 1 ELSE lost[t]
      BY <1>4, <2>3 DEF CheckLost, Forgotten
    <3>3. Traced(posted'[t], lost'[t], alerted'[t])
      BY <1>0, <2>1, <3>1, <3>2, LostIsTraced DEF SaidInv
    <3> QED
      BY <2>1, <3>3 DEF SaidInv
  <2>4. CASE t \in working \ stuck
    <3>1. /\ lost'[t] = lost[t]
          /\ alerted'[t] = IF Alert(t) = "" THEN alerted[t] ELSE Alert(t)
      BY <1>4, <2>4 DEF CheckLost, Forgotten, Remembered
    <3>2. Reached(alerted[t]) \subseteq Reached(alerted'[t])
      BY <3>1, AlertIsAbove
    <3>3. Traced(posted'[t], lost'[t], alerted'[t])
      BY <2>1, <3>1, <3>2, RaisedIsTraced DEF SaidInv
    <3> QED
      BY <2>1, <3>3 DEF SaidInv
  <2> QED
    BY <2>2, <2>3, <2>4
<1>5. CASE Restart
  <2>1. posted'[t] = posted[t] /\ working' = working /\ alerted'[t] = ""
    BY <1>5 DEF Restart, board
  <2>2. CASE t \notin working
    BY <1>1, <2>1, <2>2 DEF SaidInv
  <2>3. CASE t \in working
    <3>1. lost'[t] = IF alerted[t] # "" THEN lost[t] + 1 ELSE lost[t]
      BY <1>5, <2>3 DEF Restart, Forgotten
    <3>2. Traced(posted'[t], lost'[t], alerted'[t])
      BY <1>0, <2>1, <3>1, LostIsTraced DEF SaidInv
    <3> QED
      BY <2>1, <3>2 DEF SaidInv
  <2> QED
    BY <2>2, <2>3
<1>6. CASE Reset
  <2>1. posted'[t] = Unsaid
    BY <1>6 DEF Reset, Ended
  <2> QED
    BY <1>1, <2>1
<1>7. ASSUME NEW u \in Task,
             \/ Create(u) \/ Start(u) \/ Leave(u) \/ Report(u)
             \/ Update(u) \/ Silence(u) \/ Overrun(u)
      PROVE  SaidInv(t)'
  <2>1. \/ posted'[t] = Unsaid
        \/ UNCHANGED <<alerted[t], posted[t], lost[t]>> /\ (t \notin working' => t \notin working)
    BY <1>7 DEF Create, Start, Leave, Ended, Report, Update, Silence, Overrun, board, said, TaskTypes
  <2> QED
    BY <1>1, <1>2, <2>1
<1>8. CASE Mail \/ UNCHANGED vars
  BY <1>2, <1>8 DEF Mail, Send, Post, Read, GrowOld, board, said, vars
<1> QED
  BY <1>3, <1>4, <1>5, <1>6, <1>7, <1>8 DEF Next, Work

LEMMA ToldStep ==
  ASSUME TaskTypes, NEW t \in Task, ToldInv(t), [Next]_vars
  PROVE  ToldInv(t)'
<1> USE DEF TaskTypes, ToldInv
<1>1. ASSUME NEW u \in Task,
             \/ Create(u) \/ Start(u) \/ Leave(u) \/ Report(u)
             \/ Update(u) \/ Silence(u) \/ Overrun(u)
      PROVE  ToldInv(t)'
  BY <1>1 DEF Create, Start, Leave, Report, Update, Silence, Overrun, Heard, board, said
<1>2. CASE Reset
  BY <1>2 DEF Reset, Heard
<1>3. ASSUME NEW stuck \in SUBSET Task, Check(stuck) \/ CheckLost(stuck)
      PROVE  ToldInv(t)'
  <2>1. CASE t \in tasks \ (working \ stuck)
    BY <1>3, <2>1 DEF Check, CheckLost, Remembered, Grave
  <2>2. CASE t \in working \ stuck
    <3>1. alerted'[t] = IF Alert(t) = "" THEN alerted[t] ELSE Alert(t)
      BY <1>3, <2>2 DEF Check, CheckLost, Remembered
    <3>2. CASE Check(stuck)
      BY <2>2, <3>1, <3>2 DEF Check, Grave
    <3>3. CASE CheckLost(stuck)
      BY <2>2, <3>1, <3>3 DEF CheckLost, board
    <3> QED
      BY <1>3, <3>2, <3>3
  <2>3. CASE t \notin tasks
    <3>1. alerted'[t] = alerted[t] /\ t \notin working
      BY <1>3, <2>3 DEF Check, CheckLost, Remembered
    <3>2. t \in muted => t \in muted'
      BY <1>3, <2>3 DEF Check, CheckLost
    <3> QED
      BY <3>1, <3>2
  <2> QED
    BY <2>1, <2>2, <2>3
<1>4. CASE Restart
  BY <1>4 DEF Restart, Grave
<1>5. CASE Mail \/ UNCHANGED vars
  BY <1>5 DEF Mail, Send, Post, Read, GrowOld, board, said, vars
<1> QED
  BY <1>1, <1>2, <1>3, <1>4, <1>5 DEF Next, Work

AlertInv == TaskTypes /\ \A t \in Task : SaidInv(t) /\ ToldInv(t)

LEMMA AlertInvariance == Spec => []AlertInv
<1>1. Init => AlertInv
  <2> SUFFICES ASSUME Init PROVE AlertInv
    OBVIOUS
  <2>1. TaskTypes
    BY InitTypes
  <2>2. \A t \in Task : SaidInv(t) /\ ToldInv(t)
    BY UnsaidIsTraced DEF Init, SaidInv, ToldInv, Grave
  <2> QED
    BY <2>1, <2>2 DEF AlertInv
<1>2. AlertInv /\ [Next]_vars => AlertInv'
  BY TaskStep, SaidStep, ToldStep DEF AlertInv
<1> QED
  BY <1>1, <1>2, PTL DEF Spec

\* The driver gets no alert of one level more often, since a task was started,
\* than once and once more for every time the watchdog lost the task's entry.
THEOREM SpamCorrect == Spec => []NoSpam
<1>1. ASSUME AlertInv, NEW t \in Task, NEW l \in Level
      PROVE  posted[t][l] <= 1 + lost[t]
  <2>1. posted[t][l] <= lost[t] + 1
    BY <1>1 DEF AlertInv, SaidInv, Traced
  <2>2. lost[t] \in 0..MaxLost
    BY <1>1 DEF AlertInv, TaskTypes
  <2> QED
    BY <2>1, <2>2, BoundsAssumption
<1>2. AlertInv => NoSpam
  BY <1>1 DEF NoSpam
<1> QED
  BY <1>2, AlertInvariance, PTL

\* What SilenceIsTold waits for is done by the first check that is saved: it
\* leaves no task in progress silent past the critical threshold of which the
\* driver was not told, but for a task whose entry in alertedTasks was a grave
\* one already, of something else than this silence.
TellsOfSilence ==
  [][\A stuck \in SUBSET Task : Check(stuck) =>
       \A t \in working' : quiet'[t] = 2 =>
         t \in told' \/ (t \in muted /\ alerted[t] \in Grave)]_vars

THEOREM SilenceCorrect == Spec => TellsOfSilence
<1>1. ASSUME AlertInv, [Next]_vars, NEW stuck \in SUBSET Task, Check(stuck),
             NEW t \in working', quiet'[t] = 2
      PROVE  t \in told' \/ (t \in muted /\ alerted[t] \in Grave)
  <2>1. t \in working \ stuck /\ quiet[t] = 2 /\ t \in Task
    BY <1>1 DEF Check, AlertInv, TaskTypes
  <2>2. CASE Alert(t) \in Grave
    BY <1>1, <2>1, <2>2 DEF Check, Grave
  <2>3. CASE Alert(t) \notin Grave
    <3>1. alerted[t] \in Grave
      BY <2>1, <2>3 DEF Alert, Grave
    <3>2. t \in told => t \in told'
      BY <1>1, <2>1 DEF Check
    <3> QED
      BY <1>1, <2>1, <3>1, <3>2 DEF AlertInv, ToldInv
  <2> QED
    BY <2>2, <2>3
<1>2. AlertInv /\ [Next]_vars =>
        [\A stuck \in SUBSET Task : Check(stuck) =>
           \A t \in working' : quiet'[t] = 2 =>
             t \in told' \/ (t \in muted /\ alerted[t] \in Grave)]_vars
  BY <1>1
<1> QED
  BY <1>2, AlertInvariance, PTL DEF Spec, TellsOfSilence

=============================================================================
