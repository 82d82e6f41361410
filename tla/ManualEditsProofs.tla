------------------------- MODULE ManualEditsProofs -------------------------
(***************************************************************************)
(* Theorems about ManualEdits, for any slots and bounds: what the user's   *)
(* edits took from others is back or still listed, and the file covers     *)
(* the network.                                                            *)
(***************************************************************************)
EXTENDS ManualEdits, SequenceTheorems, WellFoundedInduction, TLAPS

-----------------------------------------------------------------------------
(* The inductive invariant.                                                *)

Entries == [state : {"none", "applying", "applied", "stale"}, list : Seq(Resources)]

Sound(e) ==
    /\ e \in Entries /\ Len(e.list) <= MaxList
    /\ e.state = "none" => e.list = <<>>
    /\ e.state \in {"applied", "stale"} => e.list # <<>>

\* The thread at work.
Threads ==
    /\ pc \in {"down", "idle", "entry", "claim", "kernel", "save", "pass", "teardown"}
    /\ job \in [res : Seq(Resources), todo : Seq(Resources), left : Seq(Resources),
                seen : SUBSET Resources]

\* The tables.  Nothing is owed for a slot somebody else is in.
Tables ==
    /\ slot \in [Slots -> {"none", "ours", "foreign"}]
    /\ owed \subseteq Slots
    /\ \A s \in owed : slot[s] # "foreign"

\* What each phase of an edit, a pass and a teardown knows.
Phases ==
    /\ pc = "down" => entry = NoEntry /\ job = Rest
    /\ pc = "entry" => entry = NoEntry
    /\ pc \in {"entry", "claim"} => Len(entry.list) < MaxList
    /\ pc \in {"claim", "kernel", "pass"} => entry.state # "none"
    /\ pc \in {"entry", "claim", "kernel"} => Len(job.res) = 1
    /\ pc = "kernel" => entry.list # <<>> /\ entry.list[Len(entry.list)] = job.res[1]
    /\ pc = "pass" => ToSet(job.todo) \subseteq Listed(entry)
    /\ pc = "teardown" => /\ ToSet(job.todo) \cup ToSet(job.left) \subseteq Listed(entry)
                          /\ Len(job.todo) + Len(job.left) <= MaxList

\* Outside D, no suppression is listed after the object put into its slot; and
\* the other way round for a list that is worked off newest first.
Ordered(list, D) ==
    \A i, j \in 1..Len(list) : \A s \in Slots \ D :
        i < j => ~(list[i] = Net(s) /\ list[j] = Sup(s))
Backwards(list, D) ==
    \A i, j \in 1..Len(list) : \A s \in Slots \ D :
        i < j => ~(list[i] = Sup(s) /\ list[j] = Net(s))

\* While the object is still to be removed its suppression is not yet left over.
Orders ==
    /\ doubt \subseteq Slots
    /\ Ordered(entry.list, doubt) /\ Ordered(disk.list, doubt)
    /\ pc = "teardown" =>
          /\ Backwards(job.todo, doubt) /\ Ordered(job.left, doubt)
          /\ \A s \in Slots \ doubt : Net(s) \in ToSet(job.todo) => Sup(s) \notin ToSet(job.left)

\* Memory lists nothing the file does not.
Written ==
    pc # "down" =>
        \A s \in Slots \ doubt : \A r \in {Net(s), Sup(s)} : r \in Listed(entry) => r \in Listed(disk)

\* Everything of the daemon's in the tables is in `ours`, everything it owes
\* in `gone`.
Covers(ours, gone) ==
    \A s \in Slots \ doubt : /\ slot[s] = "ours" => Net(s) \in ours
                             /\ s \in owed => Sup(s) \in gone

\* The file covers the tables always, memory between edits; before the kernel
\* is asked, the list without the new claim; during a teardown, what is still
\* to be done and what could not be.
Coverage ==
    /\ Covers(Listed(disk), Listed(disk))
    /\ pc \in {"idle", "entry", "claim", "save", "pass"} => Covers(Listed(entry), Listed(entry))
    /\ pc = "kernel" => Covers(ToSet(Front(entry.list)), ToSet(Front(entry.list)))
    /\ pc = "teardown" => Covers(ToSet(job.todo), ToSet(job.todo) \cup ToSet(job.left))

ManualInv ==
    Sound(entry) /\ Sound(disk) /\ Threads /\ Tables /\ Phases /\ Orders /\ Written /\ Coverage

-----------------------------------------------------------------------------
(* Facts about lists of resources.                                         *)

\* The two kinds of record for a slot are different, and each determines it.
LEMMA Kindred ==
    /\ \A s \in Slots : Net(s) \in Resources /\ Sup(s) \in Resources
    /\ \A s, t \in Slots : Net(s) # Sup(t) /\ (Net(s) = Net(t) => s = t) /\ (Sup(s) = Sup(t) => s = t)
    /\ \A r \in Resources : /\ r.slot \in Slots
                            /\ r.kind = "net" => r = Net(r.slot)
                            /\ r.kind # "net" => r.kind = "sup" /\ r = Sup(r.slot)
    /\ \A s \in Slots : Net(s).kind = "net" /\ Sup(s).kind = "sup" /\ Net(s).slot = s /\ Sup(s).slot = s
BY DEF Net, Sup, Resources, Kinds

\* What is in a list is at one of its places.
LEMMA Places ==
    ASSUME NEW L \in Seq(Resources)
    PROVE  /\ ToSet(L) \subseteq Resources
           /\ \A r : r \in ToSet(L) <=> \E i \in 1..Len(L) : L[i] = r
           /\ Len(L) \in Nat
           /\ L # <<>> => Len(L) > 0
           /\ L = <<>> => Len(L) = 0 /\ ToSet(L) = {}
BY EmptySeq DEF ToSet

\* A list with one resource more.
LEMMA OneMore ==
    ASSUME NEW L \in Seq(Resources), NEW M \in Seq(Resources), NEW r,
           \E i \in 1..Len(M) : M[i] = r,
           \A i \in 1..Len(M) : M[i] = r \/ \E j \in 1..Len(L) : L[j] = M[i],
           \A i \in 1..Len(L) : \E j \in 1..Len(M) : M[j] = L[i]
    PROVE  ToSet(M) = ToSet(L) \cup {r}
<1>1. \A x : x \in ToSet(M) <=> \E i \in 1..Len(M) : M[i] = x BY Places
<1>2. \A x : x \in ToSet(L) <=> \E i \in 1..Len(L) : L[i] = x BY Places
<1>3. \A x : x \in ToSet(M) <=> x \in ToSet(L) \/ x = r BY <1>1, <1>2
<1> QED BY <1>3

\* The more is set aside, the less is asked.
LEMMA MoreDoubt ==
    ASSUME NEW L, NEW D, NEW E, D \subseteq E
    PROVE  /\ Ordered(L, D) => Ordered(L, E)
           /\ Backwards(L, D) => Backwards(L, E)
BY DEF Ordered, Backwards

\* The empty list.
LEMMA EmptyList ==
    ASSUME NEW D
    PROVE  Ordered(<<>>, D) /\ Backwards(<<>>, D) /\ ToSet(<<>>) = {}
BY DEF Ordered, Backwards, ToSet

\* A claim goes to the end; a suppression must not follow its object there.
LEMMA AppendList ==
    ASSUME NEW L \in Seq(Resources), NEW r \in Resources, NEW D, Ordered(L, D),
           r.kind = "sup" /\ r.slot \notin D => Net(r.slot) \notin ToSet(L)
    PROVE  /\ Append(L, r) \in Seq(Resources) /\ Append(L, r) # <<>>
           /\ Len(Append(L, r)) = Len(L) + 1
           /\ Append(L, r)[Len(L) + 1] = r
           /\ ToSet(Append(L, r)) = ToSet(L) \cup {r}
           /\ Front(Append(L, r)) = L
           /\ Ordered(Append(L, r), D)
<1> DEFINE M == Append(L, r)
<1>1. /\ M \in Seq(Resources) /\ M # <<>> /\ Len(M) = Len(L) + 1 /\ Len(L) \in Nat
      /\ \A i \in 1..Len(L) : M[i] = L[i]
      /\ M[Len(L) + 1] = r
    BY AppendProperties, LenProperties
<1> HIDE DEF M
<1>2. ToSet(M) = ToSet(L) \cup {r}
    <2>1. 1..Len(M) = 1..Len(L) \cup {Len(M)} BY <1>1
    <2> QED BY <1>1, <2>1, Places
<1>3. Front(M) = L
    <2>1. \A i \in 1..(Len(M) - 1) : M[i] \in Resources BY <1>1
    <2>2. /\ Front(M) \in Seq(Resources) /\ Len(Front(M)) = Len(L)
          /\ \A i \in 1..Len(L) : Front(M)[i] = M[i]
        BY <1>1, <2>1, SubSeqProperties DEF Front
    <2> QED BY <1>1, <2>2, SeqEqual
<1>4. Ordered(M, D)
    <2> SUFFICES ASSUME NEW i \in 1..Len(M), NEW j \in 1..Len(M), NEW s \in Slots \ D,
                        i < j, M[i] = Net(s), M[j] = Sup(s)
                 PROVE  FALSE
        BY DEF Ordered
    <2>1. i \in 1..Len(L) /\ L[i] = Net(s) BY <1>1
    <2>2. CASE j \in 1..Len(L) BY <1>1, <2>1, <2>2 DEF Ordered
    <2>3. CASE j = Len(L) + 1
        <3>1. r.kind = "sup" /\ r.slot = s BY <1>1, <2>3, Kindred
        <3>2. Net(s) \in ToSet(L) BY <2>1, Places
        <3> QED BY <3>1, <3>2
    <2> QED BY <1>1, <2>2, <2>3
<1> QED BY <1>1, <1>2, <1>3, <1>4 DEF M

\* A claim that is taken back.
LEMMA FrontList ==
    ASSUME NEW L \in Seq(Resources), L # <<>>, NEW D, Ordered(L, D)
    PROVE  /\ Front(L) \in Seq(Resources)
           /\ Len(Front(L)) = Len(L) - 1
           /\ ToSet(L) = ToSet(Front(L)) \cup {L[Len(L)]}
           /\ Ordered(Front(L), D)
<1>1. Len(L) \in Nat \ {0} BY EmptySeq
<1>2. \A i \in 1..(Len(L) - 1) : L[i] \in Resources BY <1>1
<1>3. /\ Front(L) \in Seq(Resources) /\ Len(Front(L)) = Len(L) - 1
      /\ \A i \in 1..(Len(L) - 1) : Front(L)[i] = L[i]
    <2> DEFINE n == Len(L) - 1
    <2>1. n \in Int /\ n >= 0 /\ Front(L) = SubSeq(L, 1, n) /\ \A i \in 1..n : L[i] \in Resources
        BY <1>1, <1>2 DEF Front
    <2> HIDE DEF n
    <2>2. /\ SubSeq(L, 1, n) \in Seq(Resources)
          /\ Len(SubSeq(L, 1, n)) = IF 1 <= n THEN n - 1 + 1 ELSE 0
          /\ \A i \in 1..(n - 1 + 1) : SubSeq(L, 1, n)[i] = L[1 + i - 1]
        BY <2>1, SubSeqProperties
    <2>3. Len(SubSeq(L, 1, n)) = n /\ \A i \in 1..n : SubSeq(L, 1, n)[i] = L[i] BY <2>1, <2>2
    <2> QED BY <2>1, <2>2, <2>3 DEF n
<1>4. 1..Len(L) = 1..(Len(L) - 1) \cup {Len(L)} BY <1>1
<1>5. ToSet(L) = ToSet(Front(L)) \cup {L[Len(L)]} BY <1>3, <1>4, Places
<1>6. Ordered(Front(L), D) BY <1>1, <1>3 DEF Ordered
<1> QED BY <1>3, <1>5, <1>6

\* A list worked off from its head, newest first: once a suppression is
\* reached, its object is not to come.
LEMMA TailList ==
    ASSUME NEW L \in Seq(Resources), L # <<>>
    PROVE  /\ Head(L) \in Resources /\ Tail(L) \in Seq(Resources)
           /\ Len(Tail(L)) = Len(L) - 1
           /\ ToSet(L) = ToSet(Tail(L)) \cup {Head(L)}
           /\ \A D : Backwards(L, D) =>
                /\ Backwards(Tail(L), D)
                /\ \A s \in Slots \ D : Head(L) = Sup(s) => Net(s) \notin ToSet(Tail(L))
<1>1. /\ Len(L) \in Nat \ {0} /\ Tail(L) \in Seq(Resources) /\ Len(Tail(L)) = Len(L) - 1
      /\ Head(L) \in Resources
      /\ Head(L) = L[1] /\ \A i \in 1..(Len(L) - 1) : Tail(L)[i] = L[i + 1]
    <2>1. Len(L) \in Nat \ {0} BY EmptySeq
    <2>2. /\ Head(L) \in Resources /\ Tail(L) \in Seq(Resources) /\ Len(Tail(L)) = Len(L) - 1
          /\ \A i \in 1..Len(Tail(L)) : Tail(L)[i] = L[i + 1]
        BY HeadTailProperties
    <2>3. Head(L) = L[1] OBVIOUS
    <2> QED BY <2>1, <2>2, <2>3
<1>2. \A i \in 2..Len(L) : L[i] = Tail(L)[i - 1] /\ i - 1 \in 1..(Len(L) - 1)
    BY <1>1
<1>3. ToSet(L) = ToSet(Tail(L)) \cup {Head(L)}
    <2>1. \A i \in 1..Len(L) : i = 1 \/ i \in 2..Len(L) BY <1>1
    <2>2. \A i \in 1..(Len(L) - 1) : i + 1 \in 1..Len(L) BY <1>1
    <2>3. 1 \in 1..Len(L) BY <1>1
    <2>4. \A i \in 1..Len(L) : L[i] = Head(L) \/ \E j \in 1..Len(Tail(L)) : Tail(L)[j] = L[i]
        BY <1>1, <1>2, <2>1
    <2>5. \A i \in 1..Len(Tail(L)) : \E j \in 1..Len(L) : L[j] = Tail(L)[i]
        BY <1>1, <2>2
    <2>6. \E i \in 1..Len(L) : L[i] = Head(L) BY <1>1, <2>3
    <2> QED BY <1>1, <2>4, <2>5, <2>6, OneMore
<1>4. ASSUME NEW D, Backwards(L, D) PROVE Backwards(Tail(L), D)
    <2> SUFFICES ASSUME NEW i \in 1..Len(Tail(L)), NEW j \in 1..Len(Tail(L)), NEW s \in Slots \ D,
                        i < j, Tail(L)[i] = Sup(s), Tail(L)[j] = Net(s)
                 PROVE  FALSE
        BY DEF Backwards
    <2>1. i + 1 \in 1..Len(L) /\ j + 1 \in 1..Len(L) /\ i + 1 < j + 1 BY <1>1
    <2>2. L[i + 1] = Sup(s) /\ L[j + 1] = Net(s) BY <1>1
    <2> QED BY <1>4, <2>1, <2>2 DEF Backwards
<1>5. ASSUME NEW D, Backwards(L, D), NEW s \in Slots \ D, Head(L) = Sup(s), Net(s) \in ToSet(Tail(L))
      PROVE  FALSE
    <2>1. PICK i \in 1..Len(Tail(L)) : Tail(L)[i] = Net(s) BY <1>1, <1>5, Places
    <2>2. i + 1 \in 1..Len(L) /\ 1 \in 1..Len(L) /\ 1 < i + 1 BY <1>1
    <2>3. L[i + 1] = Net(s) /\ L[1] = Sup(s) BY <1>1, <1>5, <2>1
    <2> QED BY <1>5, <2>2, <2>3 DEF Backwards
<1> QED BY <1>1, <1>3, <1>4, <1>5

\* What could not be undone goes in front of what is left over.
LEMMA ConsList ==
    ASSUME NEW L \in Seq(Resources), NEW r \in Resources, NEW D, Ordered(L, D),
           r.kind = "net" /\ r.slot \notin D => Sup(r.slot) \notin ToSet(L)
    PROVE  /\ <<r>> \o L \in Seq(Resources)
           /\ Len(<<r>> \o L) = Len(L) + 1
           /\ ToSet(<<r>> \o L) = ToSet(L) \cup {r}
           /\ Ordered(<<r>> \o L, D)
<1> DEFINE M == <<r>> \o L
<1>1. /\ M \in Seq(Resources) /\ Len(M) = Len(L) + 1 /\ Len(L) \in Nat
      /\ M[1] = r
      /\ \A i \in 2..(Len(L) + 1) : M[i] = L[i - 1]
    <2>1. <<r>> \in Seq(Resources) /\ Len(<<r>>) = 1 /\ <<r>>[1] = r OBVIOUS
    <2> QED BY <2>1, ConcatProperties, LenProperties
<1> HIDE DEF M
<1>2. ToSet(M) = ToSet(L) \cup {r}
    <2>1. \A i \in 1..Len(M) : i = 1 \/ i \in 2..(Len(L) + 1) BY <1>1
    <2>2. \A i \in 1..Len(L) : i + 1 \in 1..Len(M) /\ M[i + 1] = L[i] BY <1>1
    <2>3. \A i \in 2..(Len(L) + 1) : i - 1 \in 1..Len(L) BY <1>1
    <2>4. 1 \in 1..Len(M) BY <1>1
    <2>5. \A i \in 1..Len(M) : M[i] = r \/ \E j \in 1..Len(L) : L[j] = M[i]
        BY <1>1, <2>1, <2>3
    <2>6. \A i \in 1..Len(L) : \E j \in 1..Len(M) : M[j] = L[i] BY <2>2
    <2>7. \E i \in 1..Len(M) : M[i] = r BY <1>1, <2>4
    <2>8. M \in Seq(Resources) BY <1>1
    <2>9. \A x : x \in ToSet(M) <=> \E i \in 1..Len(M) : M[i] = x BY <2>8, Places
    <2>10. \A x : x \in ToSet(L) <=> \E i \in 1..Len(L) : L[i] = x BY Places
    <2>11. \A x : x \in ToSet(M) <=> x \in ToSet(L) \/ x = r BY <2>5, <2>6, <2>7, <2>9, <2>10
    <2> QED BY <2>11
<1>3. Ordered(M, D)
    <2> SUFFICES ASSUME NEW i \in 1..Len(M), NEW j \in 1..Len(M), NEW s \in Slots \ D,
                        i < j, M[i] = Net(s), M[j] = Sup(s)
                 PROVE  FALSE
        BY DEF Ordered
    <2>1. j - 1 \in 1..Len(L) /\ L[j - 1] = Sup(s) BY <1>1
    <2>2. CASE i = 1
        <3>1. r.kind = "net" /\ r.slot = s BY <1>1, <2>2, Kindred
        <3>2. Sup(s) \in ToSet(L) BY <2>1, Places
        <3> QED BY <3>1, <3>2
    <2>3. CASE i # 1
        <3>1. i - 1 \in 1..Len(L) /\ L[i - 1] = Net(s) /\ i - 1 < j - 1 BY <1>1, <2>3
        <3> QED BY <2>1, <3>1 DEF Ordered
    <2> QED BY <2>2, <2>3
<1> QED BY <1>1, <1>2, <1>3 DEF M

\* What a teardown works off: all of it, newest first.
LEMMA UndoList ==
    ASSUME NEW L \in Seq(Resources)
    PROVE  /\ Undo(L) \in Seq(Resources)
           /\ Len(Undo(L)) = Len(L)
           /\ ToSet(Undo(L)) = ToSet(L)
           /\ \A D : Ordered(L, D) => Backwards(Undo(L), D)
<1> DEFINE M == Undo(L)
<1>1. /\ Len(L) \in Nat
      /\ M \in Seq(Resources) /\ Len(M) = Len(L)
      /\ \A i \in 1..Len(L) : M[i] = L[Len(L) - i + 1]
    BY DEF Undo, Reverse
<1> HIDE DEF M
<1>2. \A i \in 1..Len(L) : Len(L) - i + 1 \in 1..Len(L) /\ M[Len(L) - i + 1] = L[i]
    BY <1>1
<1>3. ToSet(M) = ToSet(L)
    <2>1. \A r : r \in ToSet(M) <=> \E i \in 1..Len(L) : M[i] = r BY <1>1, Places
    <2>2. \A r : r \in ToSet(L) <=> \E i \in 1..Len(L) : L[i] = r BY Places
    <2>3. ASSUME NEW r, NEW i \in 1..Len(L), M[i] = r PROVE \E j \in 1..Len(L) : L[j] = r
        <3>1. L[Len(L) - i + 1] = r /\ Len(L) - i + 1 \in 1..Len(L) BY <1>1, <1>2, <2>3
        <3> QED BY <3>1
    <2>4. ASSUME NEW r, NEW i \in 1..Len(L), L[i] = r PROVE \E j \in 1..Len(L) : M[j] = r
        <3>1. M[Len(L) - i + 1] = r /\ Len(L) - i + 1 \in 1..Len(L) BY <1>2, <2>4
        <3> QED BY <3>1
    <2> QED BY <2>1, <2>2, <2>3, <2>4
<1>4. ASSUME NEW D, Ordered(L, D) PROVE Backwards(M, D)
    <2> SUFFICES ASSUME NEW i \in 1..Len(M), NEW j \in 1..Len(M), NEW s \in Slots \ D,
                        i < j, M[i] = Sup(s), M[j] = Net(s)
                 PROVE  FALSE
        BY DEF Backwards
    <2> DEFINE a == Len(L) - i + 1
               b == Len(L) - j + 1
    <2>1. a \in 1..Len(L) /\ b \in 1..Len(L) /\ b < a BY <1>1
    <2>2. L[a] = Sup(s) /\ L[b] = Net(s) BY <1>1
    <2> HIDE DEF a, b
    <2> QED BY <1>4, <2>1, <2>2 DEF Ordered
<1> QED BY <1>1, <1>3, <1>4 DEF M

\* Induction over the naturals, for a set: a least number outside it would be
\* the successor of one inside.
LEMMA NatInduction_Set ==
    ASSUME NEW S, 0 \in S, \A n \in Nat : n \in S => n + 1 \in S
    PROVE  Nat \subseteq S
<1> DEFINE R == {p \in Nat \X Nat : p[1] < p[2]}
<1> DEFINE T == Nat \ S
<1>1. R = OpToRel(<, Nat)
    BY DEF OpToRel
<1>2. IsWellFoundedOn(R, Nat)
    BY <1>1, NatLessThanWellFounded, Zenon
<1>3. ASSUME T # {} PROVE \E x \in T : \A y \in T : ~(<<y, x>> \in R)
    <2>1. T \subseteq Nat OBVIOUS
    <2> HIDE DEF R, T
    <2> QED BY <1>2, <1>3, <2>1, WFMin
<1>4. ASSUME NEW x \in T, \A y \in T : ~(<<y, x>> \in R) PROVE FALSE
    <2>1. x # 0 /\ x \in Nat /\ x - 1 \in Nat OBVIOUS
    <2>2. <<x - 1, x>> \in R BY <2>1
    <2>3. x - 1 \in S BY <1>4, <2>1, <2>2
    <2> QED BY <2>1, <2>3
<1> QED BY <1>3, <1>4

\* What is kept of each prefix exists: each is made from the one before.
LEMMA KeptExists ==
    ASSUME NEW L \in Seq(Resources), NEW x
    PROVE  \E a : /\ a = [i \in 0..Len(L) |-> IF i = 0 THEN <<>>
                            ELSE IF L[i] = x THEN a[i - 1] ELSE Append(a[i - 1], L[i])]
                  /\ Without(L, x) = a[Len(L)]
<1> DEFINE F(a, i) == IF i = 0 THEN <<>>
                      ELSE IF L[i] = x THEN a[i - 1] ELSE Append(a[i - 1], L[i])
<1> DEFINE G(a, n) == a = [i \in 0..n |-> F(a, i)]
<1> DEFINE S == {n \in Nat : \E a : G(a, n)}
<1>1. 0 \in S
    <2>1. G([i \in 0..0 |-> <<>>], 0) OBVIOUS
    <2> QED BY <2>1
<1>2. ASSUME NEW n \in Nat, n \in S PROVE n + 1 \in S
    <2>1. PICK a : G(a, n) BY <1>2
    <2>2. \A i \in 0..n : a[i] = F(a, i) BY <2>1
    <2> DEFINE b == [i \in 0..(n + 1) |-> IF i = n + 1 THEN F(a, n + 1) ELSE a[i]]
    <2>3. ASSUME NEW i \in 0..(n + 1) PROVE b[i] = F(b, i)
        <3>1. CASE i = n + 1 BY <3>1
        <3>2. CASE i # n + 1 BY <3>2, <2>2
        <3> QED BY <3>1, <3>2
    <2>4. G(b, n + 1) BY <2>3
    <2>5. n + 1 \in Nat OBVIOUS
    <2> HIDE DEF b, G
    <2> QED BY <2>4, <2>5
<1>3. Len(L) \in S
    <2>1. Len(L) \in Nat OBVIOUS
    <2> HIDE DEF S
    <2> QED BY <1>1, <1>2, <2>1, NatInduction_Set
<1> QED BY <1>3 DEF Without

\* Dropping a resource drops nothing else and keeps the order.
LEMMA WithoutList ==
    ASSUME NEW L \in Seq(Resources), NEW x, NEW D, Ordered(L, D)
    PROVE  /\ Without(L, x) \in Seq(Resources)
           /\ Len(Without(L, x)) <= Len(L)
           /\ ToSet(Without(L, x)) = ToSet(L) \ {x}
           /\ Ordered(Without(L, x), D)
<1>1. PICK a : /\ a = [i \in 0..Len(L) |-> IF i = 0 THEN <<>>
                         ELSE IF L[i] = x THEN a[i - 1] ELSE Append(a[i - 1], L[i])]
               /\ Without(L, x) = a[Len(L)]
    BY KeptExists
<1>2. Len(L) \in Nat /\ \A i \in 1..Len(L) : L[i] \in Resources OBVIOUS
<1>3. a[0] = <<>> /\ \A i \in 1..Len(L) : a[i] = IF L[i] = x THEN a[i - 1] ELSE Append(a[i - 1], L[i])
    <2> DEFINE F(i) == IF i = 0 THEN <<>>
                       ELSE IF L[i] = x THEN a[i - 1] ELSE Append(a[i - 1], L[i])
    <2>1. a = [i \in 0..Len(L) |-> F(i)] BY <1>1
    <2>2. \A i \in 0..Len(L) : a[i] = F(i)
        <3> HIDE DEF F
        <3> QED BY <2>1
    <2>3. 0 \in 0..Len(L) /\ \A i \in 1..Len(L) : i \in 0..Len(L) /\ i # 0 BY <1>2
    <2> QED BY <2>2, <2>3
<1> DEFINE Reached(n, M) ==
    /\ M \in Seq(Resources) /\ Len(M) <= n /\ Ordered(M, D)
    /\ \A y \in Resources : y \in ToSet(M) <=> (y # x /\ \E i \in 1..n : L[i] = y)
<1> DEFINE S == {n \in Nat : n <= Len(L) => Reached(n, a[n])}
<1>4. 0 \in S
    <2>1. Reached(0, <<>>) BY EmptyList
    <2> HIDE DEF Reached
    <2> QED BY <1>3, <2>1
<1>5. ASSUME NEW n \in Nat, n \in S PROVE n + 1 \in S
    <2> SUFFICES ASSUME n + 1 <= Len(L) PROVE Reached(n + 1, a[n + 1]) OBVIOUS
    <2> DEFINE M == a[n]
               r == L[n + 1]
    <2>1. Reached(n, M)
        <3> HIDE DEF Reached
        <3> QED BY <1>2, <1>5
    <2>2. r \in Resources /\ a[n + 1] = IF r = x THEN M ELSE Append(M, r)
        BY <1>2, <1>3
    <2> HIDE DEF M
    <2>3. \A y : (\E i \in 1..(n + 1) : L[i] = y) <=> (y = r \/ \E i \in 1..n : L[i] = y)
        <3>1. 1..(n + 1) = 1..n \cup {n + 1} OBVIOUS
        <3> QED BY <3>1
    <2>4. r.kind = "sup" /\ r.slot \notin D => Net(r.slot) \notin ToSet(M)
        <3> SUFFICES ASSUME r.kind = "sup", r.slot \notin D, Net(r.slot) \in ToSet(M) PROVE FALSE
            OBVIOUS
        <3>1. r.slot \in Slots \ D /\ r = Sup(r.slot) /\ Net(r.slot) \in Resources
            <4> HIDE DEF r
            <4> QED BY <2>2, Kindred
        <3> DEFINE t == r.slot
        <3>2. t \in Slots \ D /\ L[n + 1] = Sup(t) /\ Net(t) \in ToSet(M) /\ Net(t) \in Resources BY <3>1
        <3> HIDE DEF r, t
        <3>3. PICK i \in 1..n : L[i] = Net(t) BY <2>1, <3>2
        <3>4. i \in 1..Len(L) /\ n + 1 \in 1..Len(L) /\ i < n + 1 BY <1>2
        <3> QED BY <3>2, <3>3, <3>4 DEF Ordered
    <2> HIDE DEF r
    <2>5. CASE r = x
        <3>1. a[n + 1] = M BY <2>2, <2>5
        <3>2. M \in Seq(Resources) /\ Len(M) <= n + 1 /\ Ordered(M, D) BY <2>1
        <3>3. \A y \in Resources : y \in ToSet(M) <=> (y # x /\ \E i \in 1..(n + 1) : L[i] = y)
            BY <2>1, <2>3, <2>5
        <3>4. Reached(n + 1, M) BY <3>2, <3>3
        <3> HIDE DEF Reached
        <3> QED BY <3>1, <3>4
    <2>6. CASE r # x
        <3> DEFINE W == Append(M, r)
        <3>1. a[n + 1] = W BY <2>2, <2>6
        <3>2. /\ W \in Seq(Resources) /\ Len(W) = Len(M) + 1
              /\ ToSet(W) = ToSet(M) \cup {r} /\ Ordered(W, D)
            BY <2>1, <2>2, <2>4, AppendList
        <3>3. Len(M) \in Nat /\ Len(M) <= n BY <2>1
        <3> HIDE DEF W
        <3>4. \A y \in Resources : y \in ToSet(W) <=> (y # x /\ \E i \in 1..(n + 1) : L[i] = y)
            BY <2>1, <2>3, <2>6, <3>2
        <3>5. Reached(n + 1, W) BY <3>2, <3>3, <3>4
        <3> HIDE DEF Reached
        <3> QED BY <3>1, <3>5
    <2> QED BY <2>5, <2>6
<1>6. Reached(Len(L), a[Len(L)])
    <2>1. Nat \subseteq S
        <3> HIDE DEF S
        <3> QED BY <1>4, <1>5, NatInduction_Set
    <2> HIDE DEF Reached
    <2> QED BY <1>2, <2>1
<1> DEFINE W == Without(L, x)
<1>7. W \in Seq(Resources) /\ Len(W) <= Len(L) /\ Ordered(W, D) BY <1>1, <1>6
<1>8. \A y \in Resources : y \in ToSet(W) <=> (y # x /\ \E i \in 1..Len(L) : L[i] = y) BY <1>1, <1>6
<1> HIDE DEF W
<1>9. ToSet(W) = ToSet(L) \ {x} BY <1>7, <1>8, Places
<1> QED BY <1>7, <1>9 DEF W

-----------------------------------------------------------------------------
(* Facts about the operations.                                             *)

\* Putting an object into a slot: only that slot changes, what is put back is
\* no longer owed, and a refusal or a failure changes nothing.
LEMMA PutFacts ==
    ASSUME Tables, NEW s \in Slots, NEW who \in {"ours", "foreign"}, NEW how \in Hows,
           Put(s, who, how), owed' = Owed
    PROVE  /\ Tables'
           /\ \A t \in Slots \ {s} : slot'[t] = slot[t] /\ (t \in owed' <=> t \in owed)
           /\ how \in {"done", "unsure"} => slot'[s] = who
           /\ how \in {"done", "unsure"} /\ who = "foreign" => s \notin owed'
           /\ s \in owed' => s \in owed
           /\ how \in {"refused", "failed"} => slot'[s] = slot[s]
           /\ how = "refused" => slot[s] # "none"
<1>1. CASE how \in {"done", "unsure"}
    <2>1. slot[s] = "none" /\ slot' = [slot EXCEPT ![s] = who] BY <1>1 DEF Put
    <2> QED BY <1>1, <2>1 DEF Tables, Owed
<1>2. CASE how \in {"refused", "failed"}
    <2>1. slot' = slot /\ (how = "refused" => slot[s] # "none") BY <1>2 DEF Put
    <2> QED BY <1>2, <2>1 DEF Tables, Owed
<1> QED BY <1>1, <1>2 DEF Hows

\* Taking one out: what is taken from others is owed.
LEMMA TakeFacts ==
    ASSUME Tables, NEW s \in Slots, NEW who \in {"ours", "foreign"}, NEW how \in Hows,
           Take(s, who, how), owed' = Owed
    PROVE  /\ Tables'
           /\ \A t \in Slots \ {s} : slot'[t] = slot[t] /\ (t \in owed' <=> t \in owed)
           /\ slot'[s] = "ours" => slot[s] = "ours"
           /\ how \in {"done", "unsure"} => slot'[s] = "none"
           /\ how \in {"refused", "failed"} => slot'[s] = slot[s] /\ (s \in owed' => s \in owed)
           /\ who = "ours" => (s \in owed' => s \in owed)
           /\ how = "refused" => slot[s] # who
<1>1. CASE how \in {"done", "unsure"}
    <2>1. slot[s] = who /\ slot' = [slot EXCEPT ![s] = "none"] BY <1>1 DEF Take
    <2> QED BY <1>1, <2>1 DEF Tables, Owed
<1>2. CASE how \in {"refused", "failed"}
    <2>1. slot' = slot /\ (how = "refused" => slot[s] # who) BY <1>2 DEF Take
    <2> QED BY <1>2, <2>1 DEF Tables, Owed
<1> QED BY <1>1, <1>2 DEF Hows

\* An entry that stays or is dropped when its list is empty.
LEMMA KeptFacts ==
    ASSUME NEW e \in Entries, Len(e.list) <= MaxList, e.state # "none"
    PROVE  Sound(Kept(e)) /\ Kept(e).list = e.list
BY ManualAssumption DEF Kept, NoEntry, Sound, Entries

\* No entry at all.
LEMMA NoEntryFacts ==
    Sound(NoEntry) /\ NoEntry.list = <<>> /\ NoEntry.state = "none" /\ Listed(NoEntry) = {}
BY ManualAssumption, EmptyList DEF NoEntry, Sound, Entries, Listed

\* The operands of a thread at rest.
LEMMA RestFacts ==
    /\ Rest \in [res : Seq(Resources), todo : Seq(Resources), left : Seq(Resources),
                 seen : SUBSET Resources]
    /\ Rest.todo = <<>> /\ Rest.left = <<>>
    /\ \A x : [Rest EXCEPT !.res = x] = [res |-> x, todo |-> <<>>, left |-> <<>>, seen |-> {}]
    /\ \A x : [Rest EXCEPT !.todo = x] = [res |-> <<>>, todo |-> x, left |-> <<>>, seen |-> {}]
    /\ \A x, y : [Rest EXCEPT !.todo = x, !.seen = y]
                    = [res |-> <<>>, todo |-> x, left |-> <<>>, seen |-> y]
<1>1. Rest \in [res : Seq(Resources), todo : Seq(Resources), left : Seq(Resources),
                seen : SUBSET Resources] /\ Rest.todo = <<>> /\ Rest.left = <<>>
    BY DEF Rest
<1>2. ASSUME NEW x
      PROVE  [Rest EXCEPT !.res = x] = [res |-> x, todo |-> <<>>, left |-> <<>>, seen |-> {}]
    BY DEF Rest
<1> DEFINE z == <<>>
           none == {}
<1>0. Rest = [res |-> z, todo |-> z, left |-> z, seen |-> none] BY DEF Rest
<1> HIDE DEF z, none
<1>3. ASSUME NEW x
      PROVE  [Rest EXCEPT !.todo = x] = [res |-> z, todo |-> x, left |-> z, seen |-> none]
    BY <1>0
<1>4. ASSUME NEW x, NEW y
      PROVE  [Rest EXCEPT !.todo = x, !.seen = y] = [res |-> z, todo |-> x, left |-> z, seen |-> y]
    <2> DEFINE k == [res |-> z, todo |-> x, left |-> z, seen |-> none]
    <2>1. [Rest EXCEPT !.todo = x, !.seen = y] = [[Rest EXCEPT !.todo = x] EXCEPT !.seen = y]
        OBVIOUS
    <2>2. [Rest EXCEPT !.todo = x] = k BY <1>3
    <2>3. [k EXCEPT !.seen = y] = [res |-> z, todo |-> x, left |-> z, seen |-> y] OBVIOUS
    <2> HIDE DEF k
    <2> QED BY <2>1, <2>2, <2>3
<1> QED BY <1>1, <1>2, <1>3, <1>4 DEF z, none

-----------------------------------------------------------------------------
(* Every step keeps the invariant.                                         *)

\* Nothing is listed and nothing is touched at first.
LEMMA ManualStart == Init => ManualInv
<1> SUFFICES ASSUME Init PROVE ManualInv OBVIOUS
<1>1. /\ entry = NoEntry /\ disk = NoEntry /\ pc = "idle" /\ job = Rest
      /\ slot \in [Slots -> {"none", "foreign"}] /\ owed = {} /\ doubt = {}
    BY DEF Init
<1>2. Threads BY <1>1, RestFacts DEF Threads
<1>3. Tables BY <1>1 DEF Tables
<1>4. Phases BY <1>1, NoEntryFacts DEF Phases
<1>5. Orders BY <1>1, NoEntryFacts, EmptyList DEF Orders
<1>6. Written BY <1>1, NoEntryFacts DEF Written
<1>7. Coverage BY <1>1, NoEntryFacts DEF Coverage, Covers
<1> QED BY <1>1, <1>2, <1>3, <1>4, <1>5, <1>6, <1>7, NoEntryFacts DEF ManualInv

\* An edit begins: nothing but the thread moves.
LEMMA EditInv ==
    ASSUME ManualInv, NEW k \in Kinds, NEW s \in Slots, Edit(k, s)
    PROVE  ManualInv'
<1> DEFINE r == [kind |-> k, slot |-> s]
           j == [Rest EXCEPT !.res = <<r>>]
<1>0. /\ pc = "idle" /\ Len(entry.list) < MaxList
      /\ job' = j /\ pc' = IF entry = NoEntry THEN "entry" ELSE "claim"
      /\ UNCHANGED <<entry, disk, slot, owed, doubt>>
    BY DEF Edit, hist
<1>1. j \in [res : Seq(Resources), todo : Seq(Resources), left : Seq(Resources),
             seen : SUBSET Resources] /\ Len(j.res) = 1
    <2>1. r \in Resources /\ <<r>> \in Seq(Resources) /\ Len(<<r>>) = 1 BY DEF Resources
    <2>2. j = [res |-> <<r>>, todo |-> <<>>, left |-> <<>>, seen |-> {}]
        <3> HIDE DEF r
        <3> QED BY RestFacts
    <2> HIDE DEF r, j
    <2> QED BY <2>1, <2>2
<1> HIDE DEF r, j
<1>2. Threads' BY <1>0, <1>1 DEF Threads
<1>3. Tables' BY <1>0 DEF ManualInv, Tables
<1>4. Sound(entry)' /\ Sound(disk)' BY <1>0 DEF ManualInv
<1>5. entry # NoEntry => entry.state # "none"
    BY DEF ManualInv, Sound, Entries, NoEntry
<1>6. Phases' BY <1>0, <1>1, <1>5 DEF ManualInv, Phases
<1>7. Orders' BY <1>0 DEF ManualInv, Orders
<1>8. Written' BY <1>0 DEF ManualInv, Written, Listed
<1>9. Coverage' BY <1>0 DEF ManualInv, Coverage, Covers, Listed
<1> QED BY <1>2, <1>3, <1>4, <1>6, <1>7, <1>8, <1>9 DEF ManualInv

\* What a save leaves on disk is one of the two documents.
LEMMA SaveFacts ==
    ASSUME NEW e, NEW ok \in BOOLEAN, Save(e, ok)
    PROVE  disk' \in {disk, e} /\ (ok => disk' = e)
BY DEF Save

\* The entry is made.
LEMMA ManualEntryInv ==
    ASSUME ManualInv, NEW ok \in BOOLEAN, ManualEntry(ok)
    PROVE  ManualInv'
<1> DEFINE e == [NoEntry EXCEPT !.state = "applying"]
<1>0. /\ pc = "entry" /\ entry' = e /\ Save(e, ok)
      /\ \/ ok /\ pc' = "claim" /\ job' = job
         \/ ~ok /\ pc' = "idle" /\ job' = Rest
      /\ UNCHANGED <<slot, owed, doubt>>
    BY DEF ManualEntry, hist
<1>1. Sound(e) /\ e.list = <<>> /\ e.state = "applying" /\ Listed(e) = {} /\ Len(e.list) = 0
    <2>1. e = [state |-> "applying", list |-> <<>>] BY DEF NoEntry
    <2> HIDE DEF e
    <2> QED BY <2>1, ManualAssumption, EmptyList DEF Sound, Entries, Listed
<1> HIDE DEF e
<1>2. disk' \in {disk, e} BY <1>0, SaveFacts
<1>3. /\ Len(entry.list) < MaxList /\ entry = NoEntry /\ Len(job.res) = 1 /\ Threads
      /\ Covers(Listed(entry), Listed(entry)) /\ Covers(Listed(disk), Listed(disk))
    BY <1>0 DEF ManualInv, Phases, Coverage
<1>4. Covers({}, {}) BY <1>3, NoEntryFacts
<1>5. Threads' BY <1>0, <1>3, RestFacts DEF Threads
<1>6. Tables' BY <1>0 DEF ManualInv, Tables
<1>7. Sound(entry)' /\ Sound(disk)' BY <1>0, <1>1, <1>2 DEF ManualInv
<1>8. Phases'
    <2>1. Len(e.list) < MaxList BY <1>1, <1>3, NoEntryFacts, EmptySeq
    <2> QED BY <1>0, <1>1, <1>3, <2>1 DEF Phases
<1>9. Orders' BY <1>0, <1>1, <1>2, EmptyList DEF ManualInv, Orders
<1>10. Written' BY <1>0, <1>1 DEF Written
<1>11. Coverage'
    <2>1. Covers(Listed(entry), Listed(entry))' BY <1>0, <1>1, <1>4 DEF Covers
    <2>2. Covers(Listed(disk), Listed(disk))'
        <3>1. CASE disk' = disk BY <1>0, <1>3, <3>1 DEF Covers, Listed
        <3>2. CASE disk' = e BY <1>0, <1>1, <1>4, <3>2 DEF Covers
        <3> QED BY <1>2, <3>1, <3>2
    <2> QED BY <1>0, <2>1, <2>2 DEF Coverage
<1> QED BY <1>5, <1>6, <1>7, <1>8, <1>9, <1>10, <1>11 DEF ManualInv

\* The claim is listed, and in the file before the kernel is asked; where it is
\* not, the slot is set aside.
LEMMA ClaimInv ==
    ASSUME ManualInv, NEW ok \in BOOLEAN, Claim(ok)
    PROVE  ManualInv'
<1> DEFINE r == job.res[1]
           L == Append(entry.list, r)
           e == [state |-> IF r.kind = "net" THEN "applying" ELSE "applied", list |-> L]
<1>0. /\ pc = "claim" /\ entry' = e /\ Save(e, ok)
      /\ doubt' = IF (~ok /\ r \notin Listed(disk)) \/ Buried(r) THEN doubt \cup {r.slot} ELSE doubt
      /\ \/ ok /\ pc' = "kernel" /\ job' = job
         \/ ~ok /\ pc' = "idle" /\ job' = Rest
      /\ UNCHANGED <<slot, owed>>
    BY DEF Claim
<1>1. /\ entry.list \in Seq(Resources) /\ Len(entry.list) < MaxList /\ Len(entry.list) \in Nat
      /\ Len(job.res) = 1 /\ r \in Resources /\ doubt \subseteq Slots
      /\ Ordered(entry.list, doubt) /\ Ordered(disk.list, doubt)
    BY <1>0 DEF ManualInv, Phases, Sound, Entries, Orders, Threads
<1>2. /\ r.slot \in Slots /\ (r = Net(r.slot) \/ r = Sup(r.slot))
      /\ (r.kind = "sup" /\ r.slot \notin doubt' => Net(r.slot) \notin ToSet(entry.list))
      /\ doubt \subseteq doubt' /\ doubt' \subseteq Slots
      /\ (~ok /\ r \notin Listed(disk) => r.slot \in doubt')
    <2> HIDE DEF r
    <2> QED BY <1>0, <1>1, Kindred DEF Buried, Listed
<1>3. /\ Covers(Listed(entry), Listed(entry)) /\ Covers(Listed(disk), Listed(disk))
      /\ Threads /\ Sound(disk) /\ Written
    BY <1>0 DEF ManualInv, Coverage
<1> HIDE DEF r
<1>4. /\ L \in Seq(Resources) /\ L # <<>> /\ Len(L) = Len(entry.list) + 1 /\ L[Len(L)] = r
      /\ ToSet(L) = ToSet(entry.list) \cup {r} /\ Front(L) = entry.list /\ Ordered(L, doubt')
    <2>1. Ordered(entry.list, doubt') BY <1>1, <1>2, MoreDoubt
    <2> QED BY <1>1, <1>2, <2>1, AppendList
<1> HIDE DEF L
<1>5. /\ Sound(e) /\ e.list = L /\ e.state # "none" /\ Listed(e) = Listed(entry) \cup {r}
    <2> DEFINE st == IF r.kind = "net" THEN "applying" ELSE "applied"
    <2>1. e = [state |-> st, list |-> L] /\ st \in {"applying", "applied"} OBVIOUS
    <2> HIDE DEF e, st
    <2>2. e \in Entries /\ e.list = L /\ e.state = st BY <1>4, <2>1 DEF Entries
    <2>3. Len(e.list) <= MaxList /\ e.list # <<>> BY <1>1, <1>4, <2>2, ManualAssumption
    <2>4. e.state # "none" BY <2>1, <2>2
    <2>5. Listed(e) = Listed(entry) \cup {r} BY <1>4, <2>2 DEF Listed
    <2> QED BY <2>2, <2>3, <2>4, <2>5 DEF Sound
<1> HIDE DEF e
<1>6. disk' \in {disk, e} /\ (ok => disk' = e) BY <1>0, SaveFacts
<1>7. Threads' BY <1>0, <1>3, RestFacts DEF Threads
<1>8. Tables' BY <1>0 DEF ManualInv, Tables
<1>9. Sound(entry)' /\ Sound(disk)' BY <1>0, <1>3, <1>5, <1>6
<1>10. Phases' BY <1>0, <1>1, <1>4, <1>5 DEF Phases, r
<1>11. Orders'
    <2>1. Ordered(disk.list, doubt') BY <1>1, <1>2, MoreDoubt
    <2>2. Ordered(disk.list, doubt)' BY <2>1, <1>4, <1>5, <1>6
    <2> QED BY <1>0, <1>2, <1>4, <1>5, <2>2 DEF Orders
<1>12. Written'
    <2> SUFFICES ASSUME NEW s \in Slots \ doubt', NEW q \in {Net(s), Sup(s)}, q \in Listed(e)
                 PROVE  q \in Listed(disk')
        BY <1>0 DEF Written, Listed
    <2>1. CASE disk' = e BY <2>1
    <2>2. CASE disk' # e
        <3>1. disk' = disk /\ ~ok BY <2>2, <1>6
        <3>2. q = r => q \in Listed(disk) BY <1>2, <3>1, Kindred
        <3>3. q \in Listed(entry) => q \in Listed(disk) BY <1>0, <1>2, <1>3 DEF Written
        <3> QED BY <1>5, <3>1, <3>2, <3>3
    <2> QED BY <2>1, <2>2
<1>13. Coverage'
    <2>1. Covers(Listed(entry), Listed(entry))'
        BY <1>0, <1>2, <1>3, <1>5 DEF Covers, Listed
    <2>2. Covers(Listed(disk), Listed(disk))'
        <3>1. CASE disk' = disk BY <1>0, <1>2, <1>3, <3>1 DEF Covers, Listed
        <3>2. CASE disk' = e BY <1>0, <2>1, <3>2 DEF Covers, Listed
        <3> QED BY <1>6, <3>1, <3>2
    <2>3. Covers(ToSet(Front(entry.list)), ToSet(Front(entry.list)))'
        BY <1>0, <1>2, <1>3, <1>4, <1>5 DEF Covers, Listed
    <2> QED BY <1>0, <2>1, <2>2, <2>3 DEF Coverage
<1> QED BY <1>7, <1>8, <1>9, <1>10, <1>11, <1>12, <1>13 DEF ManualInv

\* The last save of an operation.
LEMMA SaveLastInv ==
    ASSUME ManualInv, NEW ok \in BOOLEAN, SaveLast(ok)
    PROVE  ManualInv'
<1>0. /\ pc = "save" /\ pc' = "idle" /\ disk' \in {disk, entry}
      /\ UNCHANGED <<entry, slot, job, owed, doubt>>
    BY SaveFacts DEF SaveLast, hist
<1>1. Threads' BY <1>0 DEF ManualInv, Threads
<1>2. Tables' BY <1>0 DEF ManualInv, Tables
<1>3. Sound(entry)' /\ Sound(disk)' BY <1>0 DEF ManualInv
<1>4. Phases' BY <1>0 DEF Phases
<1>5. Orders' BY <1>0 DEF ManualInv, Orders
<1>6. Written' BY <1>0 DEF ManualInv, Written, Listed
<1>7. Coverage' BY <1>0 DEF ManualInv, Coverage, Covers, Listed
<1> QED BY <1>1, <1>2, <1>3, <1>4, <1>5, <1>6, <1>7 DEF ManualInv

\* The daemon dies: the file, and what it covers, stays.
LEMMA CrashInv ==
    ASSUME ManualInv, Crash
    PROVE  ManualInv'
<1>0. /\ pc' = "down" /\ job' = Rest /\ entry' = NoEntry /\ UNCHANGED <<disk, slot, owed, doubt>>
    BY DEF Crash, hist
<1>1. Threads' BY <1>0, RestFacts DEF Threads
<1>2. Tables' BY <1>0 DEF ManualInv, Tables
<1>3. Sound(entry)' /\ Sound(disk)' BY <1>0, NoEntryFacts DEF ManualInv
<1>4. Phases' BY <1>0 DEF Phases
<1>5. Orders' BY <1>0, NoEntryFacts, EmptyList DEF ManualInv, Orders
<1>6. Written' BY <1>0 DEF Written
<1>7. Coverage' BY <1>0 DEF ManualInv, Coverage, Covers, Listed
<1> QED BY <1>1, <1>2, <1>3, <1>4, <1>5, <1>6, <1>7 DEF ManualInv

\* Others at work: nothing more is the daemon's, and nothing more is owed.
LEMMA OutsideInv ==
    ASSUME ManualInv, NEW s \in Slots, Outside(s)
    PROVE  ManualInv'
<1>0. PICK who \in {"none", "foreign"} : slot' = [slot EXCEPT ![s] = who]
    BY DEF Outside
<1>1. owed' = owed \ {s} /\ UNCHANGED <<entry, disk, pc, job, doubt>>
    BY DEF Outside, core
<1>2. /\ Tables' /\ \A t \in Slots : /\ slot'[t] = "ours" => slot[t] = "ours"
                                     /\ t \in owed' => t \in owed
    BY <1>0, <1>1 DEF ManualInv, Tables
<1>3. \A A, B : Covers(A, B) => \A t \in Slots \ doubt' : /\ slot'[t] = "ours" => Net(t) \in A
                                                          /\ t \in owed' => Sup(t) \in B
    BY <1>1, <1>2 DEF Covers
<1>4. Threads' BY <1>1 DEF ManualInv, Threads
<1>5. Sound(entry)' /\ Sound(disk)' BY <1>1 DEF ManualInv
<1>6. Phases' BY <1>1 DEF ManualInv, Phases, Listed
<1>7. Orders' BY <1>1 DEF ManualInv, Orders
<1>8. Written' BY <1>1 DEF ManualInv, Written, Listed
<1>9. Coverage'
    <2>1. Covers(Listed(disk), Listed(disk))'
        BY <1>1, <1>3 DEF ManualInv, Coverage, Covers, Listed
    <2>2. pc \in {"idle", "entry", "claim", "save", "pass"} => Covers(Listed(entry), Listed(entry))'
        BY <1>1, <1>3 DEF ManualInv, Coverage, Covers, Listed
    <2>3. pc = "kernel" => Covers(ToSet(Front(entry.list)), ToSet(Front(entry.list)))'
        BY <1>1, <1>3 DEF ManualInv, Coverage, Covers
    <2>4. pc = "teardown" => Covers(ToSet(job.todo), ToSet(job.todo) \cup ToSet(job.left))'
        BY <1>1, <1>3 DEF ManualInv, Coverage, Covers
    <2> QED BY <1>1, <2>1, <2>2, <2>3, <2>4 DEF Coverage
<1> QED BY <1>2, <1>4, <1>5, <1>6, <1>7, <1>8, <1>9 DEF ManualInv

\* The kernel call: done, the claim stands; otherwise it is taken back.
LEMMA KernelEditInv ==
    ASSUME ManualInv, NEW how \in Hows, KernelEdit(how)
    PROVE  ManualInv'
<1> DEFINE r == job.res[1]
           F == Front(entry.list)
<1>0. /\ pc = "kernel" /\ owed' = Owed
      /\ IF r.kind = "net" THEN Put(r.slot, "ours", how) ELSE Take(r.slot, "foreign", how)
      /\ doubt' = IF how = "unsure" THEN doubt \cup {r.slot} ELSE doubt
      /\ entry' = IF how = "done" THEN [entry EXCEPT !.state = "applied"]
                  ELSE Kept([entry EXCEPT !.list = F])
      /\ pc' = "save" /\ job' = Rest /\ disk' = disk
    BY DEF KernelEdit
<1>1. /\ entry \in Entries /\ entry.list # <<>> /\ entry.list[Len(entry.list)] = r
      /\ Len(entry.list) <= MaxList /\ entry.state # "none"
      /\ entry.list \in Seq(Resources) /\ Len(entry.list) \in Nat \ {0} /\ doubt \subseteq Slots
      /\ Ordered(entry.list, doubt) /\ Ordered(disk.list, doubt) /\ Tables /\ Sound(disk)
      /\ Covers(ToSet(F), ToSet(F)) /\ Covers(Listed(disk), Listed(disk)) /\ Written
    BY <1>0, EmptySeq DEF ManualInv, Phases, Sound, Entries, Orders, Coverage
<1>2. r \in Resources /\ r \in ToSet(entry.list)
    <2>1. Len(entry.list) \in 1..Len(entry.list) BY <1>1
    <2> HIDE DEF r
    <2> QED BY <1>1, <2>1, Places
<1> HIDE DEF r
<1>3. /\ F \in Seq(Resources) /\ Len(F) = Len(entry.list) - 1
      /\ ToSet(entry.list) = ToSet(F) \cup {r} /\ Ordered(F, doubt)
    BY <1>1, FrontList
<1> HIDE DEF F
<1>4. r.slot \in Slots /\ ((r.kind = "net" /\ r = Net(r.slot)) \/ (r.kind = "sup" /\ r = Sup(r.slot)))
    BY <1>2, Kindred
<1>5. doubt \subseteq doubt' /\ doubt' \subseteq Slots /\ (how = "unsure" => r.slot \in doubt')
    BY <1>0, <1>1, <1>4
<1>6. /\ Sound(entry') /\ entry'.list \in {entry.list, F}
      /\ how = "done" => entry'.list = entry.list
    <2>1. CASE how = "done" BY <1>0, <1>1, <2>1 DEF Sound, Entries
    <2>2. CASE how # "done"
        <3> DEFINE e == [entry EXCEPT !.list = F]
        <3>1. e \in Entries /\ e.list = F /\ e.state # "none" BY <1>1, <1>3 DEF Entries
        <3>2. entry' = Kept(e) BY <1>0, <2>2
        <3> HIDE DEF e
        <3>3. Len(e.list) <= MaxList BY <1>1, <1>3, <3>1, ManualAssumption
        <3> QED BY <2>2, <3>1, <3>2, <3>3, KeptFacts
    <2> QED BY <2>1, <2>2
<1>7. /\ Tables'
      /\ \A t \in Slots \ {r.slot} : slot'[t] = slot[t] /\ (t \in owed' <=> t \in owed)
      /\ how \in {"refused", "failed"} =>
            slot'[r.slot] = slot[r.slot] /\ (r.slot \in owed' => r.slot \in owed)
      /\ r.kind = "net" => (r.slot \in owed' => r.slot \in owed)
      /\ r.kind = "sup" => (slot'[r.slot] = "ours" => slot[r.slot] = "ours")
    <2>1. CASE r.kind = "net" BY <1>0, <1>1, <1>4, <2>1, PutFacts
    <2>2. CASE r.kind = "sup" BY <1>0, <1>1, <1>4, <2>2, TakeFacts
    <2> QED BY <1>4, <2>1, <2>2
<1>8. Threads' BY <1>0, RestFacts DEF Threads
<1>9. Sound(entry)' /\ Sound(disk)' BY <1>0, <1>1, <1>6
<1>10. Phases' BY <1>0 DEF Phases
<1>11. Orders'
    <2>1. Ordered(entry.list, doubt') /\ Ordered(F, doubt') /\ Ordered(disk.list, doubt')
        BY <1>1, <1>3, <1>5, MoreDoubt
    <2> QED BY <1>0, <1>5, <1>6, <2>1 DEF Orders
<1>12. \A q : q \in Listed(entry') => q \in Listed(entry)
    BY <1>3, <1>6 DEF Listed
<1>13. Written'
    BY <1>0, <1>1, <1>5, <1>12 DEF Written, Listed
<1>14. Covers(Listed(entry), Listed(entry))'
    <2> SUFFICES ASSUME NEW s \in Slots \ doubt'
                 PROVE  /\ slot'[s] = "ours" => Net(s) \in Listed(entry')
                        /\ s \in owed' => Sup(s) \in Listed(entry')
        BY DEF Covers, Listed
    <2>1. ToSet(F) \subseteq Listed(entry') /\ (how = "done" => r \in Listed(entry'))
        BY <1>2, <1>3, <1>6 DEF Listed
    <2>2. (slot[s] = "ours" => Net(s) \in ToSet(F)) /\ (s \in owed => Sup(s) \in ToSet(F))
        BY <1>1, <1>5 DEF Covers
    <2>3. CASE s # r.slot BY <1>7, <2>1, <2>2, <2>3
    <2>4. CASE s = r.slot
        <3>1. how # "unsure" BY <1>5, <2>4
        <3>2. CASE how = "done" BY <1>4, <1>7, <2>1, <2>2, <2>4, <3>2
        <3>3. CASE how \in {"refused", "failed"} BY <1>7, <2>1, <2>2, <2>4, <3>3
        <3> QED BY <3>1, <3>2, <3>3 DEF Hows
    <2> QED BY <2>3, <2>4
<1>15. Covers(Listed(disk), Listed(disk))'
    <2> SUFFICES ASSUME NEW s \in Slots \ doubt'
                 PROVE  /\ slot'[s] = "ours" => Net(s) \in Listed(disk)
                        /\ s \in owed' => Sup(s) \in Listed(disk)
        BY <1>0 DEF Covers, Listed
    <2>1. /\ Net(s) \in Listed(entry) => Net(s) \in Listed(disk)
          /\ Sup(s) \in Listed(entry) => Sup(s) \in Listed(disk)
        BY <1>0, <1>1, <1>5 DEF Written
    <2>2. /\ slot'[s] = "ours" => Net(s) \in Listed(entry')
          /\ s \in owed' => Sup(s) \in Listed(entry')
        BY <1>14 DEF Covers, Listed
    <2> QED BY <1>12, <2>1, <2>2
<1>16. Coverage' BY <1>0, <1>14, <1>15 DEF Coverage
<1> QED BY <1>7, <1>8, <1>9, <1>10, <1>11, <1>13, <1>16 DEF ManualInv

\* The daemon's own object is deleted, and then no longer listed.
LEMMA DeleteOwnInv ==
    ASSUME ManualInv, NEW s \in Slots, NEW how \in Hows, DeleteOwn(s, how)
    PROVE  ManualInv'
<1> DEFINE W == Without(entry.list, Net(s))
           e == [entry EXCEPT !.list = W]
<1>0. /\ pc = "idle" /\ slot[s] = "ours" /\ Take(s, "ours", how)
      /\ \/ how = "done" /\ Net(s) \in Listed(entry) /\ entry' = Kept(e) /\ pc' = "save"
         \/ pc' \in {"idle", "save"} /\ entry' = entry
      /\ UNCHANGED <<disk, job, owed, doubt>>
    BY DEF DeleteOwn, hist, Unlisted
<1>1. /\ Sound(entry) /\ Sound(disk) /\ Tables /\ Orders /\ Written /\ Threads
      /\ Covers(Listed(entry), Listed(entry)) /\ Covers(Listed(disk), Listed(disk))
      /\ entry.list \in Seq(Resources) /\ Len(entry.list) \in Nat /\ Len(entry.list) <= MaxList
      /\ Ordered(entry.list, doubt)
    BY <1>0 DEF ManualInv, Coverage, Sound, Entries, Orders
<1>2. /\ W \in Seq(Resources) /\ Len(W) <= Len(entry.list)
      /\ ToSet(W) = ToSet(entry.list) \ {Net(s)} /\ Ordered(W, doubt)
    BY <1>1, WithoutList
<1> HIDE DEF W
<1>3. CASE how = "done" /\ Net(s) \in Listed(entry) /\ entry' = Kept(e) /\ pc' = "save"
    <2>1. slot' = [slot EXCEPT ![s] = "none"] BY <1>0, <1>3 DEF Take
    <2>2. /\ e \in Entries /\ e.list = W /\ e.state = entry.state BY <1>1, <1>2 DEF Sound, Entries
    <2>3. entry.state # "none"
        BY <1>1, <1>3, EmptyList DEF Sound, Listed
    <2>4. Len(e.list) <= MaxList
        <3>1. Len(W) \in Nat BY <1>2
        <3> QED BY <1>1, <1>2, <2>2, <3>1, ManualAssumption
    <2> HIDE DEF e
    <2>5. Sound(entry') /\ entry'.list = W BY <1>3, <2>2, <2>3, <2>4, KeptFacts
    <2>6. Listed(entry') = Listed(entry) \ {Net(s)} BY <1>2, <2>5 DEF Listed
    <2>7. Tables' BY <1>0, <1>1, <2>1 DEF Tables
    <2>8. \A t \in Slots : t # s => slot'[t] = slot[t] BY <1>1, <2>1 DEF Tables
    <2>9. slot'[s] = "none" BY <1>1, <2>1 DEF Tables
    <2>10. \A t \in Slots : Net(t) # Net(s) \/ t = s BY Kindred
    <2>11. \A t \in Slots : Sup(t) # Net(s) BY Kindred
    <2>12. Threads' BY <1>0, <1>1, <1>3 DEF Threads
    <2>13. Phases' BY <1>3 DEF Phases
    <2>14. Orders' BY <1>0, <1>1, <1>2, <1>3, <2>5 DEF Orders
    <2>15. Written' BY <1>0, <1>1, <1>3, <2>6 DEF Written, Listed
    <2>16. Covers(Listed(entry), Listed(entry))'
        <3> SUFFICES ASSUME NEW t \in Slots \ doubt
                     PROVE  /\ slot'[t] = "ours" => Net(t) \in Listed(entry')
                            /\ t \in owed => Sup(t) \in Listed(entry')
            BY <1>0 DEF Covers, Listed
        <3>1. (slot[t] = "ours" => Net(t) \in Listed(entry)) /\ (t \in owed => Sup(t) \in Listed(entry))
            BY <1>1 DEF Covers
        <3> QED BY <2>6, <2>8, <2>9, <2>10, <2>11, <3>1
    <2>17. Covers(Listed(disk), Listed(disk))' BY <1>0, <1>1, <2>8, <2>9 DEF Covers, Listed
    <2>18. Coverage' BY <1>3, <2>16, <2>17 DEF Coverage
    <2>19. Sound(entry)' /\ Sound(disk)' BY <1>0, <1>1, <2>5
    <2> QED BY <2>7, <2>12, <2>13, <2>14, <2>15, <2>18, <2>19 DEF ManualInv
<1>4. CASE pc' \in {"idle", "save"} /\ entry' = entry
    <2>1. /\ Tables'
          /\ \A t \in Slots : slot'[t] = "ours" => slot[t] = "ours"
        BY <1>0, <1>1 DEF Take, Tables, Hows
    <2>2. Threads' /\ Sound(entry)' /\ Sound(disk)' BY <1>0, <1>1, <1>4 DEF Threads
    <2>3. Phases' BY <1>0, <1>4 DEF Phases
    <2>4. Orders' BY <1>0, <1>1, <1>4 DEF Orders
    <2>5. Written' BY <1>0, <1>1, <1>4 DEF Written, Listed
    <2>6. Coverage' BY <1>0, <1>1, <1>4, <2>1 DEF Coverage, Covers, Listed
    <2> QED BY <2>1, <2>2, <2>3, <2>4, <2>5, <2>6 DEF ManualInv
<1> QED BY <1>0, <1>3, <1>4

\* A pass begins: it will visit what is listed.
LEMMA PassBeginInv ==
    ASSUME ManualInv, PassBegin
    PROVE  ManualInv'
<1> DEFINE A == {Net(s) : s \in {t \in Slots : slot[t] = "ours"}}
                    \cup {Sup(s) : s \in {t \in Slots : slot[t] = "foreign"}}
           j == [Rest EXCEPT !.todo = Visits(entry.list), !.seen = A]
<1>0. /\ pc = "idle" /\ entry.state = "applied" /\ pc' = "pass" /\ job' = j
      /\ UNCHANGED <<entry, disk, slot, owed, doubt>>
    BY DEF PassBegin, hist
<1>1. A \subseteq Resources BY Kindred
<1>2. entry.list \in Seq(Resources) BY DEF ManualInv, Sound, Entries
<1>3. j = [res |-> <<>>, todo |-> entry.list, left |-> <<>>, seen |-> A]
    <2> HIDE DEF A
    <2> QED BY RestFacts DEF Visits
<1> HIDE DEF A, j
<1>4. Threads' /\ job'.todo = entry.list BY <1>0, <1>1, <1>2, <1>3 DEF Threads
<1>5. Tables' BY <1>0 DEF ManualInv, Tables
<1>6. Sound(entry)' /\ Sound(disk)' BY <1>0 DEF ManualInv
<1>7. Phases' BY <1>0, <1>4 DEF Phases, Listed
<1>8. Orders' BY <1>0 DEF ManualInv, Orders
<1>9. Written' BY <1>0 DEF ManualInv, Written, Listed
<1>10. Coverage' BY <1>0 DEF ManualInv, Coverage, Covers, Listed
<1> QED BY <1>4, <1>5, <1>6, <1>7, <1>8, <1>9, <1>10 DEF ManualInv

\* A pass adds and takes away only what is listed, so memory and file go on
\* covering the tables.
LEMMA PassItemInv ==
    ASSUME ManualInv, NEW how \in Hows, PassItem(how)
    PROVE  ManualInv'
<1> DEFINE r == Head(job.todo)
           T == Tail(job.todo)
<1>0. /\ pc = "pass" /\ job.todo # <<>> /\ owed' = Owed
      /\ \/ r.kind = "net" /\ Put(r.slot, "ours", how)
         \/ r.kind = "sup" /\ Take(r.slot, "foreign", how)
         \/ slot' = slot
      /\ job' = [job EXCEPT !.todo = T] /\ UNCHANGED <<entry, disk, pc, doubt>>
    BY DEF PassItem
<1>1. /\ job.todo \in Seq(Resources) /\ Threads /\ Tables /\ Written
      /\ ToSet(job.todo) \subseteq Listed(entry) /\ entry.state # "none"
      /\ Covers(Listed(entry), Listed(entry)) /\ Covers(Listed(disk), Listed(disk))
    BY <1>0 DEF ManualInv, Phases, Threads, Coverage
<1>2. r \in Resources /\ T \in Seq(Resources) /\ ToSet(job.todo) = ToSet(T) \cup {r}
    BY <1>0, <1>1, TailList
<1> HIDE DEF r, T
<1>3. r.slot \in Slots /\ ((r.kind = "net" /\ r = Net(r.slot)) \/ (r.kind = "sup" /\ r = Sup(r.slot)))
    BY <1>2, Kindred
<1>4. /\ Tables'
      /\ \A t \in Slots \ {r.slot} : slot'[t] = slot[t] /\ (t \in owed' <=> t \in owed)
      /\ r.kind = "net" => (r.slot \in owed' => r.slot \in owed)
      /\ r.kind = "sup" => (slot'[r.slot] = "ours" => slot[r.slot] = "ours")
    <2>1. CASE r.kind = "net" /\ Put(r.slot, "ours", how) BY <1>0, <1>1, <1>3, <2>1, PutFacts
    <2>2. CASE r.kind = "sup" /\ Take(r.slot, "foreign", how) BY <1>0, <1>1, <1>3, <2>2, TakeFacts
    <2>3. CASE slot' = slot BY <1>0, <1>1, <1>3, <2>3 DEF Tables, Owed
    <2> QED BY <1>0, <2>1, <2>2, <2>3
<1>5. Threads' /\ job'.todo = T BY <1>0, <1>1, <1>2 DEF Threads
<1>6. Sound(entry)' /\ Sound(disk)' BY <1>0 DEF ManualInv
<1>7. Phases'
    <2>1. ToSet(T) \subseteq Listed(entry) BY <1>1, <1>2
    <2> QED BY <1>0, <1>1, <1>5, <2>1 DEF Phases, Listed
<1>8. Orders' BY <1>0 DEF ManualInv, Orders
<1>9. Written' BY <1>0, <1>1 DEF Written, Listed
<1>10. ASSUME NEW s \in Slots \ doubt
       PROVE  /\ slot'[s] = "ours" => Net(s) \in Listed(entry)
              /\ s \in owed' => Sup(s) \in Listed(entry)
    <2>1. (slot[s] = "ours" => Net(s) \in Listed(entry)) /\ (s \in owed => Sup(s) \in Listed(entry))
        BY <1>1 DEF Covers
    <2>2. r \in Listed(entry) BY <1>1, <1>2
    <2>3. CASE s # r.slot BY <1>4, <2>1, <2>3
    <2>4. CASE s = r.slot BY <1>3, <1>4, <2>1, <2>2, <2>4
    <2> QED BY <2>3, <2>4
<1>11. ASSUME NEW s \in Slots \ doubt
       PROVE  /\ slot'[s] = "ours" => Net(s) \in Listed(disk)
              /\ s \in owed' => Sup(s) \in Listed(disk)
    BY <1>0, <1>1, <1>10 DEF Written
<1>12. Coverage' BY <1>0, <1>10, <1>11 DEF Coverage, Covers, Listed
<1> QED BY <1>4, <1>5, <1>6, <1>7, <1>8, <1>9, <1>12 DEF ManualInv

\* The pass ends.
LEMMA PassEndInv ==
    ASSUME ManualInv, PassEnd
    PROVE  ManualInv'
<1>0. /\ pc = "pass" /\ pc' = "idle" /\ job' = Rest /\ UNCHANGED <<entry, disk, slot, owed, doubt>>
    BY DEF PassEnd, hist
<1>1. Threads' BY <1>0, RestFacts DEF Threads
<1>2. Tables' BY <1>0 DEF ManualInv, Tables
<1>3. Sound(entry)' /\ Sound(disk)' BY <1>0 DEF ManualInv
<1>4. Phases' BY <1>0 DEF Phases
<1>5. Orders' BY <1>0 DEF ManualInv, Orders
<1>6. Written' BY <1>0 DEF ManualInv, Written, Listed
<1>7. Coverage' BY <1>0 DEF ManualInv, Coverage, Covers, Listed
<1> QED BY <1>1, <1>2, <1>3, <1>4, <1>5, <1>6, <1>7 DEF ManualInv

\* A teardown begins with everything an entry lists, if that entry is sound,
\* in order and covers the tables.
LEMMA BeginInv ==
    ASSUME ManualInv, Begin(entry'), Sound(entry'), Ordered(entry'.list, doubt),
           Covers(Listed(entry'), Listed(entry')), Listed(entry') \subseteq Listed(disk)
               \/ (entry' = entry /\ pc # "down"),
           UNCHANGED <<disk, slot, owed, doubt>>
    PROVE  ManualInv'
<1> DEFINE L == entry'.list
           j == [Rest EXCEPT !.todo = Undo(L)]
<1>0. pc' = "teardown" /\ job' = j BY DEF Begin
<1>1. L \in Seq(Resources) /\ Len(L) <= MaxList /\ Len(L) \in Nat BY DEF Sound, Entries
<1>2. /\ Undo(L) \in Seq(Resources) /\ Len(Undo(L)) = Len(L) /\ ToSet(Undo(L)) = ToSet(L)
      /\ Backwards(Undo(L), doubt)
    BY <1>1, UndoList
<1>3. j = [res |-> <<>>, todo |-> Undo(L), left |-> <<>>, seen |-> {}]
    <2> DEFINE U == Undo(L)
    <2> HIDE DEF U
    <2> QED BY RestFacts DEF U
<1> DEFINE U == Undo(L)
<1> HIDE DEF U, j
<1>4. Threads' /\ job'.todo = U /\ job'.left = <<>> BY <1>0, <1>2, <1>3 DEF Threads, U
<1>5. /\ Len(U) = Len(L) /\ ToSet(U) = Listed(entry') /\ Backwards(U, doubt)
    BY <1>2 DEF U, Listed
<1> HIDE DEF L
<1>6. Tables' BY DEF ManualInv, Tables
<1>7. Sound(entry)' /\ Sound(disk)' BY DEF ManualInv
<1>8. Phases' BY <1>0, <1>1, <1>4, <1>5, EmptyList, EmptySeq DEF Phases, Listed
<1>9. Orders' BY <1>0, <1>4, <1>5, EmptyList DEF ManualInv, Orders
<1>10. Written' BY <1>0 DEF ManualInv, Written, Listed
<1>11. Coverage'
    <2>1. Covers(Listed(disk), Listed(disk))' BY DEF ManualInv, Coverage, Covers, Listed
    <2>2. Covers(ToSet(job.todo), ToSet(job.todo) \cup ToSet(job.left))'
        BY <1>4, <1>5 DEF Covers
    <2> QED BY <1>0, <2>1, <2>2 DEF Coverage
<1> QED BY <1>4, <1>6, <1>7, <1>8, <1>9, <1>10, <1>11 DEF ManualInv

\* Cleanup begins from memory.
LEMMA CleanupInv ==
    ASSUME ManualInv, Cleanup
    PROVE  ManualInv'
<1>0. pc = "idle" /\ Begin(entry) /\ UNCHANGED <<entry, disk, slot, owed, doubt>>
    BY DEF Cleanup, hist
<1>1. Begin(entry') BY <1>0 DEF Begin
<1>2. Sound(entry') /\ Ordered(entry'.list, doubt) /\ Covers(Listed(entry'), Listed(entry'))
    BY <1>0 DEF ManualInv, Orders, Coverage, Covers
<1> QED BY <1>0, <1>1, <1>2, BeginInv

\* A restart begins from the file.
LEMMA RestartInv ==
    ASSUME ManualInv, Restart
    PROVE  ManualInv'
<1>0. pc = "down" /\ entry' = disk /\ UNCHANGED <<disk, slot, owed, doubt>>
    BY DEF Restart, hist
<1>1. Sound(disk) /\ Ordered(disk.list, doubt) /\ Covers(Listed(disk), Listed(disk))
    BY DEF ManualInv, Orders, Coverage
<1>2. CASE disk = NoEntry
    <2>1. pc' = "idle" /\ job' = job BY <1>2 DEF Restart
    <2>2. Threads' BY <1>0, <2>1 DEF ManualInv, Threads
    <2>3. Tables' BY <1>0 DEF ManualInv, Tables
    <2>4. Sound(entry)' /\ Sound(disk)' BY <1>0, <1>1
    <2>5. Phases' BY <2>1 DEF Phases
    <2>6. Orders' BY <1>0, <2>1 DEF ManualInv, Orders
    <2>7. Written' BY <1>0 DEF Written, Listed
    <2>8. Coverage' BY <1>0, <1>1, <2>1 DEF Coverage, Covers, Listed
    <2> QED BY <2>2, <2>3, <2>4, <2>5, <2>6, <2>7, <2>8 DEF ManualInv
<1>3. CASE disk # NoEntry
    <2>1. Begin(disk) BY <1>3 DEF Restart
    <2>2. Begin(entry') BY <1>0, <2>1 DEF Begin
    <2>3. Sound(entry') /\ Ordered(entry'.list, doubt) /\ Covers(Listed(entry'), Listed(entry'))
        BY <1>0, <1>1
    <2>4. Listed(entry') \subseteq Listed(disk) BY <1>0
    <2> QED BY <1>0, <2>2, <2>3, <2>4, BeginInv
<1> QED BY <1>2, <1>3

\* One item is undone: removed or put back, it is neither in the tables nor
\* owed; otherwise it is left over.  The object goes before its suppression.
LEMMA UndoItemInv ==
    ASSUME ManualInv, NEW how \in Hows, UndoItem(how)
    PROVE  ManualInv'
<1> DEFINE r == Head(job.todo)
           T == Tail(job.todo)
           R == <<r>> \o job.left
           K == IF how \in {"done", "refused"} THEN job.left ELSE R
<1>0. /\ pc = "teardown" /\ job.todo # <<>> /\ owed' = Owed
      /\ IF r.kind = "net" THEN Take(r.slot, "ours", how) ELSE Put(r.slot, "foreign", how)
      /\ doubt' = IF r.kind = "net" /\ how = "failed" THEN doubt \cup {r.slot} ELSE doubt
      /\ job' = [job EXCEPT !.todo = T, !.left = K]
      /\ UNCHANGED <<entry, disk, pc>>
    BY DEF UndoItem
<1>1. /\ job.todo \in Seq(Resources) /\ job.left \in Seq(Resources) /\ Threads /\ Tables /\ Written
      /\ ToSet(job.todo) \cup ToSet(job.left) \subseteq Listed(entry)
      /\ Len(job.todo) + Len(job.left) <= MaxList /\ doubt \subseteq Slots
      /\ Ordered(entry.list, doubt) /\ Ordered(disk.list, doubt)
      /\ Backwards(job.todo, doubt) /\ Ordered(job.left, doubt)
      /\ \A s \in Slots \ doubt : Net(s) \in ToSet(job.todo) => Sup(s) \notin ToSet(job.left)
      /\ Covers(ToSet(job.todo), ToSet(job.todo) \cup ToSet(job.left))
      /\ Covers(Listed(disk), Listed(disk))
    BY <1>0 DEF ManualInv, Phases, Threads, Orders, Coverage
<1>2. /\ r \in Resources /\ T \in Seq(Resources) /\ Len(T) = Len(job.todo) - 1
      /\ ToSet(job.todo) = ToSet(T) \cup {r} /\ Backwards(T, doubt)
      /\ \A s \in Slots \ doubt : r = Sup(s) => Net(s) \notin ToSet(T)
    BY <1>0, <1>1, TailList
<1> HIDE DEF r, T
<1>3. r.slot \in Slots /\ ((r.kind = "net" /\ r = Net(r.slot)) \/ (r.kind = "sup" /\ r = Sup(r.slot)))
    BY <1>2, Kindred
<1>4. doubt \subseteq doubt' /\ doubt' \subseteq Slots /\ (r.kind = "net" /\ how = "failed" => r.slot \in doubt')
    BY <1>0, <1>1, <1>3
<1>5. /\ Backwards(T, doubt') /\ Ordered(job.left, doubt')
      /\ Ordered(entry.list, doubt') /\ Ordered(disk.list, doubt')
    BY <1>1, <1>2, <1>4, MoreDoubt
<1>6. /\ R \in Seq(Resources) /\ Len(R) = Len(job.left) + 1
      /\ ToSet(R) = ToSet(job.left) \cup {r} /\ Ordered(R, doubt')
    <2>1. r.kind = "net" /\ r.slot \notin doubt' => Sup(r.slot) \notin ToSet(job.left)
        BY <1>1, <1>2, <1>3, <1>4
    <2> QED BY <1>1, <1>2, <1>5, <2>1, ConsList
<1> HIDE DEF R
<1>7. /\ K \in Seq(Resources) /\ Len(K) <= Len(job.left) + 1 /\ Len(K) \in Nat /\ Ordered(K, doubt')
      /\ ToSet(job.left) \subseteq ToSet(K) /\ ToSet(K) \subseteq ToSet(job.left) \cup {r}
      /\ how \in {"failed", "unsure"} => r \in ToSet(K)
    <2>1. Len(job.left) \in Nat BY <1>1
    <2>2. CASE how \in {"done", "refused"} BY <1>1, <1>5, <2>1, <2>2
    <2>3. CASE how \in {"failed", "unsure"} BY <1>6, <2>1, <2>3
    <2> QED BY <2>2, <2>3 DEF Hows
<1> HIDE DEF K
<1>8. /\ Tables'
      /\ \A t \in Slots \ {r.slot} : slot'[t] = slot[t] /\ (t \in owed' <=> t \in owed)
      /\ r.kind = "net" => /\ how \in {"done", "unsure"} => slot'[r.slot] = "none"
                           /\ how \in {"refused", "failed"} => slot'[r.slot] = slot[r.slot]
                           /\ how = "refused" => slot[r.slot] # "ours"
                           /\ r.slot \in owed' => r.slot \in owed
      /\ r.kind = "sup" => /\ how \in {"done", "unsure"} =>
                                 slot'[r.slot] = "foreign" /\ r.slot \notin owed'
                           /\ how \in {"refused", "failed"} => slot'[r.slot] = slot[r.slot]
                           /\ how = "refused" => slot[r.slot] # "none"
                           /\ r.slot \in owed' => r.slot \in owed
    <2>1. CASE r.kind = "net" BY <1>0, <1>1, <1>3, <2>1, TakeFacts
    <2>2. CASE r.kind = "sup" BY <1>0, <1>1, <1>3, <2>2, PutFacts
    <2> QED BY <1>3, <2>1, <2>2
<1>9. Threads' /\ job'.todo = T /\ job'.left = K BY <1>0, <1>1, <1>2, <1>7 DEF Threads
<1>10. Sound(entry)' /\ Sound(disk)' BY <1>0 DEF ManualInv
<1>11. Phases'
    <2>1. ToSet(T) \cup ToSet(K) \subseteq Listed(entry) BY <1>1, <1>2, <1>7
    <2>2. Len(T) + Len(K) <= MaxList
        <3>1. Len(job.todo) \in Nat /\ Len(job.left) \in Nat BY <1>1
        <3>2. Len(job.todo) + Len(job.left) <= MaxList BY <1>1
        <3>3. Len(T) = Len(job.todo) - 1 BY <1>2
        <3>4. Len(K) \in Nat /\ Len(K) <= Len(job.left) + 1 BY <1>7
        <3>5. \A a, b, k, m \in Nat : a + b <= m /\ k <= b + 1 => (a - 1) + k <= m OBVIOUS
        <3>6. MaxList \in Nat BY ManualAssumption
        <3>7. (Len(job.todo) - 1) + Len(K) <= MaxList BY <3>1, <3>2, <3>4, <3>5, <3>6
        <3> QED BY <3>3, <3>7
    <2> QED BY <1>0, <1>9, <2>1, <2>2 DEF Phases, Listed
<1>12. Orders'
    <2>1. ASSUME NEW s \in Slots \ doubt', Net(s) \in ToSet(T) PROVE Sup(s) \notin ToSet(K)
        <3>1. Sup(s) \notin ToSet(job.left) BY <1>1, <1>2, <1>4, <2>1
        <3>2. r # Sup(s) BY <1>2, <1>4, <2>1
        <3> QED BY <1>7, <3>1, <3>2
    <2> QED BY <1>0, <1>4, <1>5, <1>7, <1>9, <2>1 DEF Orders
<1>13. Written' BY <1>0, <1>1, <1>4 DEF Written, Listed
<1>14. ASSUME NEW s \in Slots \ doubt'
       PROVE  /\ slot'[s] = "ours" => Net(s) \in ToSet(T)
              /\ s \in owed' => Sup(s) \in ToSet(T) \cup ToSet(K)
    <2>1. /\ slot[s] = "ours" => Net(s) \in ToSet(T) \cup {r}
          /\ s \in owed => Sup(s) \in ToSet(T) \cup {r} \cup ToSet(job.left)
        BY <1>1, <1>2, <1>4 DEF Covers
    <2>2. CASE s # r.slot
        <3>1. r # Net(s) /\ r # Sup(s) BY <1>3, <2>2, Kindred
        <3> QED BY <1>7, <1>8, <2>1, <2>2, <3>1
    <2>3. CASE s = r.slot /\ r.kind = "net"
        <3>1. r # Sup(s) BY <1>3, <2>3, Kindred
        <3>2. how # "failed" BY <1>4, <2>3
        <3>3. slot'[s] # "ours" BY <1>8, <2>3, <3>2 DEF Hows
        <3> QED BY <1>7, <1>8, <2>1, <2>3, <3>1, <3>3
    <2>4. CASE s = r.slot /\ r.kind = "sup"
        <3>1. r = Sup(s) /\ r # Net(s) BY <1>3, <2>4, Kindred
        <3>2. Net(s) \notin ToSet(T) BY <1>2, <1>4, <3>1
        <3>3. slot[s] # "ours" BY <2>1, <3>1, <3>2
        <3>4. slot'[s] # "ours" BY <1>8, <2>4, <3>3 DEF Hows
        <3>5. CASE how \in {"done", "unsure"} BY <1>8, <2>4, <3>4, <3>5
        <3>6. CASE how = "failed" BY <1>7, <3>1, <3>4, <3>6
        <3>7. CASE how = "refused"
            <4>1. slot[s] = "foreign" BY <1>1, <1>8, <2>4, <3>3, <3>7 DEF Tables
            <4>2. s \notin owed BY <1>1, <4>1 DEF Tables
            <4> QED BY <1>8, <2>4, <3>4, <4>2
        <3> QED BY <3>5, <3>6, <3>7 DEF Hows
    <2> QED BY <1>3, <2>2, <2>3, <2>4
<1>15. ASSUME NEW s \in Slots \ doubt'
       PROVE  /\ slot'[s] = "ours" => Net(s) \in Listed(disk)
              /\ s \in owed' => Sup(s) \in Listed(disk)
    <2>1. /\ slot'[s] = "ours" => Net(s) \in Listed(entry)
          /\ s \in owed' => Sup(s) \in Listed(entry)
        BY <1>1, <1>2, <1>7, <1>14
    <2>2. /\ Net(s) \in Listed(entry) => Net(s) \in Listed(disk)
          /\ Sup(s) \in Listed(entry) => Sup(s) \in Listed(disk)
        BY <1>0, <1>1, <1>4 DEF Written
    <2> QED BY <2>1, <2>2
<1>16. Coverage'
    <2>1. Covers(Listed(disk), Listed(disk))' BY <1>0, <1>15 DEF Covers, Listed
    <2>2. Covers(ToSet(job.todo), ToSet(job.todo) \cup ToSet(job.left))' BY <1>9, <1>14 DEF Covers
    <2> QED BY <1>0, <2>1, <2>2 DEF Coverage
<1> QED BY <1>8, <1>9, <1>10, <1>11, <1>12, <1>13, <1>16 DEF ManualInv

\* A teardown ends: what is left over is the entry.
LEMMA UndoEndInv ==
    ASSUME ManualInv, UndoEnd
    PROVE  ManualInv'
<1> DEFINE e == [state |-> "stale", list |-> job.left]
<1>0. /\ pc = "teardown" /\ job.todo = <<>> /\ entry' = Kept(e) /\ pc' = "save" /\ job' = Rest
      /\ UNCHANGED <<disk, slot, owed, doubt>>
    BY DEF UndoEnd, hist
<1>1. /\ job.left \in Seq(Resources) /\ Written
      /\ ToSet(job.left) \subseteq Listed(entry)
      /\ Len(job.todo) + Len(job.left) <= MaxList /\ Ordered(job.left, doubt)
      /\ Covers(ToSet(job.todo), ToSet(job.todo) \cup ToSet(job.left))
      /\ Covers(Listed(disk), Listed(disk))
    BY <1>0 DEF ManualInv, Phases, Threads, Orders, Coverage
<1>2. e \in Entries /\ e.list = job.left /\ e.state # "none" BY <1>1 DEF Entries
<1> HIDE DEF e
<1>3. Len(e.list) <= MaxList BY <1>0, <1>1, <1>2, EmptySeq
<1>4. Sound(entry') /\ entry'.list = job.left BY <1>0, <1>2, <1>3, KeptFacts
<1>5. Threads' BY <1>0, RestFacts DEF Threads
<1>6. Tables' BY <1>0 DEF ManualInv, Tables
<1>7. Sound(entry)' /\ Sound(disk)' BY <1>0, <1>4 DEF ManualInv
<1>8. Phases' BY <1>0 DEF Phases
<1>9. Orders' BY <1>0, <1>1, <1>4 DEF ManualInv, Orders
<1>10. Listed(entry') = ToSet(job.left) BY <1>4 DEF Listed
<1>11. Written' BY <1>0, <1>1, <1>10 DEF Written, Listed
<1>12. Covers(Listed(entry), Listed(entry))'
    BY <1>0, <1>1, <1>10, EmptyList DEF Covers, Listed
<1>13. Covers(Listed(disk), Listed(disk))' BY <1>0, <1>1 DEF Covers, Listed
<1>14. Coverage' BY <1>0, <1>12, <1>13 DEF Coverage
<1> QED BY <1>5, <1>6, <1>7, <1>8, <1>9, <1>11, <1>14 DEF ManualInv

\* Every step of the specification.
LEMMA ManualStep == ManualInv /\ [Next]_vars => ManualInv'
<1> SUFFICES ASSUME ManualInv, [Next]_vars PROVE ManualInv' OBVIOUS
<1>1. CASE CoreStep
    BY <1>1, ManualEntryInv, ClaimInv, SaveLastInv, KernelEditInv, PassItemInv, UndoItemInv,
       PassEndInv, UndoEndInv DEF CoreStep
<1>2. CASE Pass BY <1>2, PassBeginInv DEF Pass
<1>3. CASE Entering BY <1>3, CleanupInv, RestartInv, EditInv, DeleteOwnInv DEF Entering
<1>4. CASE World BY <1>4, CrashInv, OutsideInv DEF World
<1>5. CASE UNCHANGED vars
    BY <1>5 DEF vars, core, hist, ManualInv, Threads, Tables, Phases, Orders, Written, Coverage,
                Covers, Listed
<1> QED BY <1>1, <1>2, <1>3, <1>4, <1>5 DEF Next

-----------------------------------------------------------------------------
(* The theorems.                                                           *)

\* The inductive invariant, for any slots and bounds: lists are in order, the
\* file lists what memory does, and both cover the tables in every phase of an
\* edit, a pass, a teardown and a recovery.
THEOREM ManualInvariant == Spec => []ManualInv
BY ManualStart, ManualStep, PTL DEF Spec

\* What the user's edits took from others is back or still listed to be put
\* back, whatever the order of edits, failures and crashes.
THEOREM EditsArePutBack == Spec => []PutBack
<1>1. ManualInv => PutBack
    BY DEF ManualInv, Coverage, Covers, Orders, Tables, PutBack, AtRest
<1> QED BY <1>1, ManualInvariant, PTL

\* Memory and file are lists the daemon can read back, and the file covers
\* what the daemon added and took away, in every state.
THEOREM ManualRecordsAgree == Spec => []RecordsAgree
<1>1. ManualInv => TypeOK
    BY DEF ManualInv, Sound, Entries, Threads, Tables, Orders, TypeOK
<1>2. ManualInv => OnDisk
    BY DEF ManualInv, Coverage, Covers, OnDisk
<1> QED BY <1>1, <1>2, ManualInvariant, PTL DEF RecordsAgree
=============================================================================
