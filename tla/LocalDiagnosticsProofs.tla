----------------------- MODULE LocalDiagnosticsProofs -----------------------
(***************************************************************************)
(* The local messages, for any number of threads, events and sessions and  *)
(* any bounds of the ledgers and the queue.                                *)
(*                                                                         *)
(* What the ledgers remember and what they have forgotten account for all  *)
(* that was handed over: that is an equation, and every step keeps it as   *)
(* long as an entry leaves a ledger whole and none is in it twice.         *)
(*                                                                         *)
(* The wait of the tests is sound because everything that the queue has    *)
(* accepted is in exactly one place: dealt with, with the worker or in the *)
(* queue; and because the counters that the wait compares are behind by at *)
(* most the step whose author is known, one holder of the lock and one     *)
(* worker.                                                                 *)
(***************************************************************************)
EXTENDS LocalDiagnostics, SequenceTheorems, WellFoundedInduction, TLAPS

-----------------------------------------------------------------------------
(* Sequences whose entries leave them.                                     *)

LEMMA LeastOfSome ==
    ASSUME NEW S \in SUBSET Nat, S # {}
    PROVE  Min(S) \in S
<1>1. PICK i \in S : \A j \in S : <<j, i>> \notin OpToRel(<, Nat)
    BY NatLessThanWellFounded, WFMin
<1>2. \A j \in S : ~ (j < i)
    BY <1>1 DEF OpToRel
<1>3. \A j \in S : i <= j
    BY <1>2
<1> QED BY <1>3 DEF Min

\* Nothing is in s twice.
Once(s) == \A i, j \in DOMAIN s : s[i] = s[j] => i = j

LEMMA MembersOf ==
    ASSUME NEW X, NEW s \in Seq(X)
    PROVE  \A x : x \in ToSet(s) <=> \E i \in 1..Len(s) : x = s[i]
<1>1. DOMAIN s = 1..Len(s)
    OBVIOUS
<1> QED BY <1>1 DEF ToSet

LEMMA Pieces ==
    ASSUME NEW X, NEW s \in Seq(X), Once(s), NEW k \in 0..Len(s)
    PROVE  LET gone == SubSeq(s, 1, k)
               rest == SubSeq(s, k + 1, Len(s))
           IN  /\ rest \in Seq(X) /\ Once(rest)
               /\ ToSet(gone) \subseteq ToSet(s)
               /\ ToSet(rest) = ToSet(s) \ ToSet(gone)
<1> DEFINE gone == SubSeq(s, 1, k)
           rest == SubSeq(s, k + 1, Len(s))
<1>1. /\ gone \in Seq(X) /\ Len(gone) = k
      /\ \A i \in 1..k : gone[i] = s[i]
    BY SubSeqProperties
<1>2. /\ rest \in Seq(X) /\ Len(rest) = Len(s) - k
      /\ \A i \in 1..(Len(s) - k) : rest[i] = s[k + i]
    BY SubSeqProperties
<1> HIDE DEF gone, rest
<1>0. DOMAIN s = 1..Len(s) /\ Len(s) \in Nat /\ DOMAIN rest = 1..(Len(s) - k)
    BY <1>2
<1>3. Once(rest)
  <2> SUFFICES ASSUME NEW i \in 1..(Len(s) - k), NEW j \in 1..(Len(s) - k), rest[i] = rest[j]
               PROVE  i = j
      BY <1>0 DEF Once
  <2>1. k + i \in DOMAIN s /\ k + j \in DOMAIN s
      BY <1>0
  <2>2. s[k + i] = s[k + j]
      BY <1>2
  <2>3. k + i = k + j
      BY <2>1, <2>2 DEF Once
  <2> QED BY <2>3, <1>0
<1>4. \A x : x \in ToSet(gone) <=> \E i \in 1..k : x = s[i]
    BY <1>1, MembersOf
<1>5. \A x : x \in ToSet(rest) <=> \E i \in (k + 1)..Len(s) : x = s[i]
  <2>1. ASSUME NEW x \in ToSet(rest) PROVE \E i \in (k + 1)..Len(s) : x = s[i]
    <3>1. PICK i \in 1..(Len(s) - k) : x = rest[i]
        BY <1>2, MembersOf
    <3>2. k + i \in (k + 1)..Len(s)
        BY <1>0
    <3> QED BY <3>1, <3>2, <1>2
  <2>2. ASSUME NEW i \in (k + 1)..Len(s) PROVE s[i] \in ToSet(rest)
    <3>1. i - k \in 1..(Len(s) - k) /\ k + (i - k) = i
        BY <1>0
    <3>2. rest[i - k] = s[i]
        BY <3>1, <1>2
    <3> QED BY <3>1, <3>2, <1>2, MembersOf
  <2> QED BY <2>1, <2>2
<1>6. \A x : x \in ToSet(s) <=> \E i \in 1..Len(s) : x = s[i]
    BY MembersOf
<1>7. \A i \in 1..k, j \in (k + 1)..Len(s) : s[i] # s[j]
    BY <1>0 DEF Once
<1>8. ToSet(gone) \subseteq ToSet(s)
    BY <1>0, <1>4, <1>6
<1>9. ASSUME NEW x PROVE x \in ToSet(rest) <=> x \in ToSet(s) /\ x \notin ToSet(gone)
  <2>1. \A i \in 1..Len(s) : i \in 1..k \/ i \in (k + 1)..Len(s)
      BY <1>0
  <2>2. \A i \in (k + 1)..Len(s) : i \in 1..Len(s)
      BY <1>0
  <2> QED BY <2>1, <2>2, <1>4, <1>5, <1>6, <1>7
<1> QED BY <1>2, <1>3, <1>8, <1>9 DEF gone, rest

\* The sequence without its entry i.
LEMMA Removed ==
    ASSUME NEW X, NEW s \in Seq(X), NEW i \in DOMAIN s
    PROVE  /\ RemoveAt(s, i) \in Seq(X) /\ Len(RemoveAt(s, i)) = Len(s) - 1
           /\ \A j \in 1..(Len(s) - 1) :
                RemoveAt(s, i)[j] = IF j < i THEN s[j] ELSE s[j + 1]
<1> DEFINE front == SubSeq(s, 1, i - 1)
           back  == SubSeq(s, i + 1, Len(s))
<1>0. i \in 1..Len(s)
    OBVIOUS
<1>1. /\ front \in Seq(X) /\ Len(front) = i - 1
      /\ \A j \in 1..(i - 1) : front[j] = s[j]
    BY <1>0, SubSeqProperties
<1>2. /\ back \in Seq(X) /\ Len(back) = Len(s) - i
      /\ \A j \in 1..(Len(s) - i) : back[j] = s[i + j]
    BY <1>0, SubSeqProperties
<1> HIDE DEF front, back
<1>3. /\ front \o back \in Seq(X)
      /\ Len(front \o back) = Len(s) - 1
      /\ \A j \in 1..(Len(s) - 1) :
           (front \o back)[j] = IF j <= i - 1 THEN front[j] ELSE back[j - (i - 1)]
  <2>1. /\ front \o back \in Seq(X)
        /\ Len(front \o back) = Len(front) + Len(back)
        /\ \A j \in 1..(Len(front) + Len(back)) :
             (front \o back)[j] = IF j <= Len(front) THEN front[j] ELSE back[j - Len(front)]
      BY <1>1, <1>2, ConcatProperties
  <2>2. Len(front) + Len(back) = Len(s) - 1
      BY <1>0, <1>1, <1>2
  <2> QED BY <2>1, <2>2, <1>1
<1>4. ASSUME NEW j \in 1..(Len(s) - 1)
      PROVE  (front \o back)[j] = IF j < i THEN s[j] ELSE s[j + 1]
  <2>1. CASE j < i
      BY <2>1, <1>0, <1>1, <1>3
  <2>2. CASE ~ (j < i)
    <3>1. j - (i - 1) \in 1..(Len(s) - i) /\ i + (j - (i - 1)) = j + 1 /\ ~ (j <= i - 1)
        BY <2>2, <1>0
    <3>2. (front \o back)[j] = back[j - (i - 1)]
        BY <3>1, <1>3
    <3>3. back[j - (i - 1)] = s[i + (j - (i - 1))]
        BY <3>1, <1>2
    <3> QED BY <3>1, <3>2, <3>3, <2>2
  <2> QED BY <2>1, <2>2
<1> QED BY <1>3, <1>4 DEF RemoveAt, front, back

\* Where an entry of a sequence of length n comes from, and where it goes, when
\* the entry i is moved to the end.
From(n, i, j) == IF j = n THEN i ELSE IF j < i THEN j ELSE j + 1
To(n, i, j)   == IF j = i THEN n ELSE IF j < i THEN j ELSE j - 1

LEMMA FromAndTo ==
    ASSUME NEW n \in Nat, NEW i \in 1..n, NEW j \in 1..n
    PROVE  /\ From(n, i, j) \in 1..n /\ To(n, i, j) \in 1..n
           /\ From(n, i, To(n, i, j)) = j /\ To(n, i, From(n, i, j)) = j
           /\ From(n, i, n) = i /\ To(n, i, i) = n
<1>1. CASE j = i
    BY <1>1 DEF From, To
<1>2. CASE j < i
    BY <1>2 DEF From, To
<1>3. CASE j > i
    BY <1>3 DEF From, To
<1> QED BY <1>1, <1>2, <1>3

LEMMA MovedIsTheSame ==
    ASSUME NEW X, NEW s \in Seq(X), Once(s), NEW i \in DOMAIN s
    PROVE  /\ MovedToEnd(s, i) \in Seq(X) /\ Once(MovedToEnd(s, i))
           /\ ToSet(MovedToEnd(s, i)) = ToSet(s)
<1> DEFINE rest  == RemoveAt(s, i)
           moved == Append(rest, s[i])
<1>0. i \in 1..Len(s) /\ s[i] \in X /\ Len(s) \in Nat
    OBVIOUS
<1>1. /\ rest \in Seq(X) /\ Len(rest) = Len(s) - 1
      /\ \A j \in 1..(Len(s) - 1) : rest[j] = IF j < i THEN s[j] ELSE s[j + 1]
    BY Removed
<1> HIDE DEF rest
<1>2. /\ moved \in Seq(X) /\ Len(moved) = Len(s)
      /\ \A j \in 1..(Len(s) - 1) : moved[j] = IF j < i THEN s[j] ELSE s[j + 1]
      /\ moved[Len(s)] = s[i]
    BY <1>0, <1>1, AppendProperties
<1> HIDE DEF moved
<1> DEFINE from(j) == From(Len(s), i, j)
           to(j)   == To(Len(s), i, j)
<1>3. \A j \in 1..Len(s) : /\ from(j) \in 1..Len(s) /\ to(j) \in 1..Len(s)
                           /\ from(to(j)) = j /\ to(from(j)) = j
    BY <1>0, FromAndTo
<1>4. \A j \in 1..Len(s) : moved[j] = s[from(j)]
    BY <1>0, <1>2 DEF From
<1> HIDE DEF from, to
<1>5. \A j, m \in 1..Len(s) : from(j) = from(m) => j = m
    BY <1>3
<1>6. DOMAIN moved = 1..Len(s) /\ DOMAIN s = 1..Len(s)
    BY <1>2
<1>7. Once(moved)
    BY <1>3, <1>4, <1>5, <1>6 DEF Once
<1>8. ToSet(moved) = ToSet(s)
  <2>1. /\ \A x : x \in ToSet(s) <=> \E j \in 1..Len(s) : x = s[j]
        /\ \A x : x \in ToSet(moved) <=> \E j \in 1..Len(s) : x = moved[j]
      BY <1>2, MembersOf
  <2>2. \A j \in 1..Len(s) : moved[j] \in ToSet(s)
      BY <2>1, <1>3, <1>4
  <2>3. \A j \in 1..Len(s) : s[j] \in ToSet(moved)
    <3>1. \A j \in 1..Len(s) : s[j] = moved[to(j)]
        BY <1>3, <1>4
    <3> QED BY <3>1, <2>1, <1>3
  <2> QED BY <2>1, <2>2, <2>3
<1> QED BY <1>2, <1>7, <1>8 DEF moved, rest, MovedToEnd

-----------------------------------------------------------------------------
(* The ledger of sessions.                                                 *)

Entry == [of : Session, families : SUBSET Family]

\* Every session has one entry.
OnePerSession(s) ==
    /\ s \in Seq(Entry)
    /\ \A i, j \in 1..Len(s) : s[i].of = s[j].of => i = j

Shown(s, o, f) == \E i \in 1..Len(s) : s[i].of = o /\ f \in s[i].families

LEMMA ShownOfOne ==
    ASSUME NEW s, OnePerSession(s), NEW i \in 1..Len(s), NEW f
    PROVE  Shown(s, s[i].of, f) <=> f \in s[i].families
BY DEF OnePerSession, Shown

LEMMA EntryMoved ==
    ASSUME NEW s, OnePerSession(s), NEW i \in 1..Len(s), NEW F \in SUBSET Family
    PROVE  LET s2 == Append(RemoveAt(s, i), [of |-> s[i].of, families |-> s[i].families \cup F])
           IN  /\ OnePerSession(s2)
               /\ \A o, f : Shown(s2, o, f) <=> Shown(s, o, f) \/ (o = s[i].of /\ f \in F)
<1> DEFINE rest == RemoveAt(s, i)
           x    == [of |-> s[i].of, families |-> s[i].families \cup F]
           s2   == Append(rest, x)
<1>0. /\ s \in Seq(Entry) /\ Len(s) \in Nat /\ DOMAIN s = 1..Len(s) /\ i \in DOMAIN s
      /\ s[i] \in Entry
    BY DEF OnePerSession
<1>1. /\ rest \in Seq(Entry) /\ Len(rest) = Len(s) - 1
      /\ \A j \in 1..(Len(s) - 1) : rest[j] = IF j < i THEN s[j] ELSE s[j + 1]
    BY <1>0, Removed
<1>2. x \in Entry /\ x.of = s[i].of /\ x.families = s[i].families \cup F
    BY <1>0 DEF Entry
<1> HIDE DEF rest, x
<1>3. /\ s2 \in Seq(Entry) /\ Len(s2) = Len(s)
      /\ \A j \in 1..(Len(s) - 1) : s2[j] = IF j < i THEN s[j] ELSE s[j + 1]
      /\ s2[Len(s)] = x
  <2>1. /\ s2 \in Seq(Entry) /\ Len(s2) = Len(rest) + 1
        /\ \A j \in 1..Len(rest) : s2[j] = rest[j]
        /\ s2[Len(rest) + 1] = x
      BY <1>1, <1>2, AppendProperties
  <2> QED BY <2>1, <1>0, <1>1
<1> HIDE DEF s2
<1> DEFINE from(j) == From(Len(s), i, j)
           to(j)   == To(Len(s), i, j)
<1>4. \A j \in 1..Len(s) : /\ from(j) \in 1..Len(s) /\ to(j) \in 1..Len(s)
                           /\ from(to(j)) = j /\ to(from(j)) = j
    BY <1>0, FromAndTo
<1>5. \A j \in 1..Len(s) : /\ j # Len(s) => s2[j] = s[from(j)]
                           /\ s2[j].of = s[from(j)].of
  <2> SUFFICES ASSUME NEW j \in 1..Len(s)
               PROVE  (j # Len(s) => s2[j] = s[from(j)]) /\ s2[j].of = s[from(j)].of
      OBVIOUS
  <2>1. CASE j = Len(s)
    <3>1. from(j) = i /\ s2[j] = x
        BY <2>1, <1>3 DEF From
    <3> QED BY <3>1, <2>1, <1>2
  <2>2. CASE j # Len(s)
    <3>0. Len(s) \in Nat
        BY <1>0
    <3>1. j \in 1..(Len(s) - 1)
        BY <3>0, <2>2
    <3>2. s2[j] = s[from(j)]
        BY <3>1, <2>2, <1>3 DEF From
    <3> QED BY <3>2
  <2> QED BY <2>1, <2>2
<1>6. from(Len(s)) = i /\ to(i) = Len(s) /\ \A j \in 1..Len(s) : to(j) = Len(s) => j = i
  <2>1. from(Len(s)) = i
      BY DEF From
  <2>2. to(i) = Len(s)
      BY DEF To
  <2>3. ASSUME NEW j \in 1..Len(s), to(j) = Len(s)
        PROVE  j = i
      BY <1>4, <2>1, <2>3
  <2> QED BY <2>1, <2>2, <2>3
<1> HIDE DEF from, to
<1>7. OnePerSession(s2)
  <2> SUFFICES ASSUME NEW j \in 1..Len(s), NEW m \in 1..Len(s), s2[j].of = s2[m].of
               PROVE  j = m
      BY <1>3 DEF OnePerSession
  <2>1. from(j) = from(m)
      BY <1>4, <1>5 DEF OnePerSession
  <2> QED BY <2>1, <1>4
<1>8. ASSUME NEW o, NEW f
      PROVE  Shown(s2, o, f) <=> Shown(s, o, f) \/ (o = s[i].of /\ f \in F)
  <2>1. ASSUME NEW j \in 1..Len(s), s2[j].of = o, f \in s2[j].families
        PROVE  Shown(s, o, f) \/ (o = s[i].of /\ f \in F)
    <3>1. CASE j = Len(s)
        BY <3>1, <2>1, <1>0, <1>2, <1>3 DEF Shown
    <3>2. CASE j # Len(s)
        BY <3>2, <2>1, <1>4, <1>5 DEF Shown
    <3> QED BY <3>1, <3>2
  <2>2. ASSUME NEW j \in 1..Len(s), s[j].of = o, f \in s[j].families
        PROVE  Shown(s2, o, f)
    <3>1. CASE j = i
        BY <3>1, <2>2, <1>0, <1>2, <1>3 DEF Shown
    <3>2. CASE j # i
      <4>1. to(j) \in 1..Len(s) /\ to(j) # Len(s) /\ s2[to(j)] = s[j]
          BY <3>2, <1>4, <1>5, <1>6
      <4> QED BY <4>1, <2>2, <1>3 DEF Shown
    <3> QED BY <3>1, <3>2
  <2>3. o = s[i].of /\ f \in F => Shown(s2, o, f)
      BY <1>0, <1>2, <1>3 DEF Shown
  <2> QED BY <2>1, <2>2, <2>3, <1>3 DEF Shown
<1> QED BY <1>7, <1>8 DEF s2, x, rest

LEMMA EntryAdded ==
    ASSUME NEW s, OnePerSession(s), NEW o \in Session, NEW F \in SUBSET Family,
           \A i \in 1..Len(s) : s[i].of # o
    PROVE  LET s2 == Append(s, [of |-> o, families |-> F])
           IN  /\ OnePerSession(s2)
               /\ \A p, f : Shown(s2, p, f) <=> Shown(s, p, f) \/ (p = o /\ f \in F)
<1> DEFINE x  == [of |-> o, families |-> F]
           s2 == Append(s, x)
<1>1. s \in Seq(Entry) /\ Len(s) \in Nat /\ x \in Entry /\ x.of = o /\ x.families = F
    BY DEF OnePerSession, Entry
<1> HIDE DEF x
<1>2. /\ s2 \in Seq(Entry) /\ Len(s2) = Len(s) + 1
      /\ \A j \in 1..Len(s) : s2[j] = s[j]
      /\ s2[Len(s) + 1] = x
    BY <1>1, AppendProperties
<1> HIDE DEF s2
<1>3. OnePerSession(s2)
  <2> SUFFICES ASSUME NEW i \in 1..Len(s2), NEW j \in 1..Len(s2), s2[i].of = s2[j].of
               PROVE  i = j
      BY <1>2 DEF OnePerSession
  <2>1. CASE i \in 1..Len(s) /\ j \in 1..Len(s)
      BY <2>1, <1>2 DEF OnePerSession
  <2>2. CASE i = Len(s) + 1 \/ j = Len(s) + 1
      BY <2>2, <1>1, <1>2
  <2> QED BY <2>1, <2>2, <1>1, <1>2
<1>4. ASSUME NEW p, NEW f
      PROVE  Shown(s2, p, f) <=> Shown(s, p, f) \/ (p = o /\ f \in F)
  <2>1. \A i : i \in 1..Len(s2) <=> i \in 1..Len(s) \/ i = Len(s) + 1
      BY <1>1, <1>2
  <2> QED BY <2>1, <1>1, <1>2 DEF Shown
<1> QED BY <1>3, <1>4 DEF s2, x

LEMMA OldestEntryLeaves ==
    ASSUME NEW s, OnePerSession(s), Len(s) > 0
    PROVE  /\ OnePerSession(Tail(s))
           /\ \A p, f : Shown(Tail(s), p, f) <=> Shown(s, p, f) /\ p # s[1].of
           /\ \A i \in 1..Len(Tail(s)) : \E j \in 1..Len(s) : Tail(s)[i] = s[j]
<1>1. s \in Seq(Entry) /\ s # <<>> /\ Len(s) \in Nat /\ 1 \in 1..Len(s)
    BY DEF OnePerSession
<1> DEFINE rest == Tail(s)
<1>2. /\ rest \in Seq(Entry) /\ Len(rest) = Len(s) - 1
      /\ \A i \in 1..(Len(s) - 1) : rest[i] = s[i + 1]
    BY <1>1, HeadTailProperties
<1> HIDE DEF rest
<1>3. \A i \in 1..(Len(s) - 1) : i + 1 \in 1..Len(s) /\ i + 1 # 1
    BY <1>1
<1>4. OnePerSession(rest)
  <2> SUFFICES ASSUME NEW i \in 1..(Len(s) - 1), NEW j \in 1..(Len(s) - 1), rest[i].of = rest[j].of
               PROVE  i = j
      BY <1>2 DEF OnePerSession
  <2>1. i + 1 = j + 1
      BY <1>2, <1>3 DEF OnePerSession
  <2> QED BY <2>1
<1>5. ASSUME NEW p, NEW f
      PROVE  Shown(rest, p, f) <=> Shown(s, p, f) /\ p # s[1].of
  <2>1. ASSUME NEW i \in 1..Len(rest), rest[i].of = p, f \in rest[i].families
        PROVE  Shown(s, p, f) /\ p # s[1].of
      BY <2>1, <1>1, <1>2, <1>3 DEF OnePerSession, Shown
  <2>2. ASSUME NEW j \in 1..Len(s), s[j].of = p, f \in s[j].families, p # s[1].of
        PROVE  Shown(rest, p, f)
    <3>1. j - 1 \in 1..(Len(s) - 1) /\ (j - 1) + 1 = j
        BY <2>2, <1>1
    <3>2. rest[j - 1] = s[j]
        BY <3>1, <1>2
    <3> QED BY <3>1, <3>2, <2>2, <1>2 DEF Shown
  <2> QED BY <2>1, <2>2 DEF Shown
<1>6. \A i \in 1..Len(rest) : \E j \in 1..Len(s) : rest[i] = s[j]
    BY <1>2, <1>3
<1> QED BY <1>4, <1>5, <1>6 DEF rest

-----------------------------------------------------------------------------
(* What was handed over, what is remembered, what was forgotten.           *)

LedgersOK ==
    /\ ledger \in Seq(Notice) /\ Once(ledger)
    /\ OnePerSession(sessions)
    /\ processwide \subseteq Family

HistoryOK ==
    /\ offers \in [Event -> Nat]
    /\ forgotten \in [Event -> Nat]

NoticesBalance ==
    \A n \in Notice : offers[n] = forgotten[n] + (IF n \in ToSet(ledger) THEN 1 ELSE 0)

SessionsBalance ==
    \A s \in Session, f \in Family :
        offers[<<s, f>>] = forgotten[<<s, f>>] + (IF Shown(sessions, s, f) THEN 1 ELSE 0)

AnonymousBalance ==
    \A f \in Family :
        /\ offers[<<NoSession, f>>] = (IF f \in processwide THEN 1 ELSE 0)
        /\ forgotten[<<NoSession, f>>] = 0

OnceInv == LedgersOK /\ HistoryOK /\ NoticesBalance /\ SessionsBalance /\ AnonymousBalance

LEMMA EventsApart ==
    /\ \A n \in Notice : n \in Event
    /\ \A s \in Session \cup {NoSession}, f \in Family : <<s, f>> \in Event
    /\ \A n \in Notice, s \in Session \cup {NoSession}, f \in Family : n # <<s, f>>
    /\ NoSession \notin Session
    /\ \A e \in Failure : /\ e \in Event /\ e \notin Notice
                          /\ \A s \in Session \cup {NoSession}, f \in Family : e # <<s, f>>
<1>1. \A s \in Session \cup {NoSession}, f \in Family : <<s, f>> \in Warning
    BY DEF Warning
<1> QED BY <1>1, DiagnosticsAssumption DEF Event

LEMMA Handed ==
    ASSUME HistoryOK, NEW t, NEW E, Offer(t, E)
    PROVE  /\ offers' \in [Event -> Nat]
           /\ \A e \in Event : offers'[e] = offers[e] + (IF e \in E THEN 1 ELSE 0)
BY DEF HistoryOK, Offer

LEMMA Forgotten ==
    ASSUME HistoryOK, NEW E, Forget(E)
    PROVE  /\ forgotten' \in [Event -> Nat]
           /\ \A e \in Event : forgotten'[e] = forgotten[e] + (IF e \in E THEN 1 ELSE 0)
BY DEF HistoryOK, Forget

LEMMA EvictedIsAPrefix ==
    ASSUME NEW s \in Seq(Notice), NEW n \in Notice
    PROVE  Evicted(s, n) \in 0..Len(s)
<1> DEFINE Room(k) == LET rest == SubSeq(s, k + 1, Len(s))
                      IN  rest = <<>> \/ (Len(rest) < MaxItems /\ Total(rest) + Weight[n] <= MaxChars)
           K == {k \in 0..Len(s) : Room(k)}
<1>1. Len(s) \in Nat /\ Len(s) + 1 \in Int
    OBVIOUS
<1>2. SubSeq(s, Len(s) + 1, Len(s)) = <<>>
    BY <1>1, SubSeqEmpty
<1>3. Len(s) \in K
    BY <1>1, <1>2
<1>4. K \in SUBSET Nat /\ K \subseteq 0..Len(s)
    BY <1>1
<1> HIDE DEF K
<1>5. Min(K) \in K
    BY <1>3, <1>4, LeastOfSome
<1> QED BY <1>4, <1>5 DEF K, Evicted

LEMMA NoticeStep ==
    ASSUME OnceInv, NEW t \in Thread, EmitLocalOnce(t)
    PROVE  OnceInv'
<1>0. sessions' = sessions /\ processwide' = processwide
    BY DEF EmitLocalOnce
<1>1. PICK n \in Notice :
        \/ n \notin ToSet(ledger) /\ Remember(t, n)
        \/ \E i \in DOMAIN ledger : ledger' = MovedToEnd(ledger, i) /\ UNCHANGED <<forgotten, offers>>
        \/ UNCHANGED <<ledger, forgotten, offers>>
    BY DEF EmitLocalOnce
<1>2. CASE n \notin ToSet(ledger) /\ Remember(t, n)
  <2> DEFINE k    == Evicted(ledger, n)
             gone == SubSeq(ledger, 1, k)
             rest == SubSeq(ledger, k + 1, Len(ledger))
  <2>1. k \in 0..Len(ledger)
      BY EvictedIsAPrefix DEF OnceInv, LedgersOK
  <2>2. /\ rest \in Seq(Notice) /\ Once(rest)
        /\ ToSet(gone) \subseteq ToSet(ledger)
        /\ ToSet(rest) = ToSet(ledger) \ ToSet(gone)
      BY <2>1, Pieces DEF OnceInv, LedgersOK
  <2>3. /\ ledger' = Append(rest, n)
        /\ Forget(ToSet(gone)) /\ Offer(t, {n})
      BY <1>2 DEF Remember
  <2> HIDE DEF k, gone, rest
  <2>4. /\ ledger' \in Seq(Notice) /\ Len(ledger') = Len(rest) + 1
        /\ \A i \in 1..Len(rest) : ledger'[i] = rest[i]
        /\ ledger'[Len(rest) + 1] = n
      BY <2>2, <2>3, AppendProperties
  <2>5. /\ \A x : x \in ToSet(rest) <=> \E i \in 1..Len(rest) : x = rest[i]
        /\ \A x : x \in ToSet(ledger') <=> \E i \in 1..(Len(rest) + 1) : x = ledger'[i]
      BY <2>2, <2>4, MembersOf
  <2>6. Len(rest) \in Nat /\ DOMAIN rest = 1..Len(rest) /\ DOMAIN ledger' = 1..(Len(rest) + 1)
      BY <2>2, <2>4
  <2>7. \A i : i \in 1..(Len(rest) + 1) <=> i \in 1..Len(rest) \/ i = Len(rest) + 1
      BY <2>6
  <2>8. \A x : x \in ToSet(ledger') <=> x \in ToSet(rest) \/ x = n
      BY <2>4, <2>5, <2>7
  <2>9. Once(ledger')
      BY <1>2, <2>2, <2>4, <2>5, <2>6, <2>7 DEF Once
  <2>10. ToSet(ledger) \subseteq Notice
      BY MembersOf, ElementOfSeq DEF OnceInv, LedgersOK
  <2>11. /\ offers' \in [Event -> Nat] /\ forgotten' \in [Event -> Nat]
         /\ \A e \in Event : /\ offers'[e] = offers[e] + (IF e \in {n} THEN 1 ELSE 0)
                             /\ forgotten'[e] = forgotten[e] + (IF e \in ToSet(gone) THEN 1 ELSE 0)
      BY <2>3, Handed, Forgotten DEF OnceInv
  <2>12. LedgersOK' /\ HistoryOK'
      BY <1>0, <2>4, <2>9, <2>11 DEF OnceInv, LedgersOK, HistoryOK
  <2>13. ASSUME NEW x \in Notice
         PROVE  offers'[x] = forgotten'[x] + (IF x \in ToSet(ledger') THEN 1 ELSE 0)
    <3>1. /\ offers[x] \in Nat /\ forgotten[x] \in Nat
          /\ offers[x] = forgotten[x] + (IF x \in ToSet(ledger) THEN 1 ELSE 0)
        BY EventsApart DEF OnceInv, HistoryOK, NoticesBalance
    <3>2. /\ offers'[x] = offers[x] + (IF x = n THEN 1 ELSE 0)
          /\ forgotten'[x] = forgotten[x] + (IF x \in ToSet(gone) THEN 1 ELSE 0)
        BY <2>11, EventsApart
    <3>3. /\ x \in ToSet(ledger') <=> (x \in ToSet(ledger) /\ x \notin ToSet(gone)) \/ x = n
          /\ x \in ToSet(gone) => x \in ToSet(ledger)
          /\ x = n => x \notin ToSet(ledger)
        BY <1>2, <2>2, <2>8
    <3> QED BY <3>1, <3>2, <3>3
  <2>14. ASSUME NEW s \in Session \cup {NoSession}, NEW f \in Family
         PROVE  offers'[<<s, f>>] = offers[<<s, f>>] /\ forgotten'[<<s, f>>] = forgotten[<<s, f>>]
    <3>1. <<s, f>> \in Event /\ <<s, f>> # n /\ <<s, f>> \notin ToSet(gone)
        BY <2>2, <2>10, EventsApart
    <3>2. offers[<<s, f>>] \in Nat /\ forgotten[<<s, f>>] \in Nat
        BY <3>1 DEF OnceInv, HistoryOK
    <3> QED BY <3>1, <3>2, <2>11
  <2> QED BY <1>0, <2>12, <2>13, <2>14
           DEF OnceInv, NoticesBalance, SessionsBalance, AnonymousBalance
<1>3. CASE \E i \in DOMAIN ledger : ledger' = MovedToEnd(ledger, i) /\ UNCHANGED <<forgotten, offers>>
  <2>1. ledger' \in Seq(Notice) /\ Once(ledger') /\ ToSet(ledger') = ToSet(ledger)
      BY <1>3, MovedIsTheSame DEF OnceInv, LedgersOK
  <2> QED BY <1>0, <1>3, <2>1 DEF OnceInv, LedgersOK, HistoryOK, NoticesBalance, SessionsBalance,
             AnonymousBalance
<1>4. CASE UNCHANGED <<ledger, forgotten, offers>>
  <2> QED BY <1>0, <1>4 DEF OnceInv, LedgersOK, HistoryOK, NoticesBalance, SessionsBalance,
             AnonymousBalance, Once
<1> QED BY <1>1, <1>2, <1>3, <1>4

LEMMA AnonymousStep ==
    ASSUME OnceInv, NEW t \in Thread, NEW F \in SUBSET Family, NoteAnonymous(t, F), ledger' = ledger
    PROVE  OnceInv'
<1>1. /\ offers' \in [Event -> Nat]
      /\ \A e \in Event : offers'[e] = offers[e] + (IF e \in {NoSession} \X (F \ processwide) THEN 1 ELSE 0)
      /\ processwide' = processwide \cup F /\ UNCHANGED <<sessions, forgotten>>
    BY Handed DEF OnceInv, NoteAnonymous
<1>2. LedgersOK' /\ HistoryOK'
    BY <1>1 DEF OnceInv, LedgersOK, HistoryOK, Once
<1>3. ASSUME NEW n \in Notice PROVE offers'[n] = offers[n]
  <2>1. n \in Event /\ n \notin {NoSession} \X (F \ processwide)
      BY EventsApart DEF OnceInv, LedgersOK
  <2> QED BY <1>1, <2>1 DEF OnceInv, HistoryOK
<1>4. ASSUME NEW s \in Session, NEW f \in Family PROVE offers'[<<s, f>>] = offers[<<s, f>>]
  <2>1. <<s, f>> \in Event /\ <<s, f>> \notin {NoSession} \X (F \ processwide)
      BY EventsApart
  <2> QED BY <1>1, <2>1 DEF OnceInv, HistoryOK
<1>5. ASSUME NEW f \in Family
      PROVE  offers'[<<NoSession, f>>] = (IF f \in processwide' THEN 1 ELSE 0)
  <2>1. <<NoSession, f>> \in Event
      BY EventsApart
  <2>2. <<NoSession, f>> \in {NoSession} \X (F \ processwide) <=> f \in F /\ f \notin processwide
      OBVIOUS
  <2>3. offers[<<NoSession, f>>] = (IF f \in processwide THEN 1 ELSE 0)
      BY DEF OnceInv, AnonymousBalance
  <2> QED BY <1>1, <2>1, <2>2, <2>3
<1> QED BY <1>1, <1>2, <1>3, <1>4, <1>5
         DEF OnceInv, NoticesBalance, SessionsBalance, AnonymousBalance

LEMMA KnownStep ==
    ASSUME OnceInv, NEW t \in Thread, NEW i \in DOMAIN sessions, NEW F \in SUBSET Family,
           NoteKnown(t, i, F), ledger' = ledger
    PROVE  OnceInv'
<1> DEFINE s    == sessions[i].of
           seen == sessions[i].families
<1>0. /\ i \in 1..Len(sessions) /\ s \in Session /\ seen \in SUBSET Family
      /\ OnePerSession(sessions)
  <2>1. OnePerSession(sessions)
      BY DEF OnceInv, LedgersOK
  <2>2. sessions \in Seq(Entry)
      BY <2>1 DEF OnePerSession
  <2>3. i \in 1..Len(sessions) /\ sessions[i] \in Entry
      BY <2>2
  <2> QED BY <2>1, <2>3 DEF Entry
<1>1. /\ offers' \in [Event -> Nat]
      /\ \A e \in Event : offers'[e] = offers[e] + (IF e \in {s} \X (F \ seen) THEN 1 ELSE 0)
      /\ UNCHANGED <<processwide, forgotten>>
    BY Handed DEF OnceInv, NoteKnown
<1>2. /\ OnePerSession(sessions')
      /\ \A o, f : Shown(sessions', o, f) <=> Shown(sessions, o, f) \/ (o = s /\ f \in F)
  <2>1. sessions' = Append(RemoveAt(sessions, i), [of |-> s, families |-> seen \cup F])
      BY DEF NoteKnown
  <2> QED BY <1>0, <2>1, EntryMoved
<1>3. LedgersOK' /\ HistoryOK'
    BY <1>1, <1>2 DEF OnceInv, LedgersOK, HistoryOK, Once
<1>4. ASSUME NEW n \in Notice PROVE offers'[n] = offers[n]
  <2>1. n \in Event /\ n \notin {s} \X (F \ seen)
      BY <1>0, EventsApart
  <2> QED BY <1>1, <2>1 DEF OnceInv, HistoryOK
<1>5. ASSUME NEW f \in Family PROVE offers'[<<NoSession, f>>] = offers[<<NoSession, f>>]
  <2>1. <<NoSession, f>> \in Event /\ <<NoSession, f>> \notin {s} \X (F \ seen)
      BY <1>0, EventsApart
  <2> QED BY <1>1, <2>1 DEF OnceInv, HistoryOK
<1>6. ASSUME NEW o \in Session, NEW f \in Family
      PROVE  offers'[<<o, f>>] = forgotten'[<<o, f>>] + (IF Shown(sessions', o, f) THEN 1 ELSE 0)
  <2>1. <<o, f>> \in Event
      BY EventsApart
  <2>2. <<o, f>> \in {s} \X (F \ seen) <=> o = s /\ f \in F /\ f \notin seen
      OBVIOUS
  <2>3. o = s => (Shown(sessions, o, f) <=> f \in seen)
      BY <1>0, ShownOfOne
  <2>4. /\ offers[<<o, f>>] = forgotten[<<o, f>>] + (IF Shown(sessions, o, f) THEN 1 ELSE 0)
        /\ offers[<<o, f>>] \in Nat /\ forgotten[<<o, f>>] \in Nat
      BY <2>1 DEF OnceInv, HistoryOK, SessionsBalance
  <2>5. Shown(sessions', o, f) <=> Shown(sessions, o, f) \/ (o = s /\ f \in F)
      BY <1>2
  <2> HIDE DEF s, seen
  <2>6. offers'[<<o, f>>] = offers[<<o, f>>] + (IF o = s /\ f \in F /\ f \notin seen THEN 1 ELSE 0)
      BY <1>1, <2>1, <2>2
  <2> QED BY <1>1, <2>3, <2>4, <2>5, <2>6
<1> QED BY <1>1, <1>3, <1>4, <1>5, <1>6
         DEF OnceInv, NoticesBalance, SessionsBalance, AnonymousBalance

LEMMA NewStep ==
    ASSUME OnceInv, NEW t \in Thread, NEW s \in Session, ~ Known(s), NEW F \in SUBSET Family,
           NoteNew(t, s, F), ledger' = ledger
    PROVE  OnceInv'
<1> DEFINE full == Len(sessions) >= MaxSessions
           rest == IF full THEN Tail(sessions) ELSE sessions
           gone == IF full THEN {sessions[1].of} \X sessions[1].families ELSE {}
<1>0. /\ OnePerSession(sessions) /\ Len(sessions) \in Nat
      /\ \A i \in 1..Len(sessions) : sessions[i].of # s
      /\ full => Len(sessions) > 0
    BY DiagnosticsAssumption DEF OnceInv, LedgersOK, OnePerSession, Known
<1>1. /\ offers' \in [Event -> Nat]
      /\ \A e \in Event : offers'[e] = offers[e] + (IF e \in {s} \X F THEN 1 ELSE 0)
      /\ processwide' = processwide /\ sessions' = Append(rest, [of |-> s, families |-> F])
    BY Handed DEF OnceInv, NoteNew
<1>2. /\ forgotten' \in [Event -> Nat]
      /\ \A e \in Event : forgotten'[e] = forgotten[e] + (IF e \in gone THEN 1 ELSE 0)
    BY Forgotten DEF OnceInv, NoteNew
<1>3. /\ OnePerSession(rest)
      /\ \A i \in 1..Len(rest) : rest[i].of # s
      /\ \A o, f : Shown(rest, o, f) <=> Shown(sessions, o, f) /\ <<o, f>> \notin gone
  <2>1. CASE full
    <3>1. /\ OnePerSession(Tail(sessions))
          /\ \A p, f : Shown(Tail(sessions), p, f) <=> Shown(sessions, p, f) /\ p # sessions[1].of
          /\ \A i \in 1..Len(Tail(sessions)) : \E j \in 1..Len(sessions) : Tail(sessions)[i] = sessions[j]
        BY <1>0, <2>1, OldestEntryLeaves
    <3>2. \A f : Shown(sessions, sessions[1].of, f) <=> f \in sessions[1].families
        BY <1>0, <2>1, ShownOfOne
    <3>3. \A o, f : <<o, f>> \in gone <=> o = sessions[1].of /\ f \in sessions[1].families
        BY <2>1
    <3>4. rest = Tail(sessions)
        BY <2>1
    <3> HIDE DEF rest, gone, full
    <3>5. \A o, f : Shown(rest, o, f) <=> Shown(sessions, o, f) /\ <<o, f>> \notin gone
        BY <3>1, <3>2, <3>3, <3>4
    <3> QED BY <1>0, <3>1, <3>4, <3>5
  <2>2. CASE ~ full
      BY <1>0, <2>2
  <2> QED BY <2>1, <2>2
<1>4. \A o, f : <<o, f>> \in gone => o \in Session /\ Shown(sessions, o, f)
  <2>1. CASE full
    <3>1. sessions[1] \in Entry /\ 1 \in 1..Len(sessions)
        BY <1>0, <2>1 DEF OnePerSession
    <3>2. \A f : Shown(sessions, sessions[1].of, f) <=> f \in sessions[1].families
        BY <1>0, <3>1, ShownOfOne
    <3> QED BY <2>1, <3>1, <3>2 DEF Entry
  <2>2. CASE ~ full
      BY <2>2
  <2> QED BY <2>1, <2>2
<1>5. \A e \in gone : \E o \in Session, f \in Family : e = <<o, f>>
  <2>1. CASE full
    <3>1. sessions[1] \in Entry
        BY <1>0, <2>1 DEF OnePerSession
    <3> QED BY <2>1, <3>1 DEF Entry
  <2>2. CASE ~ full
      BY <2>2
  <2> QED BY <2>1, <2>2
<1> HIDE DEF rest, gone, full
<1>6. /\ OnePerSession(sessions')
      /\ \A o, f : Shown(sessions', o, f) <=> Shown(rest, o, f) \/ (o = s /\ f \in F)
    BY <1>1, <1>3, EntryAdded
<1>7. LedgersOK' /\ HistoryOK'
    BY <1>1, <1>2, <1>6 DEF OnceInv, LedgersOK, HistoryOK, Once
<1>8. ASSUME NEW n \in Notice PROVE offers'[n] = offers[n] /\ forgotten'[n] = forgotten[n]
  <2>1. n \in Event /\ n \notin {s} \X F /\ n \notin gone
      BY <1>5, EventsApart
  <2> QED BY <1>1, <1>2, <2>1 DEF OnceInv, HistoryOK
<1>9. ASSUME NEW f \in Family
      PROVE  /\ offers'[<<NoSession, f>>] = offers[<<NoSession, f>>]
             /\ forgotten'[<<NoSession, f>>] = forgotten[<<NoSession, f>>]
  <2>1. <<NoSession, f>> \in Event /\ <<NoSession, f>> \notin {s} \X F /\ <<NoSession, f>> \notin gone
      BY <1>4, EventsApart
  <2> QED BY <1>1, <1>2, <2>1 DEF OnceInv, HistoryOK
<1>10. ASSUME NEW o \in Session, NEW f \in Family
       PROVE  offers'[<<o, f>>] = forgotten'[<<o, f>>] + (IF Shown(sessions', o, f) THEN 1 ELSE 0)
  <2>1. <<o, f>> \in Event
      BY EventsApart
  <2>2. <<o, f>> \in {s} \X F <=> o = s /\ f \in F
      OBVIOUS
  <2>3. /\ offers[<<o, f>>] = forgotten[<<o, f>>] + (IF Shown(sessions, o, f) THEN 1 ELSE 0)
        /\ offers[<<o, f>>] \in Nat /\ forgotten[<<o, f>>] \in Nat
      BY <2>1 DEF OnceInv, HistoryOK, SessionsBalance
  <2>4. o = s => ~ Shown(sessions, o, f)
      BY <1>0 DEF Shown
  <2>5. Shown(sessions', o, f) <=>
            (Shown(sessions, o, f) /\ <<o, f>> \notin gone) \/ (o = s /\ f \in F)
      BY <1>3, <1>6
  <2>6. <<o, f>> \in gone => Shown(sessions, o, f)
      BY <1>4
  <2>7. /\ offers'[<<o, f>>] = offers[<<o, f>>] + (IF o = s /\ f \in F THEN 1 ELSE 0)
        /\ forgotten'[<<o, f>>] = forgotten[<<o, f>>] + (IF <<o, f>> \in gone THEN 1 ELSE 0)
      BY <1>1, <1>2, <2>1, <2>2
  <2> QED BY <2>3, <2>4, <2>5, <2>6, <2>7
<1> QED BY <1>1, <1>7, <1>8, <1>9, <1>10
         DEF OnceInv, NoticesBalance, SessionsBalance, AnonymousBalance

LEMMA FailureStep ==
    ASSUME OnceInv, NEW t \in Thread, SubmitFailClosed(t)
    PROVE  OnceInv'
<1>1. PICK x \in Failure : Offer(t, {x})
    BY DEF SubmitFailClosed
<1>2. /\ offers' \in [Event -> Nat]
      /\ \A e \in Event : offers'[e] = offers[e] + (IF e \in {x} THEN 1 ELSE 0)
    BY <1>1, Handed DEF OnceInv
<1>3. UNCHANGED <<ledger, sessions, processwide, forgotten>>
    BY DEF SubmitFailClosed, ledgers
<1>4. ASSUME NEW n \in Notice PROVE offers'[n] = offers[n]
    BY <1>2, EventsApart DEF OnceInv, HistoryOK
<1>5. ASSUME NEW s \in Session \cup {NoSession}, NEW f \in Family
      PROVE  offers'[<<s, f>>] = offers[<<s, f>>]
  <2>1. <<s, f>> \in Event /\ <<s, f>> # x
      BY EventsApart
  <2> QED BY <1>2, <2>1 DEF OnceInv, HistoryOK
<1> QED BY <1>2, <1>3, <1>4, <1>5
         DEF OnceInv, LedgersOK, HistoryOK, Once, NoticesBalance, SessionsBalance, AnonymousBalance

LEMMA OnceInvIsInductive == OnceInv /\ [Next]_vars => OnceInv'
<1> SUFFICES ASSUME OnceInv, [Next]_vars PROVE OnceInv'
    OBVIOUS
<1>1. ASSUME NEW t \in Thread, NoteFamilies(t) PROVE OnceInv'
  <2>1. ledger' = ledger
      BY <1>1 DEF NoteFamilies
  <2>2. PICK found \in Scan :
          LET s == found[1]
              F == found[2]
          IN  \/ s = NoSession /\ NoteAnonymous(t, F)
              \/ \E i \in DOMAIN sessions : sessions[i].of = s /\ NoteKnown(t, i, F)
              \/ s # NoSession /\ ~ Known(s) /\ NoteNew(t, s, F)
      BY <1>1 DEF NoteFamilies
  <2>3. found[1] \in Session \cup {NoSession} /\ found[2] \in SUBSET Family
      BY DiagnosticsAssumption
  <2> QED BY <2>1, <2>2, <2>3, AnonymousStep, KnownStep, NewStep
<1>2. ASSUME UNCHANGED <<ledger, sessions, processwide, offers, forgotten>> PROVE OnceInv'
    BY <1>2 DEF OnceInv, LedgersOK, HistoryOK, Once, NoticesBalance, SessionsBalance, AnonymousBalance
<1>3. ASSUME NEW t \in Thread, Enqueue(t) PROVE OnceInv'
    BY <1>2, <1>3 DEF Enqueue, EnsureWorker, StartThread, StartFails, Put, Count, Drop, ledgers
<1>4. ASSUME Worker \/ Write \/ Wait \/ UNCHANGED vars PROVE OnceInv'
    BY <1>2, <1>4 DEF Worker, Get, BeginWrite, EndWrite, Write, Wait, BeginWait, ReadCounters, Decide,
       vars, ledgers, callers
<1> QED BY <1>1, <1>3, <1>4, NoticeStep, FailureStep DEF Next, Report

LEMMA OnceInvAlways == Spec => []OnceInv
<1>1. Init => OnceInv
  <2> SUFFICES ASSUME Init PROVE OnceInv
      OBVIOUS
  <2>1. /\ ledger = <<>> /\ sessions = <<>> /\ processwide = {}
        /\ offers = [e \in Event |-> 0] /\ forgotten = [e \in Event |-> 0]
      BY DEF Init
  <2>2. LedgersOK /\ HistoryOK
      BY <2>1 DEF LedgersOK, HistoryOK, Once, OnePerSession
  <2>3. \A e \in Event : offers[e] = 0 /\ forgotten[e] = 0
      BY <2>1
  <2>4. ToSet(ledger) = {} /\ \A o, f : ~ Shown(sessions, o, f)
      BY <2>1 DEF ToSet, Shown
  <2> QED BY <2>1, <2>2, <2>3, <2>4, EventsApart
           DEF OnceInv, NoticesBalance, SessionsBalance, AnonymousBalance
<1> QED BY <1>1, OnceInvIsInductive, PTL DEF Spec

\* However many threads report it at the same time, an event is handed over once
\* for every time that its ledger has forgotten it, plus once, and warnings
\* without a session are never forgotten: for ledgers of any size, which leave by
\* number, by characters and by session (middleware.py, unregistered_warning.py).
THEOREM HandedOverOnce == Spec => []OnceWhileRemembered
<1>1. OnceInv => OnceWhileRemembered
  <2> SUFFICES ASSUME OnceInv, NEW e \in Notice \cup Warning
               PROVE  /\ offers[e] <= forgotten[e] + 1
                      /\ e \in Warning /\ e[1] = NoSession => forgotten[e] = 0
      BY DEF OnceWhileRemembered
  <2>1. offers[e] \in Nat /\ forgotten[e] \in Nat
      BY DEF OnceInv, HistoryOK, Event
  <2>2. CASE e \in Notice
    <3>1. e \notin Warning
        BY <2>2, DiagnosticsAssumption
    <3> QED BY <2>1, <2>2, <3>1 DEF OnceInv, NoticesBalance
  <2>3. CASE e \in Warning
    <3>1. PICK s \in Session \cup {NoSession}, f \in Family : e = <<s, f>>
        BY <2>3 DEF Warning
    <3>2. CASE s = NoSession
        BY <2>1, <3>1, <3>2 DEF OnceInv, AnonymousBalance
    <3>3. CASE s # NoSession
        BY <2>1, <3>1, <3>3 DEF OnceInv, SessionsBalance
    <3> QED BY <3>2, <3>3
  <2> QED BY <2>2, <2>3
<1> QED BY <1>1, OnceInvAlways, PTL

-----------------------------------------------------------------------------
(* Where the events are, and what the counters say of it.                  *)

Places ==
    /\ worker \in {"none", "idle", "took", "writing", "wrote"}
    /\ started \in BOOLEAN /\ sample \in BOOLEAN
    /\ waiter \in {"off", "waiting", "read", "idle"}
    /\ lock \in Thread \cup {"free"}
    /\ pc \in [Thread -> {"ensure", "starting", "try", "put"}]

Numbers ==
    /\ queue \in Nat /\ log \in Nat /\ done \in Nat /\ due \in Nat
    /\ submitted \in Nat /\ completed \in Nat /\ inFlight \in Nat

\* One thread at most starts the worker, and then it is not there yet.
OneStart ==
    /\ \A t \in Thread : pc[t] = "starting" => started /\ worker = "none"
    /\ \A t, u \in Thread : pc[t] = "starting" /\ pc[u] = "starting" => t = u
    /\ ~ started => worker = "none"

\* The holder of the lock is the one that has put and not counted.
OnePut == \A t \in Thread : pc[t] = "put" <=> lock = t

Accounts ==
    /\ log = done + queue + (IF worker \in {"took", "writing"} THEN 1 ELSE 0)
    /\ log = submitted + (IF lock = "free" THEN 0 ELSE 1)
    /\ done = completed + (IF worker = "wrote" THEN 1 ELSE 0)
    /\ inFlight = (IF worker \in {"writing", "wrote"} THEN 1 ELSE 0)

WaitSound ==
    /\ due <= log
    /\ waiter = "read" /\ sample => done >= due
    /\ waiter = "idle" => done >= due

IdleInv == Places /\ Numbers /\ OneStart /\ OnePut /\ Accounts /\ WaitSound

placed == <<started, worker, queue, lock, counters, pc, waiting, log, done>>

LEMMA IdleInvIsInductive == IdleInv /\ [Next]_vars => IdleInv'
<1> SUFFICES ASSUME IdleInv, [Next]_vars PROVE IdleInv'
    OBVIOUS
<1> USE DiagnosticsAssumption
<1>1. ASSUME UNCHANGED placed PROVE IdleInv'
    BY <1>1 DEF placed, counters, waiting, IdleInv, Places, Numbers, OneStart, OnePut, Accounts, WaitSound
<1>2. ASSUME NEW t \in Thread, Report(t) PROVE IdleInv'
    BY <1>1, <1>2 DEF Report, EmitLocalOnce, NoteFamilies, SubmitFailClosed, placed
<1>3. ASSUME NEW t \in Thread, EnsureWorker(t) PROVE IdleInv'
  <2>1. /\ pc' = [pc EXCEPT ![t] = IF started THEN "try" ELSE "starting"] /\ pc[t] = "ensure"
        /\ started' = TRUE
        /\ UNCHANGED <<worker, queue, lock, counters, waiting, log, done>>
      BY <1>3 DEF EnsureWorker, GoTo
  <2>2. Places' /\ Numbers' /\ Accounts' /\ WaitSound'
      BY <2>1 DEF counters, waiting, IdleInv, Places, Numbers, Accounts, WaitSound
  <2>3. OneStart'
      BY <2>1 DEF IdleInv, Places, OneStart
  <2>4. OnePut'
      BY <2>1 DEF IdleInv, Places, OnePut
  <2> QED BY <2>2, <2>3, <2>4 DEF IdleInv
<1>4. ASSUME NEW t \in Thread, StartThread(t) PROVE IdleInv'
  <2>1. /\ pc' = [pc EXCEPT ![t] = "try"] /\ pc[t] = "starting" /\ worker' = "idle"
        /\ UNCHANGED <<started, queue, lock, counters, waiting, log, done>>
      BY <1>4 DEF StartThread, GoTo
  <2>2. worker = "none" /\ started
      BY <2>1 DEF IdleInv, OneStart
  <2>3. Places' /\ Numbers' /\ Accounts' /\ WaitSound'
      BY <2>1, <2>2 DEF counters, waiting, IdleInv, Places, Numbers, Accounts, WaitSound
  <2>4. OneStart'
      BY <2>1, <2>2 DEF IdleInv, Places, OneStart
  <2>5. OnePut'
      BY <2>1 DEF IdleInv, Places, OnePut
  <2> QED BY <2>3, <2>4, <2>5 DEF IdleInv
<1>5. ASSUME NEW t \in Thread, StartFails(t) PROVE IdleInv'
  <2>1. /\ pc' = [pc EXCEPT ![t] = "ensure"] /\ pc[t] = "starting"
        /\ UNCHANGED <<started, worker, queue, lock, counters, waiting, log, done>>
      BY <1>5 DEF StartFails, GoTo
  <2>2. Places' /\ Numbers' /\ Accounts' /\ WaitSound'
      BY <2>1 DEF counters, waiting, IdleInv, Places, Numbers, Accounts, WaitSound
  <2>3. OneStart'
      BY <2>1 DEF IdleInv, Places, OneStart
  <2>4. OnePut'
      BY <2>1 DEF IdleInv, Places, OnePut
  <2> QED BY <2>2, <2>3, <2>4 DEF IdleInv
<1>6. ASSUME NEW t \in Thread, Put(t) PROVE IdleInv'
  <2>1. /\ pc' = [pc EXCEPT ![t] = "put"] /\ pc[t] = "try"
        /\ lock = "free" /\ lock' = t /\ queue' = queue + 1 /\ log' = log + 1
        /\ UNCHANGED <<started, worker, counters, waiting, done>>
      BY <1>6 DEF Put, GoTo
  <2>2. Places' /\ Numbers' /\ Accounts' /\ WaitSound'
      BY <2>1 DEF counters, waiting, IdleInv, Places, Numbers, Accounts, WaitSound
  <2>3. OneStart'
      BY <2>1 DEF IdleInv, Places, OneStart
  <2>4. OnePut'
      BY <2>1 DEF IdleInv, Places, OnePut
  <2> QED BY <2>2, <2>3, <2>4 DEF IdleInv
<1>7. ASSUME NEW t \in Thread, Count(t) PROVE IdleInv'
  <2>1. /\ pc' = [pc EXCEPT ![t] = "ensure"] /\ pc[t] = "put"
        /\ lock' = "free" /\ submitted' = submitted + 1
        /\ UNCHANGED <<started, worker, queue, completed, inFlight, waiting, log, done>>
      BY <1>7 DEF Count, GoTo
  <2>2. lock = t /\ lock # "free"
      BY <2>1 DEF IdleInv, OnePut
  <2>3. Places' /\ Numbers' /\ Accounts' /\ WaitSound'
      BY <2>1, <2>2 DEF counters, waiting, IdleInv, Places, Numbers, Accounts, WaitSound
  <2>4. OneStart'
      BY <2>1 DEF IdleInv, Places, OneStart
  <2>5. OnePut'
      BY <2>1, <2>2 DEF IdleInv, Places, OnePut
  <2> QED BY <2>3, <2>4, <2>5 DEF IdleInv
<1>8. ASSUME NEW t \in Thread, Drop(t) PROVE IdleInv'
  <2>1. /\ pc' = [pc EXCEPT ![t] = "ensure"] /\ pc[t] = "try"
        /\ UNCHANGED <<started, worker, queue, lock, counters, waiting, log, done>>
      BY <1>8 DEF Drop, GoTo
  <2>2. Places' /\ Numbers' /\ Accounts' /\ WaitSound'
      BY <2>1 DEF counters, waiting, IdleInv, Places, Numbers, Accounts, WaitSound
  <2>3. OneStart'
      BY <2>1 DEF IdleInv, Places, OneStart
  <2>4. OnePut'
      BY <2>1 DEF IdleInv, Places, OnePut
  <2> QED BY <2>2, <2>3, <2>4 DEF IdleInv
<1>9. CASE Get
  <2>1. /\ worker = "idle" /\ worker' = "took" /\ queue > 0 /\ queue' = queue - 1
        /\ UNCHANGED <<started, lock, counters, pc, waiting, log, done>>
      BY <1>9 DEF Get, callers
  <2> QED BY <2>1 DEF counters, waiting, IdleInv, Places, Numbers, OneStart, OnePut, Accounts, WaitSound
<1>10. CASE BeginWrite
  <2>1. /\ worker = "took" /\ worker' = "writing" /\ inFlight' = inFlight + 1
        /\ UNCHANGED <<started, queue, lock, submitted, completed, pc, waiting, log, done>>
      BY <1>10 DEF BeginWrite, callers
  <2> QED BY <2>1 DEF waiting, IdleInv, Places, Numbers, OneStart, OnePut, Accounts, WaitSound
<1>11. CASE Write
  <2>1. /\ worker = "writing" /\ worker' = "wrote" /\ done' = done + 1
        /\ UNCHANGED <<started, queue, lock, counters, pc, waiting, log>>
      BY <1>11 DEF Write, callers
  <2> QED BY <2>1 DEF counters, waiting, IdleInv, Places, Numbers, OneStart, OnePut, Accounts, WaitSound
<1>12. CASE EndWrite
  <2>1. /\ worker = "wrote" /\ worker' = "idle" /\ inFlight' = inFlight - 1 /\ completed' = completed + 1
        /\ UNCHANGED <<started, queue, lock, submitted, pc, waiting, log, done>>
      BY <1>12 DEF EndWrite, callers
  <2> QED BY <2>1 DEF waiting, IdleInv, Places, Numbers, OneStart, OnePut, Accounts, WaitSound
<1>13. CASE BeginWait
  <2>1. /\ waiter' = "waiting" /\ due' = log
        /\ UNCHANGED <<started, worker, queue, lock, counters, pc, sample, log, done>>
      BY <1>13 DEF BeginWait, callers
  <2> QED BY <2>1 DEF counters, IdleInv, Places, Numbers, OneStart, OnePut, Accounts, WaitSound
<1>14. CASE ReadCounters
  <2>1. /\ lock = "free" /\ waiter' = "read"
        /\ sample' = (submitted = completed /\ inFlight = 0)
        /\ UNCHANGED <<started, worker, queue, lock, counters, pc, due, log, done>>
      BY <1>14 DEF ReadCounters, callers
  <2>2. sample' => done = log
      BY <2>1 DEF IdleInv, Places, Numbers, Accounts
  <2> QED BY <2>1, <2>2
           DEF counters, IdleInv, Places, Numbers, OneStart, OnePut, Accounts, WaitSound
<1>15. CASE Decide
  <2>1. /\ waiter = "read" /\ waiter' = (IF sample /\ queue = 0 THEN "idle" ELSE "waiting")
        /\ UNCHANGED <<started, worker, queue, lock, counters, pc, sample, due, log, done>>
      BY <1>15 DEF Decide, callers
  <2> QED BY <2>1 DEF counters, IdleInv, Places, Numbers, OneStart, OnePut, Accounts, WaitSound
<1>16. CASE UNCHANGED vars
    BY <1>1, <1>16 DEF vars, placed, callers
<1> QED BY <1>2, <1>3, <1>4, <1>5, <1>6, <1>7, <1>8, <1>9, <1>10, <1>11, <1>12, <1>13, <1>14, <1>15, <1>16
         DEF Next, Enqueue, Worker, Wait

\* The test's wait for the worker reads the counters in their lock and the queue
\* outside it: when it says idle, all that the queue had accepted before the wait
\* began has been dealt with (wait_..._idle_for_tests).
THEOREM IdleAlwaysMeansWritten == Spec => []IdleMeansWritten
<1>1. Init => IdleInv
  <2> SUFFICES ASSUME Init PROVE IdleInv
      OBVIOUS
  <2>0. /\ worker = "none" /\ started = FALSE /\ sample = FALSE /\ waiter = "off" /\ lock = "free"
        /\ pc = [t \in Thread |-> "ensure"]
        /\ queue = 0 /\ log = 0 /\ done = 0 /\ due = 0
        /\ submitted = 0 /\ completed = 0 /\ inFlight = 0
      BY DEF Init
  <2>1. Places /\ Numbers /\ Accounts /\ WaitSound
    <3>1. Places
        BY <2>0 DEF Places
    <3>2. Numbers /\ Accounts /\ WaitSound
        BY <2>0 DEF Numbers, Accounts, WaitSound
    <3> QED BY <3>1, <3>2
  <2>2. \A t \in Thread : pc[t] = "ensure" /\ lock # t
      BY DiagnosticsAssumption DEF Init
  <2>3. OneStart /\ OnePut
      BY <2>2 DEF Init, OneStart, OnePut
  <2> QED BY <2>1, <2>3 DEF IdleInv
<1>2. IdleInv => IdleMeansWritten
    BY DEF IdleInv, WaitSound, IdleMeansWritten
<1> QED BY <1>1, <1>2, IdleInvIsInductive, PTL DEF Spec

=============================================================================
