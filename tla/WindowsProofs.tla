--------------------------- MODULE WindowsProofs ---------------------------
(***************************************************************************)
(* What Windows promises for any windows, limits and tokens, if an address *)
(* and an endpoint are forgotten only after their windows are over (and,   *)
(* for an enumeration, if fewer identifiers are kept without looking at    *)
(* their age than the limit is).  The inductive invariant relates each     *)
(* deque to the whole history: its elements are different requests of the  *)
(* right kind, oldest first, and every such request of the window is among *)
(* them.  A trimmed deque then is as long as its window is full, since its *)
(* elements and the requests of the window are in a bijection.             *)
(***************************************************************************)
EXTENDS Windows, FiniteSetTheorems, SequenceTheorems, WellFoundedInduction, TLAPS

Entry == [t : 1 .. MaxClock, kind : Request]

\* The deque q holds the times of different requests of history h that are of the
\* kinds K, oldest first, among them every one of the window W before c; at[i] is
\* the place of the i-th in the history.
Holds(q, at, K, W, h, c) ==
  /\ \A i, j \in 1 .. Len(q) : at[i] = at[j] => i = j
  /\ \A i \in 1 .. Len(q) : h[at[i]].kind \in K /\ h[at[i]].t = q[i]
  /\ \A n \in 1 .. Len(h) :
       h[n].kind \in K /\ h[n].t >= c - W => \E i \in 1 .. Len(q) : at[i] = n
  /\ \A i, j \in 1 .. Len(q) : i <= j => q[i] <= q[j]

Remembers(q, K, W, h, c) ==
  \E at \in [1 .. Len(q) -> 1 .. Len(h)] : Holds(q, at, K, W, h, c)

-----------------------------------------------------------------------------
(* What the steps do to a deque *)

LEMMA Entries ==
  ASSUME NEW h \in Seq(Entry)
  PROVE  /\ Len(h) \in Nat
         /\ \A n \in 1 .. Len(h) : h[n] \in Entry /\ h[n].t \in 1 .. MaxClock /\ h[n].kind \in Request
<1>1. \A n \in 1 .. Len(h) : h[n] \in Entry
  BY ElementOfSeq
<1> QED
  BY <1>1 DEF Entry

LEMMA Appended ==
  ASSUME NEW S, NEW s \in Seq(S), NEW e \in S
  PROVE  /\ Len(s) \in Nat /\ Len(Append(s, e)) = Len(s) + 1
         /\ \A i \in 1 .. Len(s) : Append(s, e)[i] = s[i] /\ s[i] \in S
         /\ Append(s, e)[Len(s) + 1] = e
  BY AppendProperties, ElementOfSeq

LEMMA AppendCounted ==
  ASSUME NEW q \in Times, NEW K, NEW W \in Nat, NEW h \in Seq(Entry), NEW c \in 1 .. MaxClock,
         \A n \in 1 .. Len(h) : h[n].t <= c,
         NEW kind \in K \cap Request, Remembers(q, K, W, h, c)
  PROVE  Remembers(Append(q, c), K, W, Append(h, [t |-> c, kind |-> kind]), c)
<1> DEFINE e == [t |-> c, kind |-> kind]
           q2 == Append(q, c)
           h2 == Append(h, e)
<1>1. PICK at \in [1 .. Len(q) -> 1 .. Len(h)] : Holds(q, at, K, W, h, c)
  BY DEF Remembers
<1>2. /\ e \in Entry /\ e.t = c /\ e.kind = kind
      /\ Len(q) \in Nat /\ Len(h) \in Nat
  BY DEF Entry, Times
<1>3. /\ Len(q2) = Len(q) + 1 /\ Len(h2) = Len(h) + 1
      /\ \A i \in 1 .. Len(q) : q2[i] = q[i] /\ q[i] \in 1 .. MaxClock
      /\ \A n \in 1 .. Len(h) : h2[n] = h[n] /\ h[n] \in Entry
      /\ q2[Len(q) + 1] = c /\ h2[Len(h) + 1] = e
  <2>1. q \in Seq(1 .. MaxClock)
    BY DEF Times
  <2> HIDE DEF e
  <2>2. /\ Len(h2) = Len(h) + 1 /\ h2[Len(h) + 1] = e
        /\ \A n \in 1 .. Len(h) : h2[n] = h[n] /\ h[n] \in Entry
    BY <1>2, Appended
  <2>3. /\ Len(q2) = Len(q) + 1 /\ q2[Len(q) + 1] = c
        /\ \A i \in 1 .. Len(q) : q2[i] = q[i] /\ q[i] \in 1 .. MaxClock
    BY <2>1, Appended
  <2> QED
    BY <2>2, <2>3
<1> DEFINE at2 == [i \in 1 .. Len(q) + 1 |-> IF i <= Len(q) THEN at[i] ELSE Len(h) + 1]
<1> HIDE DEF e, q2, h2
<1>4. at2 \in [1 .. Len(q2) -> 1 .. Len(h2)]
  BY <1>1, <1>2, <1>3
<1>5. /\ at2[Len(q) + 1] = Len(h) + 1
      /\ \A i \in 1 .. Len(q) : at2[i] = at[i] /\ at[i] \in 1 .. Len(h)
  <2>1. \A i \in 1 .. Len(q) + 1 : at2[i] = IF i <= Len(q) THEN at[i] ELSE Len(h) + 1
    OBVIOUS
  <2>2. Len(q) + 1 \in 1 .. Len(q) + 1 /\ ~(Len(q) + 1 <= Len(q))
    BY <1>2
  <2>3. \A i \in 1 .. Len(q) : i \in 1 .. Len(q) + 1 /\ i <= Len(q) /\ at[i] \in 1 .. Len(h)
    BY <1>1, <1>2
  <2> HIDE DEF at2
  <2> QED
    BY <2>1, <2>2, <2>3
<1> HIDE DEF at2
<1>i. \A i \in 1 .. Len(q2) : i \in 1 .. Len(q) \/ i = Len(q) + 1
  BY <1>2, <1>3
<1>6. \A i, j \in 1 .. Len(q2) : at2[i] = at2[j] => i = j
  BY <1>1, <1>2, <1>i, <1>5 DEF Holds
<1>7. ASSUME NEW i \in 1 .. Len(q2)
      PROVE  h2[at2[i]].kind \in K /\ h2[at2[i]].t = q2[i]
  <2>1. CASE i = Len(q) + 1
    BY <1>2, <1>3, <1>5, <2>1
  <2>2. CASE i \in 1 .. Len(q)
    <3>1. h2[at2[i]] = h[at[i]] /\ q2[i] = q[i]
      BY <1>3, <1>5, <2>2
    <3> QED
      BY <1>1, <2>2, <3>1 DEF Holds
  <2> QED
    BY <1>i, <2>1, <2>2
<1>8. ASSUME NEW n \in 1 .. Len(h2), h2[n].kind \in K, h2[n].t >= c - W
      PROVE  \E i \in 1 .. Len(q2) : at2[i] = n
  <2>1. CASE n = Len(h) + 1
    BY <1>2, <1>3, <1>5, <2>1
  <2>2. CASE n \in 1 .. Len(h)
    <3>1. PICK i \in 1 .. Len(q) : at[i] = n
      BY <1>1, <1>3, <1>8, <2>2 DEF Holds
    <3> QED
      BY <1>2, <1>3, <1>5, <3>1
  <2> QED
    BY <1>2, <1>3, <2>1, <2>2
<1>9. ASSUME NEW i \in 1 .. Len(q2), NEW j \in 1 .. Len(q2), i <= j
      PROVE  q2[i] <= q2[j]
  <2>1. \A k \in 1 .. Len(q) : q[k] <= c
    BY <1>1 DEF Holds
  <2> QED
    BY <1>1, <1>2, <1>3, <1>9, <2>1 DEF Holds
<1>10. Holds(q2, at2, K, W, h2, c)
  BY <1>6, <1>7, <1>8, <1>9 DEF Holds
<1> QED
  BY <1>4, <1>10 DEF Remembers, q2, h2, e

LEMMA AppendOther ==
  ASSUME NEW q \in Times, NEW K, NEW W \in Nat, NEW h \in Seq(Entry), NEW c \in 1 .. MaxClock,
         NEW kind \in Request \ K, Remembers(q, K, W, h, c)
  PROVE  Remembers(q, K, W, Append(h, [t |-> c, kind |-> kind]), c)
<1> DEFINE e == [t |-> c, kind |-> kind]
           h2 == Append(h, e)
<1>1. PICK at \in [1 .. Len(q) -> 1 .. Len(h)] : Holds(q, at, K, W, h, c)
  BY DEF Remembers
<1>2. e \in Entry /\ e.kind = kind /\ Len(q) \in Nat /\ Len(h) \in Nat
  BY DEF Entry, Times
<1>3. /\ Len(h2) = Len(h) + 1 /\ h2[Len(h) + 1] = e
      /\ \A n \in 1 .. Len(h) : h2[n] = h[n]
  BY <1>2, Appended
<1> HIDE DEF e, h2
<1>4. at \in [1 .. Len(q) -> 1 .. Len(h2)] /\ \A i \in 1 .. Len(q) : at[i] \in 1 .. Len(h)
  BY <1>1, <1>2, <1>3
<1>5. \A n \in 1 .. Len(h2) : n \in 1 .. Len(h) \/ n = Len(h) + 1
  BY <1>2, <1>3
<1>6. Holds(q, at, K, W, h2, c)
  BY <1>1, <1>2, <1>3, <1>4, <1>5 DEF Holds
<1> QED
  BY <1>4, <1>6 DEF Remembers, h2, e

LEMMA EmptyRemembers ==
  ASSUME NEW K, NEW W \in Nat, NEW h \in Seq(Entry), NEW c \in Int,
         \A n \in 1 .. Len(h) : h[n].kind \in K => h[n].t < c - W
  PROVE  Remembers(<< >>, K, W, h, c)
<1> DEFINE at == [i \in 1 .. 0 |-> 1]
<1>1. Len(<< >>) = 0 /\ 1 .. 0 = {}
  BY EmptySeq
<1>2. at \in [1 .. Len(<< >>) -> 1 .. Len(h)]
  BY <1>1
<1>3. \A n \in 1 .. Len(h) : h[n] \in Entry /\ h[n].t \in Int
  BY Entries
<1>4. \A n \in 1 .. Len(h) : ~(h[n].kind \in K /\ h[n].t >= c - W)
  BY <1>3
<1> HIDE DEF at
<1>5. Holds(<< >>, at, K, W, h, c)
  BY <1>1, <1>4 DEF Holds
<1> QED
  BY <1>2, <1>5 DEF Remembers

\* Nothing is forgotten when the clock goes on.
LEMMA LaterRemembers ==
  ASSUME NEW q, NEW K, NEW W \in Nat, NEW h \in Seq(Entry), NEW c \in Int, NEW d \in Int, c <= d,
         Remembers(q, K, W, h, c)
  PROVE  Remembers(q, K, W, h, d)
<1>1. PICK at \in [1 .. Len(q) -> 1 .. Len(h)] : Holds(q, at, K, W, h, c)
  BY DEF Remembers
<1>2. \A n \in 1 .. Len(h) : h[n].t \in Int
  BY Entries
<1>3. \A n \in 1 .. Len(h) : h[n].t >= d - W => h[n].t >= c - W
  BY <1>2
<1> QED
  BY <1>1, <1>3 DEF Holds, Remembers

LEMMA LeastNumber ==
  ASSUME NEW T \in SUBSET Nat, T # {}
  PROVE  Min(T) \in T /\ \A n \in T : Min(T) <= n
<1>1. PICK m \in T : \A n \in T : ~(<<n, m>> \in OpToRel(<, Nat))
  BY NatLessThanWellFounded, WFMin
<1>2. \A n \in T : ~(n < m)
  BY <1>1 DEF OpToRel
<1>3. \A n \in T : m <= n
  BY <1>2
<1> QED
  BY <1>3 DEF Min

\* popleft() until the head is inside the window leaves a tail of the deque in which
\* every time is inside, and takes only times that are not.
LEMMA Trimmed ==
  ASSUME NEW q \in Times, NEW cutoff \in Int,
         \A i, j \in 1 .. Len(q) : i <= j => q[i] <= q[j]
  PROVE  \E m \in 0 .. Len(q) :
           /\ Trim(q, cutoff) \in Times /\ Len(Trim(q, cutoff)) = Len(q) - m
           /\ \A i \in 1 .. Len(q) - m :
                Trim(q, cutoff)[i] = q[i + m] /\ Trim(q, cutoff)[i] >= cutoff
           /\ \A i \in 1 .. m : q[i] < cutoff
<1> DEFINE kept == {i \in DOMAIN q : q[i] >= cutoff}
<1>1. /\ q \in Seq(1 .. MaxClock) /\ DOMAIN q = 1 .. Len(q) /\ Len(q) \in Nat
      /\ \A i \in 1 .. Len(q) : q[i] \in 1 .. MaxClock /\ q[i] \in Int
  <2>1. q \in Seq(1 .. MaxClock)
    BY DEF Times
  <2>2. \A i \in 1 .. Len(q) : q[i] \in 1 .. MaxClock
    BY <2>1, ElementOfSeq
  <2>3. Len(q) \in Nat /\ DOMAIN q = 1 .. Len(q)
    BY <2>1, LenProperties
  <2> QED
    BY <2>1, <2>2, <2>3
<1>2. CASE kept = {}
  <2>1. Trim(q, cutoff) = << >>
    BY <1>2 DEF Trim
  <2>2. \A i \in 1 .. Len(q) : q[i] < cutoff
    <3>1. \A i \in 1 .. Len(q) : ~(q[i] >= cutoff)
      BY <1>1, <1>2
    <3> QED
      BY <1>1, <3>1
  <2>3. << >> \in Times /\ Len(<< >>) = 0
    BY EmptySeq DEF Times
  <2>4. /\ Len(q) \in 0 .. Len(q) /\ Len(<< >>) = Len(q) - Len(q)
        /\ 1 .. (Len(q) - Len(q)) = {}
    BY <1>1, <2>3
  <2> QED
    BY <2>1, <2>2, <2>3, <2>4
<1>3. CASE kept # {}
  <2> DEFINE b == Min(kept)
  <2>1. b \in kept /\ \A i \in kept : b <= i
    <3>1. kept \in SUBSET Nat
      BY <1>1
    <3> HIDE DEF kept
    <3> QED
      BY <1>3, <3>1, LeastNumber
  <2>2. b \in 1 .. Len(q) /\ q[b] >= cutoff /\ b \in Int
    BY <1>1, <2>1
  <2>3. \A i \in 1 .. Len(q) : i < b => q[i] < cutoff
    <3> SUFFICES ASSUME NEW i \in 1 .. Len(q), i < b PROVE q[i] < cutoff
      OBVIOUS
    <3>1. i \notin kept
      <4> HIDE DEF kept, b
      <4>1. i \in Int /\ ~(b <= i)
        BY <1>1, <2>2
      <4> QED
        BY <2>1, <4>1
    <3> QED
      BY <1>1, <3>1
  <2>4. Trim(q, cutoff) = SubSeq(q, b, Len(q))
    BY <1>3 DEF Trim
  <2> HIDE DEF b, kept
  <2>5. /\ SubSeq(q, b, Len(q)) \in Times /\ Len(SubSeq(q, b, Len(q))) = Len(q) - b + 1
        /\ \A i \in 1 .. Len(q) - b + 1 : SubSeq(q, b, Len(q))[i] = q[b + i - 1]
    <3>1. \A i \in b .. Len(q) : q[i] \in 1 .. MaxClock
      BY <1>1, <2>2
    <3> QED
      BY <1>1, <2>2, <3>1, SubSeqProperties DEF Times
  <2>6. /\ b - 1 \in 0 .. Len(q) /\ Len(q) - b + 1 = Len(q) - (b - 1)
        /\ \A i \in 1 .. b - 1 : q[i] < cutoff
    BY <1>1, <2>2, <2>3
  <2>7. ASSUME NEW i \in 1 .. Len(q) - (b - 1)
        PROVE  SubSeq(q, b, Len(q))[i] = q[i + (b - 1)] /\ q[i + (b - 1)] >= cutoff
    <3>1. /\ b + i - 1 = i + (b - 1) /\ i + (b - 1) \in 1 .. Len(q) /\ b <= i + (b - 1)
          /\ i \in 1 .. Len(q) - b + 1
      BY <1>1, <2>2, <2>7
    <3>2. q[b] <= q[i + (b - 1)] /\ q[b] \in Int /\ q[i + (b - 1)] \in Int
      BY <1>1, <2>2, <3>1
    <3> QED
      BY <2>2, <2>5, <3>1, <3>2
  <2> QED
    BY <2>4, <2>5, <2>6, <2>7
<1> QED
  BY <1>2, <1>3

\* Trimming to the window keeps what is remembered of it.
LEMMA TrimRemembers ==
  ASSUME NEW q \in Times, NEW K, NEW W \in Nat, NEW h \in Seq(Entry), NEW c \in Int,
         Remembers(q, K, W, h, c)
  PROVE  /\ Trim(q, c - W) \in Times /\ Remembers(Trim(q, c - W), K, W, h, c)
         /\ \A i \in 1 .. Len(Trim(q, c - W)) : Trim(q, c - W)[i] >= c - W
<1> DEFINE q2 == Trim(q, c - W)
<1>1. PICK at \in [1 .. Len(q) -> 1 .. Len(h)] : Holds(q, at, K, W, h, c)
  BY DEF Remembers
<1>2. PICK m \in 0 .. Len(q) :
           /\ q2 \in Times /\ Len(q2) = Len(q) - m
           /\ \A i \in 1 .. Len(q) - m : q2[i] = q[i + m] /\ q2[i] >= c - W
           /\ \A i \in 1 .. m : q[i] < c - W
  <2>1. c - W \in Int /\ \A i, j \in 1 .. Len(q) : i <= j => q[i] <= q[j]
    BY <1>1 DEF Holds
  <2> QED
    BY <2>1, Trimmed
<1>3. /\ Len(q) \in Nat /\ Len(q2) \in Nat /\ m \in Nat
      /\ \A i \in 1 .. Len(q2) : i + m \in 1 .. Len(q)
      /\ \A i \in 1 .. Len(q) : q[i] \in Int
  <2>1. Len(q) \in Nat /\ \A i \in 1 .. Len(q) : q[i] \in 1 .. MaxClock
    BY LenProperties, ElementOfSeq DEF Times
  <2> QED
    BY <1>2, <2>1
<1> HIDE DEF q2
<1> DEFINE at2 == [i \in 1 .. Len(q2) |-> at[i + m]]
<1>4. /\ at2 \in [1 .. Len(q2) -> 1 .. Len(h)]
      /\ \A i \in 1 .. Len(q2) : at2[i] = at[i + m]
  BY <1>1, <1>3
<1> HIDE DEF at2
<1>5. \A i, j \in 1 .. Len(q2) : at2[i] = at2[j] => i = j
  <2> SUFFICES ASSUME NEW i \in 1 .. Len(q2), NEW j \in 1 .. Len(q2), at2[i] = at2[j]
               PROVE  i = j
    OBVIOUS
  <2>1. i + m = j + m
    BY <1>1, <1>3, <1>4 DEF Holds
  <2> QED
    BY <1>3, <2>1
<1>6. \A i \in 1 .. Len(q2) : h[at2[i]].kind \in K /\ h[at2[i]].t = q2[i]
  BY <1>1, <1>2, <1>3, <1>4 DEF Holds
<1>7. ASSUME NEW n \in 1 .. Len(h), h[n].kind \in K, h[n].t >= c - W
      PROVE  \E i \in 1 .. Len(q2) : at2[i] = n
  <2>1. PICK j \in 1 .. Len(q) : at[j] = n
    BY <1>1, <1>7 DEF Holds
  <2>2. q[j] >= c - W
    BY <1>1, <1>7, <2>1 DEF Holds
  <2>3. j \notin 1 .. m
    BY <1>2, <1>3, <2>2
  <2>4. j - m \in 1 .. Len(q2) /\ (j - m) + m = j
    BY <1>2, <1>3, <2>3
  <2> QED
    BY <1>4, <2>1, <2>4
<1>8. \A i, j \in 1 .. Len(q2) : i <= j => q2[i] <= q2[j]
  <2> SUFFICES ASSUME NEW i \in 1 .. Len(q2), NEW j \in 1 .. Len(q2), i <= j
               PROVE  q2[i] <= q2[j]
    OBVIOUS
  <2>1. i + m <= j + m /\ i + m \in 1 .. Len(q) /\ j + m \in 1 .. Len(q)
    BY <1>3
  <2>2. q[i + m] <= q[j + m]
    BY <1>1, <2>1 DEF Holds
  <2> QED
    BY <1>2, <2>2
<1>9. Remembers(q2, K, W, h, c)
  BY <1>4, <1>5, <1>6, <1>7, <1>8 DEF Holds, Remembers
<1> QED
  BY <1>2, <1>9 DEF q2

\* What is remembered of a window is remembered of a shorter one.
LEMMA ShorterRemembers ==
  ASSUME NEW q, NEW K, NEW W \in Nat, NEW V \in Nat, V <= W, NEW h \in Seq(Entry), NEW c \in Int,
         Remembers(q, K, W, h, c)
  PROVE  Remembers(q, K, V, h, c)
<1>1. PICK at \in [1 .. Len(q) -> 1 .. Len(h)] : Holds(q, at, K, W, h, c)
  BY DEF Remembers
<1>2. \A n \in 1 .. Len(h) : h[n].t \in Int
  BY Entries
<1>3. \A n \in 1 .. Len(h) : h[n].t >= c - V => h[n].t >= c - W
  BY <1>2
<1> QED
  BY <1>1, <1>3 DEF Holds, Remembers

\* As many times of the deque are inside a window as the history has requests there.
LEMMA Counted ==
  ASSUME NEW q \in Times, NEW K, NEW W \in Nat, NEW h \in Seq(Entry), NEW c \in Int,
         Remembers(q, K, W, h, c)
  PROVE  Cardinality({i \in DOMAIN q : q[i] >= c - W}) =
           Cardinality({n \in DOMAIN h : h[n].kind \in K /\ h[n].t >= c - W})
<1> DEFINE A == {i \in DOMAIN q : q[i] >= c - W}
           B == {n \in DOMAIN h : h[n].kind \in K /\ h[n].t >= c - W}
<1>1. PICK at \in [1 .. Len(q) -> 1 .. Len(h)] : Holds(q, at, K, W, h, c)
  BY DEF Remembers
<1>2. /\ DOMAIN q = 1 .. Len(q) /\ DOMAIN h = 1 .. Len(h)
      /\ \A n \in 1 .. Len(h) : h[n].t \in Int
      /\ Len(q) \in Nat
  <2>1. q \in Seq(1 .. MaxClock)
    BY DEF Times
  <2> QED
    BY <2>1, LenProperties, Entries
<1> DEFINE f == [i \in A |-> at[i]]
<1>3. ASSUME NEW i \in A PROVE f[i] = at[i] /\ i \in 1 .. Len(q) /\ at[i] \in B
  BY <1>1, <1>2 DEF Holds
<1>4. ASSUME NEW n \in B PROVE \E i \in A : f[i] = n
  <2>1. n \in 1 .. Len(h) /\ h[n].kind \in K /\ h[n].t >= c - W
    BY <1>2
  <2>2. PICK i \in 1 .. Len(q) : at[i] = n
    BY <1>1, <2>1 DEF Holds
  <2>3. i \in A
    BY <1>1, <1>2, <2>1, <2>2 DEF Holds
  <2> QED
    BY <2>2, <2>3
<1>5. IsFiniteSet(A)
  <2>1. IsFiniteSet(1 .. Len(q))
    BY <1>2, FS_Interval
  <2> QED
    BY <1>2, <2>1, FS_Subset
<1>6. f \in [A -> B]
  BY <1>3
<1> HIDE DEF A, B
<1>7. f \in Bijection(A, B)
  <2>1. \A i, j \in A : f[i] = f[j] => i = j
    BY <1>1, <1>3 DEF Holds
  <2> HIDE DEF f
  <2> QED
    BY <1>4, <1>6, <2>1 DEF Bijection, Injection, Surjection, IsInjective
<1>8. ExistsBijection(A, B)
  BY <1>7 DEF ExistsBijection
<1>9. Cardinality(A) = Cardinality(B)
  BY <1>5, <1>8, FS_Bijection
<1> QED
  BY <1>9 DEF A, B

\* A deque that was just trimmed is as long as the window is full.
LEMMA LengthCounts ==
  ASSUME NEW q \in Times, NEW K, NEW W \in Nat, NEW h \in Seq(Entry), NEW c \in Int,
         Remembers(q, K, W, h, c), \A i \in 1 .. Len(q) : q[i] >= c - W
  PROVE  Len(q) = Cardinality({n \in DOMAIN h : h[n].kind \in K /\ h[n].t >= c - W})
<1>1. Len(q) \in Nat /\ DOMAIN q = 1 .. Len(q)
  <2>1. q \in Seq(1 .. MaxClock)
    BY DEF Times
  <2> QED
    BY <2>1, LenProperties
<1>2. {i \in DOMAIN q : q[i] >= c - W} = 1 .. Len(q)
  BY <1>1
<1>3. Cardinality(1 .. Len(q)) = Len(q)
  <2>1. ASSUME NEW n \in Nat PROVE Cardinality(1 .. n) = n
    <3>1. 1 \in Int /\ n \in Int
      OBVIOUS
    <3>2. Cardinality(1 .. n) = IF 1 > n THEN 0 ELSE n - 1 + 1
      BY <3>1, FS_Interval
    <3> QED
      BY <3>2
  <2> QED
    BY <1>1, <2>1
<1>4. Cardinality({i \in DOMAIN q : q[i] >= c - W}) =
        Cardinality({n \in DOMAIN h : h[n].kind \in K /\ h[n].t >= c - W})
  BY Counted
<1> QED
  BY <1>2, <1>3, <1>4

-----------------------------------------------------------------------------
(* The identifiers of an enumeration rule *)

\* A marked identifier has a request of that time, and every request of the window
\* is not newer than the mark of its identifier.
Marks(d, h, c) ==
  \A k \in Token :
    /\ d[k] # 0 => \E n \in 1 .. Len(h) : h[n].kind = k /\ h[n].t = d[k]
    /\ \A n \in 1 .. Len(h) : h[n].kind = k /\ h[n].t >= c - EnumWindow => h[n].t <= d[k]

\* The identifiers of the requests inside the window.
Burst(h, c) ==
  {h[n].kind : n \in {m \in DOMAIN h : h[m].kind \in Token /\ h[m].t >= c - EnumWindow}}

LEMMA MarkedNow ==
  ASSUME NEW d \in [Token -> 0 .. MaxClock], NEW h \in Seq(Entry), NEW c \in 1 .. MaxClock,
         \A n \in 1 .. Len(h) : h[n].t <= c, Marks(d, h, c), NEW token \in Token
  PROVE  LET d2 == [d EXCEPT ![token] = c]
             h2 == Append(h, [t |-> c, kind |-> token])
         IN /\ d2 \in [Token -> 0 .. MaxClock] /\ Marks(d2, h2, c)
            /\ \A n \in 1 .. Len(h2) : h2[n].t <= c
<1> DEFINE e == [t |-> c, kind |-> token]
           d2 == [d EXCEPT ![token] = c]
           h2 == Append(h, e)
<1>1. e \in Entry /\ e.t = c /\ e.kind = token
  BY DEF Entry, Request
<1>2. d2 \in [Token -> 0 .. MaxClock] /\ d2[token] = c /\ \A k \in Token : k # token => d2[k] = d[k]
  BY DEF Entry
<1> HIDE DEF e, d2
<1>3. /\ Len(h) \in Nat /\ Len(h2) = Len(h) + 1 /\ h2[Len(h) + 1] = e
      /\ \A n \in 1 .. Len(h) : h2[n] = h[n]
  BY <1>1, Appended
<1>4. \A n \in 1 .. Len(h2) : n \in 1 .. Len(h) \/ n = Len(h) + 1
  BY <1>3
<1>5. \A n \in 1 .. Len(h) : n \in 1 .. Len(h2)
  BY <1>3
<1>6. Len(h) + 1 \in 1 .. Len(h2)
  BY <1>3
<1> HIDE DEF h2
<1>7. \A n \in 1 .. Len(h2) : h2[n].t <= c
  BY <1>1, <1>3, <1>4
<1>8. ASSUME NEW k \in Token
      PROVE  /\ d2[k] # 0 => \E n \in 1 .. Len(h2) : h2[n].kind = k /\ h2[n].t = d2[k]
             /\ \A n \in 1 .. Len(h2) :
                  h2[n].kind = k /\ h2[n].t >= c - EnumWindow => h2[n].t <= d2[k]
  <2>1. CASE k = token
    BY <1>1, <1>2, <1>3, <1>6, <1>7, <2>1
  <2>2. CASE k # token
    BY <1>1, <1>2, <1>3, <1>4, <1>5, <2>2 DEF Marks
  <2> QED
    BY <2>1, <2>2
<1>9. Marks(d2, h2, c)
  BY <1>8 DEF Marks
<1> QED
  BY <1>2, <1>7, <1>9 DEF d2, h2, e

\* Old marks may go.
LEMMA MarksFade ==
  ASSUME NEW d \in [Token -> 0 .. MaxClock], NEW h \in Seq(Entry), NEW c \in 1 .. MaxClock,
         NEW a \in Nat, EnumWindow \in Nat, EnumWindow <= a,
         NEW d2 \in [Token -> 0 .. MaxClock], Marks(d, h, c),
         \A k \in Token : d2[k] = d[k] \/ (d2[k] = 0 /\ d[k] < c - a)
  PROVE  Marks(d2, h, c)
<1>1. \A n \in 1 .. Len(h) : h[n].t \in 1 .. MaxClock
  BY Entries
<1>2. ASSUME NEW k \in Token
      PROVE  /\ d2[k] # 0 => \E n \in 1 .. Len(h) : h[n].kind = k /\ h[n].t = d2[k]
             /\ \A n \in 1 .. Len(h) :
                  h[n].kind = k /\ h[n].t >= c - EnumWindow => h[n].t <= d2[k]
  <2>1. CASE d2[k] = d[k]
    BY <2>1 DEF Marks
  <2>2. CASE d2[k] = 0 /\ d[k] < c - a
    <3>1. ASSUME NEW n \in 1 .. Len(h), h[n].kind = k, h[n].t >= c - EnumWindow PROVE FALSE
      <4>1. h[n].t <= d[k]
        BY <3>1 DEF Marks
      <4>2. h[n].t \in Int /\ d[k] \in Int
        BY <1>1
      <4> QED
        BY <2>2, <3>1, <4>1, <4>2
    <3> QED
      BY <2>2, <3>1
  <2> QED
    BY <2>1, <2>2
<1> QED
  BY <1>2 DEF Marks

LEMMA BurstIsMarked ==
  ASSUME NEW d \in [Token -> 0 .. MaxClock], NEW h \in Seq(Entry), NEW c \in 1 .. MaxClock,
         Marks(d, h, c)
  PROVE  LET marked == {k \in Token : d[k] # 0}
         IN /\ IsFiniteSet(marked) /\ Burst(h, c) \subseteq marked
            /\ (\A k \in marked : d[k] >= c - EnumWindow) => Burst(h, c) = marked
<1> DEFINE marked == {k \in Token : d[k] # 0}
           kinds == [n \in 1 .. Len(h) |-> h[n].kind]
           all == {h[n].kind : n \in 1 .. Len(h)}
<1>1. /\ Len(h) \in Nat /\ DOMAIN h = 1 .. Len(h)
      /\ \A n \in 1 .. Len(h) : h[n].t \in 1 .. MaxClock
  BY Entries, LenProperties
<1>2. IsFiniteSet(all)
  <2>1. kinds \in Surjection(1 .. Len(h), all)
    BY DEF Surjection
  <2>2. IsFiniteSet(1 .. Len(h))
    BY <1>1, FS_Interval
  <2> HIDE DEF kinds, all
  <2> QED
    BY <2>1, <2>2, FS_Surjection
<1>3. marked \subseteq all
  BY DEF Marks
<1>4. IsFiniteSet(marked)
  BY <1>2, <1>3, FS_Subset
<1>5. Burst(h, c) \subseteq marked
  <2> SUFFICES ASSUME NEW n \in 1 .. Len(h), h[n].kind \in Token, h[n].t >= c - EnumWindow
               PROVE  d[h[n].kind] # 0
    BY <1>1 DEF Burst
  <2>1. h[n].t <= d[h[n].kind]
    BY DEF Marks
  <2> QED
    BY <1>1, <2>1
<1>6. ASSUME \A k \in marked : d[k] >= c - EnumWindow PROVE marked \subseteq Burst(h, c)
  <2> SUFFICES ASSUME NEW k \in marked PROVE k \in Burst(h, c)
    OBVIOUS
  <2>1. PICK n \in 1 .. Len(h) : h[n].kind = k /\ h[n].t = d[k]
    BY DEF Marks
  <2> QED
    BY <1>1, <1>6, <2>1 DEF Burst
<1> QED
  BY <1>4, <1>5, <1>6

-----------------------------------------------------------------------------
(* The inductive invariant *)

\* An address is forgotten only after its windows, crowded or not (detect.py: 300 s
\* and 3600 s, against windows of 60 s and 300 s).
IdleOutlastsWindows ==
  /\ {IdlePrune, CrowdedPrune} \subseteq Nat
  /\ \A w \in {RateWindow, ScanWindow, BotWindow, StuffWindow} :
       w <= IdlePrune /\ w <= CrowdedPrune

\* No endpoint rule is configured with a window of more than an hour.
StaleOutlastsWindows ==
  StaleWindow \in Nat /\ EpWindow <= StaleWindow /\ EnumWindow <= StaleWindow

HistoryIsPast == \A n \in 1 .. Len(history) : history[n].t <= clock

\* An address that is not tracked has no deques; one that is was last seen with its
\* last request.
LastIsTracked ==
  IF lastSeen = 0 THEN req = << >> /\ e4xx = << >> /\ auth = << >>
  ELSE \A n \in 1 .. Len(history) : history[n].t <= lastSeen

\* The deques and the map hold what the history says of their windows.
WindowsRemembered ==
  /\ Remembers(req, Request, Larger(RateWindow, BotWindow), history, clock)
  /\ Remembers(e4xx, {"error"}, ScanWindow, history, clock)
  /\ Remembers(auth, {"login"}, StuffWindow, history, clock)
  /\ Remembers(ep, {"endpoint"}, EpWindow, history, clock)
  /\ Marks(ids, history, clock)

WindowsInv == WindowsTypeOK /\ HistoryIsPast /\ LastIsTracked /\ WindowsRemembered

LEMMA WindowTypes ==
  /\ RateWindow \in Nat /\ ScanWindow \in Nat /\ BotWindow \in Nat /\ StuffWindow \in Nat
  /\ EpWindow \in Nat /\ EnumWindow \in Nat /\ EnumSlack \in Nat /\ MaxClock \in Nat \ {0}
  /\ Larger(RateWindow, BotWindow) \in Nat
  /\ RateWindow <= Larger(RateWindow, BotWindow) /\ BotWindow <= Larger(RateWindow, BotWindow)
  /\ Larger(RateWindow, BotWindow) \in {RateWindow, BotWindow}
  BY WindowsAssumption DEF WindowsAssumption, Larger

LEMMA WindowsInvTypes ==
  ASSUME WindowsInv
  PROVE  /\ clock \in 1 .. MaxClock /\ clock \in Int /\ history \in Seq(Entry)
         /\ req \in Times /\ e4xx \in Times /\ auth \in Times /\ ep \in Times
         /\ ids \in [Token -> 0 .. MaxClock] /\ lastSeen \in 0 .. MaxClock /\ lastSeen \in Int
         /\ \A n \in 1 .. Len(history) : history[n].t \in Int
<1>1. clock \in 1 .. MaxClock /\ lastSeen \in 0 .. MaxClock
  BY DEF WindowsInv, WindowsTypeOK
<1>2. history \in Seq(Entry)
  BY DEF WindowsInv, WindowsTypeOK, Entry
<1>3. /\ req \in Times /\ e4xx \in Times /\ auth \in Times /\ ep \in Times
      /\ ids \in [Token -> 0 .. MaxClock]
  BY DEF WindowsInv, WindowsTypeOK
<1>4. \A n \in 1 .. Len(history) : history[n].t \in Int
  BY <1>2, Entries
<1> QED
  BY <1>1, <1>2, <1>3, <1>4, WindowTypes

LEMMA WindowsInvInit == WindowsInit => WindowsInv
<1> SUFFICES ASSUME WindowsInit PROVE WindowsInv
  OBVIOUS
<1>1. << >> \in Times /\ << >> \in Seq(Entry) /\ Len(<< >>) = 0
  BY EmptySeq DEF Times
<1>2. ids \in [Token -> 0 .. MaxClock] /\ \A k \in Token : ids[k] = 0
  BY WindowTypes DEF WindowsInit
<1>3. 1 \in 1 .. MaxClock /\ 0 \in 0 .. MaxClock /\ 1 .. 0 = {}
  BY WindowTypes
<1>4. WindowsTypeOK
  BY <1>1, <1>2, <1>3 DEF WindowsInit, WindowsTypeOK, Entry
<1>5. ASSUME NEW K, NEW W \in Nat
      PROVE  Remembers(<< >>, K, W, << >>, 1)
  <2> DEFINE h == << >>
  <2>1. h \in Seq(Entry) /\ 1 .. Len(h) = {}
    BY <1>1, <1>3
  <2>2. 1 \in Int /\ \A n \in 1 .. Len(h) : h[n].kind \in K => h[n].t < 1 - W
    BY <2>1
  <2> HIDE DEF h
  <2>3. Remembers(<< >>, K, W, h, 1)
    BY <2>1, <2>2, EmptyRemembers
  <2> QED
    BY <2>3 DEF h
<1>6. WindowsRemembered
  BY <1>1, <1>2, <1>3, <1>5, WindowTypes DEF WindowsInit, WindowsRemembered, Marks
<1> QED
  BY <1>1, <1>3, <1>4, <1>6 DEF WindowsInit, WindowsInv, HistoryIsPast, LastIsTracked

LEMMA FeedMarks ==
  ASSUME WindowsInv, NEW kind \in Request, NEW d2,
         d2 = IF kind \in Token THEN Seen(ids, kind) ELSE ids
  PROVE  /\ d2 \in [Token -> 0 .. MaxClock]
         /\ Marks(d2, Append(history, [t |-> clock, kind |-> kind]), clock)
         /\ kind \in Token =>
              \/ Cardinality({k \in Token : d2[k] # 0}) <= EnumSlack
              \/ \A k \in Token : d2[k] # 0 => d2[k] >= clock - EnumWindow
<1> DEFINE e == [t |-> clock, kind |-> kind]
           h2 == Append(history, e)
<1>1. /\ clock \in 1 .. MaxClock /\ history \in Seq(Entry) /\ ids \in [Token -> 0 .. MaxClock]
      /\ \A n \in 1 .. Len(history) : history[n].t <= clock
      /\ Marks(ids, history, clock)
  BY WindowsInvTypes DEF WindowsInv, HistoryIsPast, WindowsRemembered
<1>2. e \in Entry /\ e.kind = kind
  BY <1>1 DEF Entry
<1>3. CASE kind \notin Token
  <2>1. /\ Len(h2) = Len(history) + 1 /\ h2[Len(history) + 1] = e /\ Len(history) \in Nat
        /\ \A n \in 1 .. Len(history) : h2[n] = history[n]
    <3> HIDE DEF e
    <3> QED
      BY <1>1, <1>2, Appended
  <2> HIDE DEF h2, e
  <2>2. \A n \in 1 .. Len(h2) : n \in 1 .. Len(history) \/ n = Len(history) + 1
    BY <2>1
  <2>3. \A n \in 1 .. Len(history) : n \in 1 .. Len(h2)
    BY <2>1
  <2>4. Marks(ids, h2, clock)
    BY <1>1, <1>2, <1>3, <2>1, <2>2, <2>3 DEF Marks
  <2>5. d2 = ids
    BY <1>3
  <2> QED
    BY <1>1, <1>3, <2>4, <2>5 DEF h2, e
<1>4. CASE kind \in Token
  <2> DEFINE all == [ids EXCEPT ![kind] = clock]
  <2>1. /\ all \in [Token -> 0 .. MaxClock] /\ Marks(all, h2, clock)
        /\ h2 \in Seq(Entry)
    <3>1. h2 \in Seq(Entry)
      <4> HIDE DEF e
      <4> QED
        BY <1>1, <1>2, AppendProperties
    <3> QED
      BY <1>1, <1>4, <3>1, MarkedNow
  <2>2. d2 = IF Cardinality({k \in Token : all[k] # 0}) > EnumSlack
             THEN [k \in Token |-> IF all[k] < clock - EnumWindow THEN 0 ELSE all[k]]
             ELSE all
    BY <1>4 DEF Seen
  <2> HIDE DEF all, h2
  <2>3. EnumWindow \in Nat /\ EnumSlack \in Nat /\ clock \in Int /\ 0 \in 0 .. MaxClock
    BY <1>1, WindowTypes
  <2>4. CASE Cardinality({k \in Token : all[k] # 0}) > EnumSlack
    <3>1. /\ d2 \in [Token -> 0 .. MaxClock]
          /\ \A k \in Token : IF all[k] < clock - EnumWindow THEN d2[k] = 0 ELSE d2[k] = all[k]
      BY <2>1, <2>2, <2>3, <2>4
    <3>2. \A k \in Token : d2[k] = all[k] \/ (d2[k] = 0 /\ all[k] < clock - EnumWindow)
      <4> SUFFICES ASSUME NEW k \in Token
                   PROVE  d2[k] = all[k] \/ (d2[k] = 0 /\ all[k] < clock - EnumWindow)
        OBVIOUS
      <4>1. CASE all[k] < clock - EnumWindow
        BY <3>1, <4>1
      <4>2. CASE ~(all[k] < clock - EnumWindow)
        <5>1. d2[k] = all[k]
          BY <3>1, <4>2
        <5> QED
          BY <5>1
      <4> QED
        BY <4>1, <4>2
    <3>3. EnumWindow <= EnumWindow
      BY <2>3
    <3>4. Marks(d2, h2, clock)
      BY <1>1, <2>1, <2>3, <3>1, <3>2, <3>3, MarksFade
    <3>5. \A k \in Token : d2[k] # 0 => d2[k] >= clock - EnumWindow
      BY <2>1, <2>3, <3>1
    <3> QED
      BY <3>1, <3>4, <3>5 DEF h2
  <2>5. CASE ~(Cardinality({k \in Token : all[k] # 0}) > EnumSlack)
    <3>1. d2 = all
      BY <2>2, <2>5
    <3>2. IsFiniteSet({k \in Token : all[k] # 0})
      BY <1>1, <2>1, BurstIsMarked
    <3>3. Cardinality({k \in Token : all[k] # 0}) \in Nat
      BY <3>2, FS_CardinalityType
    <3>4. Cardinality({k \in Token : all[k] # 0}) <= EnumSlack
      BY <2>3, <2>5, <3>3
    <3> QED
      BY <2>1, <3>1, <3>4 DEF h2
  <2> QED
    BY <2>4, <2>5
<1> QED
  BY <1>3, <1>4

LEMMA FeedStep ==
  ASSUME WindowsInv, NEW kind \in Request, Feed(kind)
  PROVE  /\ WindowsInv'
         /\ history' = Append(history, [t |-> clock, kind |-> kind]) /\ clock' = clock
         /\ \A i \in 1 .. Len(req') : req'[i] >= clock - Larger(RateWindow, BotWindow)
         /\ \A i \in 1 .. Len(e4xx') : e4xx'[i] >= clock - ScanWindow
         /\ kind = "login" => \A i \in 1 .. Len(auth') : auth'[i] >= clock - StuffWindow
         /\ kind = "endpoint" => \A i \in 1 .. Len(ep') : ep'[i] >= clock - EpWindow
         /\ kind \in Token =>
              \/ Cardinality({k \in Token : ids'[k] # 0}) <= EnumSlack
              \/ \A k \in Token : ids'[k] # 0 => ids'[k] >= clock - EnumWindow
<1> DEFINE h2 == Append(history, [t |-> clock, kind |-> kind])
<1>1. /\ clock \in 1 .. MaxClock /\ clock \in Int /\ history \in Seq(Entry)
      /\ req \in Times /\ e4xx \in Times /\ auth \in Times /\ ep \in Times
      /\ \A n \in 1 .. Len(history) : history[n].t <= clock
  BY WindowsInvTypes DEF WindowsInv, HistoryIsPast
<1>2. history' = h2 /\ clock' = clock /\ lastSeen' = clock /\ fired' \subseteq Rules
  BY DEF Feed
<1>3. /\ "error" \in Request /\ "login" \in Request /\ "endpoint" \in Request
  BY DEF Request
<1>4. /\ h2 \in Seq(Entry) /\ \A n \in 1 .. Len(h2) : h2[n].t <= clock
  <2> DEFINE e == [t |-> clock, kind |-> kind]
  <2>1. e \in Entry /\ e.t = clock
    BY <1>1 DEF Entry
  <2> HIDE DEF e
  <2>2. /\ Append(history, e) \in Seq(Entry) /\ Len(Append(history, e)) = Len(history) + 1
        /\ Append(history, e)[Len(history) + 1] = e /\ Len(history) \in Nat
        /\ \A n \in 1 .. Len(history) : Append(history, e)[n] = history[n]
    BY <1>1, <2>1, Appended, AppendProperties
  <2>3. \A n \in 1 .. Len(Append(history, e)) : n \in 1 .. Len(history) \/ n = Len(history) + 1
    BY <2>2
  <2>4. \A n \in 1 .. Len(Append(history, e)) : Append(history, e)[n].t <= clock
    BY <1>1, <2>1, <2>2, <2>3
  <2> QED
    BY <2>2, <2>4 DEF e
<1>h. h2 = Append(history, [t |-> clock, kind |-> kind])
  OBVIOUS
<1> HIDE DEF h2
<1>p. ASSUME NEW q \in Times, NEW K, NEW W \in Nat,
             Remembers(q, K, W, history, clock),
             NEW q2, q2 = IF kind \in K THEN Append(q, clock) ELSE q
      PROVE  /\ q2 \in Times /\ Remembers(q2, K, W, h2, clock)
             /\ Trim(q2, clock - W) \in Times /\ Remembers(Trim(q2, clock - W), K, W, h2, clock)
             /\ \A i \in 1 .. Len(Trim(q2, clock - W)) : Trim(q2, clock - W)[i] >= clock - W
  <2>1. q2 \in Times /\ Remembers(q2, K, W, h2, clock)
    <3>1. CASE kind \in K
      <4>1. q2 = Append(q, clock) /\ kind \in K \cap Request
        BY <1>p, <3>1
      <4>2. Remembers(Append(q, clock), K, W, h2, clock)
        BY <1>1, <1>h, <1>p, <4>1, AppendCounted
      <4>3. Append(q, clock) \in Times
        BY <1>1, AppendProperties DEF Times
      <4> QED
        BY <4>1, <4>2, <4>3
    <3>2. CASE kind \notin K
      <4>1. q2 = q /\ kind \in Request \ K
        BY <1>p, <3>2
      <4>2. Remembers(q, K, W, h2, clock)
        BY <1>1, <1>h, <1>p, <4>1, AppendOther
      <4> QED
        BY <4>1, <4>2
    <3> QED
      BY <3>1, <3>2
  <2>2. /\ Trim(q2, clock - W) \in Times /\ Remembers(Trim(q2, clock - W), K, W, h2, clock)
        /\ \A i \in 1 .. Len(Trim(q2, clock - W)) : Trim(q2, clock - W)[i] >= clock - W
    BY <1>1, <1>4, <2>1, TrimRemembers
  <2> QED
    BY <2>1, <2>2
<1>5. /\ req' \in Times /\ Remembers(req', Request, Larger(RateWindow, BotWindow), h2, clock)
      /\ \A i \in 1 .. Len(req') : req'[i] >= clock - Larger(RateWindow, BotWindow)
  <2>1. Remembers(req, Request, Larger(RateWindow, BotWindow), history, clock)
    BY DEF WindowsInv, WindowsRemembered
  <2>2. req' = Trim(Append(req, clock), clock - Larger(RateWindow, BotWindow))
    BY DEF Feed
  <2>3. Append(req, clock) = IF kind \in Request THEN Append(req, clock) ELSE req
    OBVIOUS
  <2> QED
    BY <1>1, <1>3, <2>1, <2>2, <2>3, WindowTypes, <1>p
<1>6. /\ e4xx' \in Times /\ Remembers(e4xx', {"error"}, ScanWindow, h2, clock)
      /\ \A i \in 1 .. Len(e4xx') : e4xx'[i] >= clock - ScanWindow
  <2> DEFINE q == IF kind \in {"error"} THEN Append(e4xx, clock) ELSE e4xx
  <2>1. Remembers(e4xx, {"error"}, ScanWindow, history, clock)
    BY DEF WindowsInv, WindowsRemembered
  <2>2. e4xx' = Trim(q, clock - ScanWindow)
    BY DEF Feed
  <2>3. q = IF kind \in {"error"} THEN Append(e4xx, clock) ELSE e4xx
    OBVIOUS
  <2> HIDE DEF q
  <2> QED
    BY <1>1, <1>3, <2>1, <2>2, <2>3, WindowTypes, <1>p
<1>7. /\ auth' \in Times /\ Remembers(auth', {"login"}, StuffWindow, h2, clock)
      /\ kind = "login" => \A i \in 1 .. Len(auth') : auth'[i] >= clock - StuffWindow
  <2> DEFINE q == IF kind \in {"login"} THEN Append(auth, clock) ELSE auth
  <2>1. Remembers(auth, {"login"}, StuffWindow, history, clock)
    BY DEF WindowsInv, WindowsRemembered
  <2>2. auth' = IF kind = "login" THEN Trim(q, clock - StuffWindow) ELSE q
    BY DEF Feed
  <2>3. q = IF kind \in {"login"} THEN Append(auth, clock) ELSE auth
    OBVIOUS
  <2> HIDE DEF q
  <2>4. /\ q \in Times /\ Remembers(q, {"login"}, StuffWindow, h2, clock)
        /\ Trim(q, clock - StuffWindow) \in Times
        /\ Remembers(Trim(q, clock - StuffWindow), {"login"}, StuffWindow, h2, clock)
        /\ \A i \in 1 .. Len(Trim(q, clock - StuffWindow)) :
             Trim(q, clock - StuffWindow)[i] >= clock - StuffWindow
    BY <1>1, <1>3, <2>1, <2>3, WindowTypes, <1>p
  <2> QED
    BY <2>2, <2>4
<1>8. /\ ep' \in Times /\ Remembers(ep', {"endpoint"}, EpWindow, h2, clock)
      /\ kind = "endpoint" => \A i \in 1 .. Len(ep') : ep'[i] >= clock - EpWindow
  <2> DEFINE q == IF kind \in {"endpoint"} THEN Append(ep, clock) ELSE ep
  <2>1. Remembers(ep, {"endpoint"}, EpWindow, history, clock)
    BY DEF WindowsInv, WindowsRemembered
  <2>2. ep' = IF kind = "endpoint" THEN Trim(q, clock - EpWindow) ELSE q
    BY DEF Feed
  <2>3. q = IF kind \in {"endpoint"} THEN Append(ep, clock) ELSE ep
    OBVIOUS
  <2> HIDE DEF q
  <2>4. /\ q \in Times /\ Remembers(q, {"endpoint"}, EpWindow, h2, clock)
        /\ Trim(q, clock - EpWindow) \in Times
        /\ Remembers(Trim(q, clock - EpWindow), {"endpoint"}, EpWindow, h2, clock)
        /\ \A i \in 1 .. Len(Trim(q, clock - EpWindow)) :
             Trim(q, clock - EpWindow)[i] >= clock - EpWindow
    BY <1>1, <1>3, <2>1, <2>3, WindowTypes, <1>p
  <2> QED
    BY <2>2, <2>4
<1>9. /\ ids' \in [Token -> 0 .. MaxClock] /\ Marks(ids', h2, clock)
      /\ kind \in Token =>
           \/ Cardinality({k \in Token : ids'[k] # 0}) <= EnumSlack
           \/ \A k \in Token : ids'[k] # 0 => ids'[k] >= clock - EnumWindow
  <2>1. ids' = IF kind \in Token THEN Seen(ids, kind) ELSE ids
    BY DEF Feed
  <2> QED
    BY <1>h, <2>1, FeedMarks
<1>10. WindowsTypeOK'
  <2>1. history' \in Seq([t : 1 .. MaxClock, kind : Request])
    BY <1>2, <1>4 DEF Entry
  <2>2. lastSeen' \in 0 .. MaxClock /\ clock' \in 1 .. MaxClock
    BY <1>1, <1>2, WindowTypes
  <2> QED
    BY <1>2, <1>5, <1>6, <1>7, <1>8, <1>9, <2>1, <2>2 DEF WindowsTypeOK
<1>11. HistoryIsPast' /\ LastIsTracked'
  <2>1. lastSeen' # 0
    BY <1>1, <1>2
  <2> QED
    BY <1>2, <1>4, <2>1 DEF HistoryIsPast, LastIsTracked
<1>12. WindowsRemembered'
  BY <1>2, <1>5, <1>6, <1>7, <1>8, <1>9 DEF WindowsRemembered
<1> QED
  BY <1>2, <1>5, <1>6, <1>7, <1>8, <1>9, <1>10, <1>11, <1>12 DEF WindowsInv, h2

LEMMA PruneStep ==
  ASSUME WindowsInv, IdleOutlastsWindows, StaleOutlastsWindows,
         NEW crowded \in BOOLEAN, PruneIdle(crowded)
  PROVE  WindowsInv'
<1>1. /\ clock \in 1 .. MaxClock /\ clock \in Int /\ history \in Seq(Entry)
      /\ req \in Times /\ e4xx \in Times /\ auth \in Times /\ ep \in Times
      /\ ids \in [Token -> 0 .. MaxClock] /\ lastSeen \in 0 .. MaxClock /\ lastSeen \in Int
      /\ \A n \in 1 .. Len(history) : history[n].t \in Int /\ history[n].t <= clock
  BY WindowsInvTypes DEF WindowsInv, HistoryIsPast
<1>2. << >> \in Times
  BY EmptySeq DEF Times
<1>3. history' = history /\ clock' = clock /\ fired' = fired
  BY DEF PruneIdle
<1> DEFINE prune == IF crowded THEN CrowdedPrune ELSE IdlePrune
<1>4. /\ prune \in Nat
      /\ RateWindow <= prune /\ ScanWindow <= prune /\ BotWindow <= prune /\ StuffWindow <= prune
  BY DEF IdleOutlastsWindows
<1>5. Larger(RateWindow, BotWindow) <= prune
  BY <1>4 DEF Larger
<1>6. \/ req' = << >> /\ e4xx' = << >> /\ auth' = << >> /\ lastSeen' = 0 /\ lastSeen < clock - prune
      \/ req' = req /\ e4xx' = e4xx /\ auth' = auth /\ lastSeen' = lastSeen
  BY DEF PruneIdle
<1> HIDE DEF prune
<1>7. ASSUME NEW K, NEW W \in Nat, W <= prune, Remembers(<< >>, K, W, history, clock) \/ lastSeen # 0,
             lastSeen < clock - prune
      PROVE  Remembers(<< >>, K, W, history, clock)
  <2>1. CASE lastSeen # 0
    <3>1. \A n \in 1 .. Len(history) : history[n].t <= lastSeen
      BY <2>1 DEF WindowsInv, LastIsTracked
    <3>2. \A n \in 1 .. Len(history) : history[n].kind \in K => history[n].t < clock - W
      BY <1>1, <1>4, <1>7, <3>1
    <3> QED
      BY <1>1, <3>2, EmptyRemembers
  <2> QED
    BY <1>7, <2>1
<1>8. /\ Remembers(req, Request, Larger(RateWindow, BotWindow), history, clock)
      /\ Remembers(e4xx, {"error"}, ScanWindow, history, clock)
      /\ Remembers(auth, {"login"}, StuffWindow, history, clock)
      /\ Remembers(ep, {"endpoint"}, EpWindow, history, clock)
      /\ Marks(ids, history, clock)
  BY DEF WindowsInv, WindowsRemembered
<1>9. lastSeen = 0 => req = << >> /\ e4xx = << >> /\ auth = << >>
  BY DEF WindowsInv, LastIsTracked
<1>10. /\ req' \in Times /\ e4xx' \in Times /\ auth' \in Times
       /\ Remembers(req', Request, Larger(RateWindow, BotWindow), history, clock)
       /\ Remembers(e4xx', {"error"}, ScanWindow, history, clock)
       /\ Remembers(auth', {"login"}, StuffWindow, history, clock)
  <2>1. CASE req' = req /\ e4xx' = e4xx /\ auth' = auth /\ lastSeen' = lastSeen
    BY <1>1, <1>8, <2>1
  <2>2. CASE req' = << >> /\ e4xx' = << >> /\ auth' = << >> /\ lastSeen < clock - prune
    <3>1. Remembers(<< >>, Request, Larger(RateWindow, BotWindow), history, clock)
      <4>1. \/ Remembers(<< >>, Request, Larger(RateWindow, BotWindow), history, clock)
            \/ lastSeen # 0
        BY <1>8, <1>9
      <4> QED
        BY <1>5, <1>7, <2>2, <4>1, WindowTypes
    <3>2. Remembers(<< >>, {"error"}, ScanWindow, history, clock)
      <4>1. Remembers(<< >>, {"error"}, ScanWindow, history, clock) \/ lastSeen # 0
        BY <1>8, <1>9
      <4> QED
        BY <1>4, <1>7, <2>2, <4>1, WindowTypes
    <3>3. Remembers(<< >>, {"login"}, StuffWindow, history, clock)
      <4>1. Remembers(<< >>, {"login"}, StuffWindow, history, clock) \/ lastSeen # 0
        BY <1>8, <1>9
      <4> QED
        BY <1>4, <1>7, <2>2, <4>1, WindowTypes
    <3> QED
      BY <1>2, <2>2, <3>1, <3>2, <3>3
  <2> QED
    BY <1>6, <2>1, <2>2
<1>11. LastIsTracked' /\ lastSeen' \in 0 .. MaxClock
  <2>1. CASE req' = req /\ e4xx' = e4xx /\ auth' = auth /\ lastSeen' = lastSeen
    BY <1>1, <1>3, <2>1 DEF WindowsInv, LastIsTracked
  <2>2. CASE req' = << >> /\ e4xx' = << >> /\ auth' = << >> /\ lastSeen' = 0
    BY <2>2, WindowTypes DEF LastIsTracked
  <2> QED
    BY <1>6, <2>1, <2>2
<1>12. ep' \in Times /\ Remembers(ep', {"endpoint"}, EpWindow, history, clock)
  <2>1. ep' = IF ep # << >> /\ ep[Len(ep)] < clock - StaleWindow THEN << >> ELSE ep
    BY DEF PruneIdle
  <2>2. CASE ep # << >> /\ ep[Len(ep)] < clock - StaleWindow
    <3>1. PICK at \in [1 .. Len(ep) -> 1 .. Len(history)] :
            Holds(ep, at, {"endpoint"}, EpWindow, history, clock)
      BY <1>8 DEF Remembers
    <3>2. /\ Len(ep) \in Nat /\ Len(ep) \in 1 .. Len(ep)
          /\ \A i \in 1 .. Len(ep) : ep[i] \in 1 .. MaxClock /\ i <= Len(ep)
      <4>1. ep \in Seq(1 .. MaxClock)
        BY <1>1 DEF Times
      <4>2. Len(ep) \in Nat /\ Len(ep) # 0
        BY <2>2, <4>1, EmptySeq, LenProperties
      <4>3. \A i \in 1 .. Len(ep) : ep[i] \in 1 .. MaxClock
        BY <4>1, ElementOfSeq
      <4> QED
        BY <4>2, <4>3
    <3>3. StaleWindow \in Nat /\ EpWindow \in Nat /\ EpWindow <= StaleWindow
      BY WindowTypes DEF StaleOutlastsWindows
    <3>4. ASSUME NEW n \in 1 .. Len(history), history[n].kind \in {"endpoint"},
                 ~(history[n].t < clock - EpWindow)
          PROVE  FALSE
      <4>1. history[n].t >= clock - EpWindow
        BY <1>1, <3>3, <3>4
      <4>2. PICK i \in 1 .. Len(ep) : at[i] = n
        BY <3>1, <3>4, <4>1 DEF Holds
      <4>3. history[n].t = ep[i] /\ ep[i] <= ep[Len(ep)]
        BY <3>1, <3>2, <4>2 DEF Holds
      <4>4. ep[i] \in Int /\ ep[Len(ep)] \in Int
        BY <3>2, WindowTypes
      <4> QED
        BY <1>1, <2>2, <3>3, <4>1, <4>3, <4>4
    <3>5. \A n \in 1 .. Len(history) :
            history[n].kind \in {"endpoint"} => history[n].t < clock - EpWindow
      BY <3>4
    <3>6. Remembers(<< >>, {"endpoint"}, EpWindow, history, clock)
      BY <1>1, <3>3, <3>5, EmptyRemembers
    <3> QED
      BY <1>2, <2>1, <2>2, <3>6
  <2>3. CASE ~(ep # << >> /\ ep[Len(ep)] < clock - StaleWindow)
    <3>1. ep' = ep
      BY <2>1, <2>3
    <3> QED
      BY <1>1, <1>8, <3>1
  <2> QED
    BY <2>2, <2>3
<1>13. ids' \in [Token -> 0 .. MaxClock] /\ Marks(ids', history, clock)
  <2>1. ids' = IF \A k \in Token : ids[k] < clock - StaleWindow
               THEN [k \in Token |-> 0] ELSE ids
    BY DEF PruneIdle
  <2>2. CASE \A k \in Token : ids[k] < clock - StaleWindow
    <3>1. ids' \in [Token -> 0 .. MaxClock] /\ \A k \in Token : ids'[k] = 0
      BY <2>1, <2>2, WindowTypes
    <3>2. \A k \in Token : ids'[k] = ids[k] \/ (ids'[k] = 0 /\ ids[k] < clock - StaleWindow)
      BY <2>2, <3>1
    <3>3. StaleWindow \in Nat /\ EnumWindow \in Nat /\ EnumWindow <= StaleWindow
      BY WindowTypes DEF StaleOutlastsWindows
    <3> QED
      BY <1>1, <1>8, <3>1, <3>2, <3>3, MarksFade
  <2>3. CASE ~(\A k \in Token : ids[k] < clock - StaleWindow)
    <3>1. ids' = ids
      BY <2>1, <2>3
    <3> QED
      BY <1>1, <1>8, <3>1
  <2> QED
    BY <2>2, <2>3
<1>14. WindowsTypeOK'
  BY <1>3, <1>10, <1>11, <1>12, <1>13 DEF WindowsInv, WindowsTypeOK
<1>15. HistoryIsPast'
  BY <1>3 DEF WindowsInv, HistoryIsPast
<1>16. WindowsRemembered'
  BY <1>3, <1>10, <1>12, <1>13 DEF WindowsRemembered
<1> QED
  BY <1>11, <1>14, <1>15, <1>16 DEF WindowsInv

LEMMA PauseStep ==
  ASSUME WindowsInv, Pause
  PROVE  WindowsInv'
<1>1. /\ clock \in 1 .. MaxClock /\ clock \in Int /\ history \in Seq(Entry)
      /\ ids \in [Token -> 0 .. MaxClock]
      /\ \A n \in 1 .. Len(history) : history[n].t \in Int /\ history[n].t <= clock
  BY WindowsInvTypes DEF WindowsInv, HistoryIsPast
<1>2. /\ clock' = clock + 1 /\ clock' \in 1 .. MaxClock /\ clock' \in Int /\ clock <= clock'
      /\ UNCHANGED <<req, e4xx, auth, lastSeen, ep, ids, history, fired>>
  BY <1>1, WindowTypes DEF Pause
<1>3. WindowsTypeOK'
  BY <1>2 DEF WindowsInv, WindowsTypeOK
<1>4. HistoryIsPast'
  BY <1>1, <1>2 DEF HistoryIsPast
<1>5. LastIsTracked'
  BY <1>2 DEF WindowsInv, LastIsTracked
<1>6. ASSUME NEW q, NEW K, NEW W \in Nat, Remembers(q, K, W, history, clock)
      PROVE  Remembers(q, K, W, history, clock')
  BY <1>1, <1>2, <1>6, LaterRemembers
<1>7. /\ Remembers(req, Request, Larger(RateWindow, BotWindow), history, clock')
      /\ Remembers(e4xx, {"error"}, ScanWindow, history, clock')
      /\ Remembers(auth, {"login"}, StuffWindow, history, clock')
      /\ Remembers(ep, {"endpoint"}, EpWindow, history, clock')
  BY <1>6, WindowTypes DEF WindowsInv, WindowsRemembered
<1>8. Marks(ids, history, clock')
  <2>1. \A n \in 1 .. Len(history) :
          history[n].t >= clock' - EnumWindow => history[n].t >= clock - EnumWindow
    BY <1>1, <1>2, WindowTypes
  <2>2. Marks(ids, history, clock)
    BY DEF WindowsInv, WindowsRemembered
  <2> QED
    BY <2>1, <2>2 DEF Marks
<1>9. WindowsRemembered'
  BY <1>2, <1>7, <1>8 DEF WindowsRemembered
<1> QED
  BY <1>3, <1>4, <1>5, <1>9 DEF WindowsInv

LEMMA WindowsInvNext ==
  ASSUME WindowsInv, IdleOutlastsWindows, StaleOutlastsWindows, [WindowsNext]_windowVars
  PROVE  WindowsInv'
<1>1. ASSUME NEW kind \in Request, Feed(kind) PROVE WindowsInv'
  BY <1>1, FeedStep
<1>2. ASSUME NEW crowded \in BOOLEAN, PruneIdle(crowded) PROVE WindowsInv'
  BY <1>2, PruneStep
<1>3. CASE Pause
  BY <1>3, PauseStep
<1>4. CASE UNCHANGED windowVars
  BY <1>4 DEF windowVars, WindowsInv, WindowsTypeOK, HistoryIsPast, LastIsTracked,
              WindowsRemembered
<1> QED
  BY <1>1, <1>2, <1>3, <1>4 DEF WindowsNext

-----------------------------------------------------------------------------
(* The rules *)

LEMMA LastRequest ==
  ASSUME WindowsInv, NEW kind \in Request, Feed(kind)
  PROVE  /\ history'[Len(history')].t = clock /\ history'[Len(history')].kind = kind
         /\ history' \in Seq(Entry) /\ clock \in 1 .. MaxClock /\ clock \in Int
         /\ \A K, W : Within(W, K)' =
              {n \in DOMAIN history' : history'[n].kind \in K /\ history'[n].t >= clock - W}
<1> DEFINE e == [t |-> clock, kind |-> kind]
<1>1. history' = Append(history, e) /\ history \in Seq(Entry) /\ clock \in 1 .. MaxClock
  BY WindowsInvTypes DEF Feed
<1>2. e \in Entry /\ e.t = clock /\ e.kind = kind
  BY <1>1 DEF Entry
<1> HIDE DEF e
<1>3. /\ Len(history') = Len(history) + 1 /\ history'[Len(history) + 1] = e
      /\ history' \in Seq(Entry)
  BY <1>1, <1>2, Appended, AppendProperties
<1>4. history'[Len(history')].t = clock /\ history'[Len(history')].kind = kind
  BY <1>2, <1>3
<1>5. ASSUME NEW K, NEW W
      PROVE  Within(W, K)' =
               {n \in DOMAIN history' : history'[n].kind \in K /\ history'[n].t >= clock - W}
  BY <1>4 DEF Within
<1> QED
  BY <1>1, <1>3, <1>4, <1>5, WindowTypes

\* A request makes the rules fire that its windows say.
LEMMA FeedIsExact ==
  ASSUME WindowsInv, NEW kind \in Request, Feed(kind)
  PROVE  WindowsAreExact'
<1> DEFINE InWindow(K, W) ==
      {n \in DOMAIN history' : history'[n].kind \in K /\ history'[n].t >= clock - W}
<1>1. /\ history'[Len(history')].kind = kind
      /\ history' \in Seq(Entry) /\ clock \in 1 .. MaxClock /\ clock \in Int
  BY LastRequest
<1>2. ASSUME NEW K, NEW W PROVE Within(W, K)' = InWindow(K, W)
  BY LastRequest
<1>3. /\ req' \in Times /\ e4xx' \in Times /\ auth' \in Times /\ ep' \in Times
      /\ Remembers(req', Request, Larger(RateWindow, BotWindow), history', clock)
      /\ Remembers(e4xx', {"error"}, ScanWindow, history', clock)
      /\ Remembers(auth', {"login"}, StuffWindow, history', clock)
      /\ Remembers(ep', {"endpoint"}, EpWindow, history', clock)
  <2>1. WindowsInv' /\ clock' = clock
    BY FeedStep
  <2> QED
    BY <2>1 DEF WindowsInv, WindowsRemembered, WindowsTypeOK
<1>4. /\ \A i \in 1 .. Len(req') : req'[i] >= clock - Larger(RateWindow, BotWindow)
      /\ \A i \in 1 .. Len(e4xx') : e4xx'[i] >= clock - ScanWindow
      /\ kind = "login" => \A i \in 1 .. Len(auth') : auth'[i] >= clock - StuffWindow
      /\ kind = "endpoint" => \A i \in 1 .. Len(ep') : ep'[i] >= clock - EpWindow
  BY FeedStep
<1>l. ASSUME NEW q \in Times, NEW K, NEW W \in Nat, Remembers(q, K, W, history', clock),
             \A i \in 1 .. Len(q) : q[i] >= clock - W
      PROVE  Len(q) = Cardinality(InWindow(K, W))
  BY <1>1, <1>l, LengthCounts
<1> HIDE DEF InWindow
<1>5. Len(req') = Cardinality(InWindow(Request, Larger(RateWindow, BotWindow)))
  BY <1>3, <1>4, <1>l, WindowTypes
<1>6. Len(e4xx') = Cardinality(InWindow({"error"}, ScanWindow))
  BY <1>3, <1>4, <1>l, WindowTypes
<1>7. kind = "login" => Len(auth') = Cardinality(InWindow({"login"}, StuffWindow))
  BY <1>3, <1>4, <1>l, WindowTypes
<1>8. kind = "endpoint" => Len(ep') = Cardinality(InWindow({"endpoint"}, EpWindow))
  BY <1>3, <1>4, <1>l, WindowTypes
<1>9. Cardinality({i \in DOMAIN req' : req'[i] >= clock - RateWindow}) =
        Cardinality(InWindow(Request, RateWindow))
  <2>1. Remembers(req', Request, RateWindow, history', clock)
    BY <1>1, <1>3, ShorterRemembers, WindowTypes
  <2> QED
    BY <1>1, <1>3, <2>1, Counted, WindowTypes DEF InWindow
<1>10. /\ "scan" \in fired' <=> Len(e4xx') >= ScanLimit
       /\ "flood" \in fired' <=>
            Cardinality({i \in DOMAIN req' : req'[i] >= clock - RateWindow}) >= RateLimit
       /\ "bot" \in fired' <=> Len(req') >= BotLimit
       /\ "cred_stuff" \in fired' <=> kind = "login" /\ Len(auth') >= StuffLimit
       /\ "rate" \in fired' <=> kind = "endpoint" /\ Len(ep') >= EpLimit
  BY DEF Feed, Rules
<1>11. /\ "scan" \in fired' <=> Cardinality(Within(ScanWindow, {"error"})') >= ScanLimit
       /\ "flood" \in fired' <=> Cardinality(Within(RateWindow, Request)') >= RateLimit
       /\ "bot" \in fired' <=>
            Cardinality(Within(Larger(RateWindow, BotWindow), Request)') >= BotLimit
       /\ "cred_stuff" \in fired' <=>
            kind = "login" /\ Cardinality(Within(StuffWindow, {"login"})') >= StuffLimit
       /\ "rate" \in fired' <=>
            kind = "endpoint" /\ Cardinality(Within(EpWindow, {"endpoint"})') >= EpLimit
  BY <1>2, <1>5, <1>6, <1>7, <1>8, <1>9, <1>10
<1> QED
  BY <1>1, <1>11 DEF WindowsAreExact

\* Old identifiers that the map keeps are too few to reach the limit.
SlackIsBelowLimit == EnumSlack < EnumLimit

LEMMA FeedEnumerates ==
  ASSUME WindowsInv, NEW kind \in Request, Feed(kind), SlackIsBelowLimit
  PROVE  EnumerationIsExact'
<1> DEFINE marked == {k \in Token : ids'[k] # 0}
           burst == Burst(history', clock)
<1>1. /\ history'[Len(history')].kind = kind
      /\ history' \in Seq(Entry) /\ clock \in 1 .. MaxClock
  BY LastRequest
<1>2. {history'[i].kind : i \in Within(EnumWindow, Token)'} = burst
  <2>1. Within(EnumWindow, Token)' =
          {n \in DOMAIN history' : history'[n].kind \in Token /\ history'[n].t >= clock - EnumWindow}
    BY LastRequest
  <2> QED
    BY <2>1 DEF Burst
<1>3. ids' \in [Token -> 0 .. MaxClock] /\ Marks(ids', history', clock)
  <2>1. WindowsInv' /\ clock' = clock
    BY FeedStep
  <2> QED
    BY <2>1 DEF WindowsInv, WindowsRemembered, WindowsTypeOK
<1>4. /\ IsFiniteSet(marked) /\ burst \subseteq marked
      /\ (\A k \in marked : ids'[k] >= clock - EnumWindow) => burst = marked
  BY <1>1, <1>3, BurstIsMarked
<1>5. "enumeration" \in fired' <=> kind \in Token /\ Cardinality(marked) >= EnumLimit
  BY DEF Feed, Rules
<1>6. kind \in Token => \/ Cardinality(marked) <= EnumSlack
                        \/ \A k \in marked : ids'[k] >= clock - EnumWindow
  BY FeedStep
<1> HIDE DEF marked, burst
<1>7. IsFiniteSet(burst) /\ Cardinality(burst) <= Cardinality(marked)
  BY <1>4, FS_Subset
<1>8. Cardinality(burst) \in Nat /\ Cardinality(marked) \in Nat
  BY <1>4, <1>7, FS_CardinalityType
<1>9. kind \in Token => (Cardinality(marked) >= EnumLimit <=> Cardinality(burst) >= EnumLimit)
  <2>1. EnumLimit \in Nat /\ EnumSlack \in Nat /\ EnumSlack < EnumLimit
    BY WindowsAssumption DEF WindowsAssumption, SlackIsBelowLimit
  <2> QED
    BY <1>4, <1>6, <1>7, <1>8, <2>1
<1>10. "enumeration" \in fired' <=> kind \in Token /\ Cardinality(burst) >= EnumLimit
  BY <1>5, <1>9
<1> QED
  BY <1>1, <1>2, <1>10 DEF EnumerationIsExact

\* The history and the rules that fired change only with a request.
LEMMA NoRequest ==
  ASSUME [WindowsNext]_windowVars, ~ \E kind \in Request : Feed(kind)
  PROVE  history' = history /\ fired' = fired
<1>1. CASE \E crowded \in BOOLEAN : PruneIdle(crowded)
  BY <1>1 DEF PruneIdle
<1>2. CASE Pause
  BY <1>2 DEF Pause
<1>3. CASE UNCHANGED windowVars
  BY <1>3 DEF windowVars
<1> QED
  BY <1>1, <1>2, <1>3 DEF WindowsNext

LEMMA TrimTypes ==
  ASSUME NEW q \in Times, NEW cutoff \in Int
  PROVE  Trim(q, cutoff) \in Times
<1> DEFINE kept == {i \in DOMAIN q : q[i] >= cutoff}
<1>1. /\ q \in Seq(1 .. MaxClock) /\ Len(q) \in Nat /\ DOMAIN q = 1 .. Len(q)
      /\ \A i \in 1 .. Len(q) : q[i] \in 1 .. MaxClock
  <2>1. q \in Seq(1 .. MaxClock)
    BY DEF Times
  <2>2. \A i \in 1 .. Len(q) : q[i] \in 1 .. MaxClock
    BY <2>1, ElementOfSeq
  <2> QED
    BY <2>1, <2>2, LenProperties
<1>2. CASE kept = {}
  BY <1>2, EmptySeq DEF Trim, Times
<1>3. CASE kept # {}
  <2>1. Min(kept) \in kept
    <3>1. kept \in SUBSET Nat
      BY <1>1
    <3> HIDE DEF kept
    <3> QED
      BY <1>3, <3>1, LeastNumber
  <2> DEFINE b == Min(kept)
  <2>2. b \in 1 .. Len(q) /\ Trim(q, cutoff) = SubSeq(q, b, Len(q))
    BY <1>1, <1>3, <2>1 DEF Trim
  <2> HIDE DEF b
  <2>3. \A i \in b .. Len(q) : q[i] \in 1 .. MaxClock
    BY <1>1, <2>2
  <2> QED
    BY <1>1, <2>2, <2>3, SubSeqProperties DEF Times
<1> QED
  BY <1>2, <1>3

LEMMA FeedTypes ==
  ASSUME WindowsTypeOK, NEW kind \in Request, Feed(kind)
  PROVE  WindowsTypeOK'
<1>1. /\ clock \in 1 .. MaxClock /\ clock \in Int
      /\ req \in Times /\ e4xx \in Times /\ auth \in Times /\ ep \in Times
      /\ ids \in [Token -> 0 .. MaxClock] /\ history \in Seq(Entry)
  BY WindowTypes DEF WindowsTypeOK, Entry
<1>2. \A q \in Times : Append(q, clock) \in Times
  BY <1>1, AppendProperties DEF Times
<1>3. req' \in Times
  <2>1. req' = Trim(Append(req, clock), clock - Larger(RateWindow, BotWindow))
    BY DEF Feed
  <2>2. clock - Larger(RateWindow, BotWindow) \in Int
    BY <1>1, WindowTypes
  <2> QED
    BY <1>1, <1>2, <2>1, <2>2, TrimTypes
<1>4. e4xx' \in Times
  <2>1. e4xx' = Trim(IF kind = "error" THEN Append(e4xx, clock) ELSE e4xx, clock - ScanWindow)
    BY DEF Feed
  <2>2. clock - ScanWindow \in Int
    BY <1>1, WindowTypes
  <2>3. (IF kind = "error" THEN Append(e4xx, clock) ELSE e4xx) \in Times
    BY <1>1, <1>2
  <2> QED
    BY <2>1, <2>2, <2>3, TrimTypes
<1>5. auth' \in Times
  <2>1. auth' = IF kind = "login" THEN Trim(Append(auth, clock), clock - StuffWindow) ELSE auth
    BY DEF Feed
  <2>2. clock - StuffWindow \in Int
    BY <1>1, WindowTypes
  <2>3. Trim(Append(auth, clock), clock - StuffWindow) \in Times
    BY <1>1, <1>2, <2>2, TrimTypes
  <2> QED
    BY <1>1, <2>1, <2>3
<1>6. ep' \in Times
  <2>1. ep' = IF kind = "endpoint" THEN Trim(Append(ep, clock), clock - EpWindow) ELSE ep
    BY DEF Feed
  <2>2. clock - EpWindow \in Int
    BY <1>1, WindowTypes
  <2>3. Trim(Append(ep, clock), clock - EpWindow) \in Times
    BY <1>1, <1>2, <2>2, TrimTypes
  <2> QED
    BY <1>1, <2>1, <2>3
<1>7. ids' \in [Token -> 0 .. MaxClock]
  <2>1. ids' = IF kind \in Token THEN Seen(ids, kind) ELSE ids
    BY DEF Feed
  <2>2. ASSUME kind \in Token PROVE Seen(ids, kind) \in [Token -> 0 .. MaxClock]
    <3> DEFINE all == [ids EXCEPT ![kind] = clock]
               kept == [k \in Token |-> IF all[k] < clock - EnumWindow THEN 0 ELSE all[k]]
    <3>1. all \in [Token -> 0 .. MaxClock]
      <4>1. clock \in 0 .. MaxClock
        BY <1>1
      <4> QED
        BY <1>1, <4>1
    <3> HIDE DEF all
    <3>2. kept \in [Token -> 0 .. MaxClock]
      BY <3>1, WindowTypes
    <3>3. Seen(ids, kind) \in {all, kept}
      BY DEF Seen, all
    <3> QED
      BY <3>1, <3>2, <3>3
  <2> QED
    BY <1>1, <2>1, <2>2
<1>8. history' \in Seq(Entry)
  <2>1. [t |-> clock, kind |-> kind] \in Entry
    BY <1>1 DEF Entry
  <2>2. history' = Append(history, [t |-> clock, kind |-> kind])
    BY DEF Feed
  <2> QED
    BY <1>1, <2>1, <2>2, AppendProperties
<1>9. clock' = clock /\ lastSeen' = clock /\ fired' \subseteq Rules /\ clock \in 0 .. MaxClock
  BY <1>1 DEF Feed
<1> QED
  BY <1>1, <1>3, <1>4, <1>5, <1>6, <1>7, <1>8, <1>9 DEF WindowsTypeOK, Entry

LEMMA WindowsTypesNext ==
  ASSUME WindowsTypeOK, [WindowsNext]_windowVars
  PROVE  WindowsTypeOK'
<1>1. ASSUME NEW kind \in Request, Feed(kind) PROVE WindowsTypeOK'
  BY <1>1, FeedTypes
<1>2. ASSUME NEW crowded \in BOOLEAN, PruneIdle(crowded) PROVE WindowsTypeOK'
  <2>1. << >> \in Times /\ 0 \in 0 .. MaxClock
    BY WindowTypes, EmptySeq DEF Times
  <2>2. req' \in {req, << >>} /\ e4xx' \in {e4xx, << >>} /\ auth' \in {auth, << >>}
    BY <1>2 DEF PruneIdle
  <2>3. ep' \in {ep, << >>} /\ lastSeen' \in {lastSeen, 0}
    BY <1>2 DEF PruneIdle
  <2>4. ids' \in {ids, [k \in Token |-> 0]} /\ UNCHANGED <<clock, history, fired>>
    BY <1>2 DEF PruneIdle
  <2>5. ids' \in [Token -> 0 .. MaxClock]
    BY <2>1, <2>4 DEF WindowsTypeOK
  <2> QED
    BY <2>1, <2>2, <2>3, <2>4, <2>5 DEF WindowsTypeOK
<1>3. CASE Pause
  BY <1>3, WindowTypes DEF Pause, WindowsTypeOK
<1>4. CASE UNCHANGED windowVars
  BY <1>4 DEF windowVars, WindowsTypeOK
<1> QED
  BY <1>1, <1>2, <1>3, <1>4 DEF WindowsNext

\* The windows, the map and the history are what their types say, whatever the
\* windows and the times of pruning are (state of Engine, detect.py).
THEOREM WindowsTypeCorrect == WindowsSpec => []WindowsTypeOK
<1>1. WindowsInit => WindowsTypeOK
  BY WindowsInvInit DEF WindowsInv
<1>2. WindowsTypeOK /\ [WindowsNext]_windowVars => WindowsTypeOK'
  BY WindowsTypesNext
<1> QED
  BY <1>1, <1>2, PTL DEF WindowsSpec

\* When an address is forgotten only after its windows are over, every rule fires
\* exactly when its window holds as many requests as its limit (Engine.feed).
THEOREM WindowsCountTheWindow ==
  ASSUME IdleOutlastsWindows, StaleOutlastsWindows
  PROVE  WindowsSpec => []WindowsAreExact
<1> DEFINE I == WindowsInv /\ WindowsAreExact
<1>1. WindowsInit => I
  BY WindowsInvInit DEF WindowsInit, WindowsAreExact
<1>2. I /\ [WindowsNext]_windowVars => I'
  <2> SUFFICES ASSUME I, [WindowsNext]_windowVars PROVE I'
    OBVIOUS
  <2>1. WindowsInv'
    BY WindowsInvNext
  <2>2. CASE \E kind \in Request : Feed(kind)
    BY <2>1, <2>2, FeedIsExact
  <2>3. CASE ~ \E kind \in Request : Feed(kind)
    <3>1. history' = history /\ fired' = fired
      BY <2>3, NoRequest
    <3> QED
      BY <2>1, <3>1 DEF WindowsAreExact, Within
  <2> QED
    BY <2>2, <2>3
<1> QED
  BY <1>1, <1>2, PTL DEF WindowsSpec

\* The same of the different identifiers an enumeration rule counts, when the map
\* looks at their age before their number reaches the limit (_check_endpoints).
THEOREM EnumerationCountsTheWindow ==
  ASSUME IdleOutlastsWindows, StaleOutlastsWindows, SlackIsBelowLimit
  PROVE  WindowsSpec => []EnumerationIsExact
<1> DEFINE I == WindowsInv /\ EnumerationIsExact
<1>1. WindowsInit => I
  BY WindowsInvInit DEF WindowsInit, EnumerationIsExact
<1>2. I /\ [WindowsNext]_windowVars => I'
  <2> SUFFICES ASSUME I, [WindowsNext]_windowVars PROVE I'
    OBVIOUS
  <2>1. WindowsInv'
    BY WindowsInvNext
  <2>2. CASE \E kind \in Request : Feed(kind)
    BY <2>1, <2>2, FeedEnumerates
  <2>3. CASE ~ \E kind \in Request : Feed(kind)
    <3>1. history' = history /\ fired' = fired
      BY <2>3, NoRequest
    <3> QED
      BY <2>1, <3>1 DEF EnumerationIsExact, Within
  <2> QED
    BY <2>2, <2>3
<1> QED
  BY <1>1, <1>2, PTL DEF WindowsSpec
=============================================================================
