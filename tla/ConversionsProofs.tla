------------------------- MODULE ConversionsProofs -------------------------
(***************************************************************************)
(* The readers, the list and the writers of every format agree about every *)
(* conversation: for any number of records, any sequence of edits, rewinds, *)
(* branches and hand-overs, any page size and any cut-off of the mimo CLI.  *)
(*                                                                         *)
(* First the loops.  Each reader gathers what it makes of the elements of a *)
(* sequence; the lemmas named ...Steps say what it makes of nothing, of one *)
(* more element and of a concatenation.  Then what each writer wrote is     *)
(* read again (WrittenIsRead, SnapshotIs, PiWritten), what each scan for    *)
(* prompts finds (PromptsAreUsers, QueryOfRecords, NoReplyAllUsers), and    *)
(* the readers that are not plain loops: mimo's pages and groups            *)
(* (PagesGiveAll, MimoIsTurns), Gemini's log (the Mirrors... lemmas) and    *)
(* Pi's lines of parents (PiAdd, PiFits).  With these, IInv gives the       *)
(* invariants (TranscriptFits, RowShows), each action of an agent adds a    *)
(* record that Fits, and what Convert wrote satisfies IInv as it stands.    *)
(***************************************************************************)
EXTENDS Conversions, Integers, FiniteSetTheorems, SequenceTheorems, TLAPS

-----------------------------------------------------------------------------
(* Every set of numbers has a least one. *)
LEMMA LeastExists ==
  ASSUME NEW S \in SUBSET Nat, S # {}
  PROVE  \E n \in S : \A m \in S : n <= m
<1> DEFINE R == StrictSubsetOrdering(Nat)
           T == {1..n : n \in S}
<1>1. IsWellFoundedOn(R, FiniteSubsetsOf(Nat))
  BY FS_StrictSubsetOrderingWellFounded
<1>2. T \subseteq FiniteSubsetsOf(Nat) /\ T # {}
  <2>1. ASSUME NEW n \in S PROVE 1..n \in FiniteSubsetsOf(Nat)
    BY FS_Interval DEF FiniteSubsetsOf
  <2> QED
    BY <2>1
<1>3. PICK x \in T : \A y \in T : <<y, x>> \notin R
  <2> HIDE DEF R, T
  <2> QED
    BY <1>1, <1>2, WFMin
<1>4. PICK n \in S : x = 1..n
  OBVIOUS
<1>5. ASSUME NEW m \in S, m < n
      PROVE  FALSE
  <2>1. 1..m \subseteq 1..n /\ 1..m # 1..n
    <3>1. n \in 1..n /\ n \notin 1..m
      BY <1>5
    <3> QED
      BY <1>5, <3>1
  <2>2. <<1..m, 1..n>> \in R
    BY <2>1 DEF StrictSubsetOrdering
  <2> QED
    BY <1>3, <1>4, <2>2
<1> QED
  BY <1>5

(* Induction up to n. *)
LEMMA UpTo ==
  ASSUME NEW n \in Nat, NEW S, 0 \in S,
         \A i \in 0..n - 1 : i \in S => i + 1 \in S
  PROVE  0..n \subseteq S
<1> DEFINE T == (0..n) \ S
<1> SUFFICES ASSUME T # {} PROVE FALSE
  OBVIOUS
<1>1. PICK i \in T : \A j \in T : i <= j
  <2>1. T \in SUBSET Nat
    OBVIOUS
  <2> HIDE DEF T
  <2> QED
    BY <2>1, LeastExists
<1>2. i \in 1..n
  BY <1>1
<1>3. i - 1 \in 0..n - 1 /\ i - 1 \notin T
  BY <1>1, <1>2
<1> QED
  BY <1>1, <1>2, <1>3

(* A finite set of numbers has a greatest one, and Latest is it. *)
LEMMA LatestIs ==
  ASSUME NEW n \in Nat, NEW S \in SUBSET (1..n), S # {}
  PROVE  Latest(S) \in S /\ \A j \in S : j <= Latest(S)
<1> DEFINE T == {n - k : k \in S}
<1>1. T \in SUBSET Nat /\ T # {}
  <2>1. \A k \in S : k \in Nat /\ k <= n
    OBVIOUS
  <2>2. \A k \in S : n - k \in Nat
    BY <2>1
  <2> QED
    BY <2>2
<1>2. PICK m \in T : \A j \in T : m <= j
  <2> HIDE DEF T
  <2> QED
    BY <1>1, LeastExists
<1>3. PICK k \in S : m = n - k
  OBVIOUS
<1>4. \A j \in S : j <= k
  <2> SUFFICES ASSUME NEW j \in S PROVE j <= k
    OBVIOUS
  <2>1. n - k <= n - j
    BY <1>2, <1>3
  <2>2. n \in Int /\ k \in Int /\ j \in Int
    OBVIOUS
  <2> QED
    BY <2>1, <2>2
<1>5. \E l \in S : \A j \in S : j <= l
  BY <1>4
<1> QED
  BY <1>5 DEF Latest

(* A step can be repeated n times from s0 on. *)
Repeats(g, n, s0, step) ==
    g[0] = s0 /\ \A k \in 1..n : g[k] = step[<<g[k - 1], k>>]

(* What a recursive function over 0..n is: its value at each k is step of   *)
(* the one before.                                                          *)
LEMMA Iterated ==
  ASSUME NEW n \in Nat, NEW A, NEW s0 \in A, NEW step \in [A \X (1..n) -> A]
  PROVE  \E g \in [0..n -> A] : Repeats(g, n, s0, step)
<1> DEFINE Is(g, m) == /\ g \in [0..m -> A]
                       /\ g[0] = s0
                       /\ \A k \in 1..m : g[k] = step[<<g[k - 1], k>>]
           S == {m \in 0..n : \E g : Is(g, m)}
<1>1. 0 \in S
  <2>1. Is([k \in 0..0 |-> s0], 0)
    OBVIOUS
  <2> HIDE DEF Is
  <2> QED
    BY <2>1
<1>2. ASSUME NEW m \in 0..n - 1, m \in S
      PROVE  m + 1 \in S
  <2>1. PICK g : Is(g, m)
    BY <1>2
  <2> DEFINE last == step[<<g[m], m + 1>>]
             h == [k \in 0..m + 1 |-> IF k = m + 1 THEN last ELSE g[k]]
  <2>2. last \in A
    BY <2>1
  <2>3. h \in [0..m + 1 -> A]
    <3> SUFFICES ASSUME NEW k \in 0..m + 1, k # m + 1 PROVE g[k] \in A
      BY <2>2
    <3> QED
      BY <2>1
  <2>4. h[m + 1] = last /\ \A k \in 0..m : h[k] = g[k]
    OBVIOUS
  <2> HIDE DEF h
  <2>5. \A k \in 1..m + 1 : h[k] = step[<<h[k - 1], k>>]
    <3> SUFFICES ASSUME NEW k \in 1..m + 1
                 PROVE  h[k] = step[<<h[k - 1], k>>]
      OBVIOUS
    <3>1. CASE k = m + 1
      BY <2>4, <3>1
    <3>2. CASE k # m + 1
      <4>1. k \in 1..m /\ k - 1 \in 0..m /\ k \in 0..m
        BY <3>2
      <4> QED
        BY <2>1, <2>4, <4>1
    <3> QED
      BY <3>1, <3>2
  <2>6. h[0] = s0
    BY <2>1, <2>4
  <2>7. Is(h, m + 1)
    BY <2>3, <2>5, <2>6
  <2> HIDE DEF Is
  <2> QED
    BY <2>7
<1>3. n \in S
  <2>1. \A m \in 0..n - 1 : m \in S => m + 1 \in S
    BY <1>2
  <2> HIDE DEF S
  <2> QED
    BY <1>1, <2>1, UpTo
<1> QED
  BY <1>3 DEF Repeats

(* A set with the empty sequence, and with each sequence what it becomes    *)
(* when something is appended, has all sequences.                           *)
LEMMA AllSequences ==
  ASSUME NEW B, NEW S, <<>> \in S,
         \A s \in Seq(B) : \A x \in B : s \in S => Append(s, x) \in S
  PROVE  Seq(B) \subseteq S
<1> SUFFICES ASSUME NEW q \in Seq(B) PROVE q \in S
  OBVIOUS
<1> DEFINE n == Len(q)
           T == {k \in 0..n : SubSeq(q, 1, k) \in S}
<1>0. n \in Nat
  OBVIOUS
<1>1. 0 \in T
  <2>1. SubSeq(q, 1, 0) = <<>>
    BY EmptySeq
  <2>2. SubSeq(q, 1, 0) \in S
    BY <2>1
  <2> QED
    BY <1>0, <2>2
<1>2. ASSUME NEW k \in 0..n - 1, k \in T PROVE k + 1 \in T
  <2>1. SubSeq(q, 1, k) \in Seq(B) /\ q[k + 1] \in B
    OBVIOUS
  <2>2. SubSeq(q, 1, k + 1) = Append(SubSeq(q, 1, k), q[k + 1])
    OBVIOUS
  <2>3. SubSeq(q, 1, k) \in S
    BY <1>2
  <2>4. SubSeq(q, 1, k + 1) \in S
    BY <2>1, <2>2, <2>3
  <2> QED
    BY <1>0, <2>4
<1>3. n \in T
  <2>1. \A k \in 0..n - 1 : k \in T => k + 1 \in T
    BY <1>2
  <2> HIDE DEF T, n
  <2>2. 0..n \subseteq T
    BY <1>0, <1>1, <2>1, UpTo
  <2> QED
    BY <1>0, <2>2
<1>4. SubSeq(q, 1, n) = q
  OBVIOUS
<1> QED
  BY <1>3, <1>4

-----------------------------------------------------------------------------
(* FlattenSeq joins its sequences one after the other. *)
LEMMA FlattenSteps ==
  ASSUME NEW A, NEW seqs \in Seq(Seq(A))
  PROVE  \E g \in [0..Len(seqs) -> Seq(A)] :
            /\ g[0] = <<>>
            /\ \A k \in 1..Len(seqs) : g[k] = g[k - 1] \o seqs[k]
            /\ FlattenSeq(seqs) = g[Len(seqs)]
<1> DEFINE n == Len(seqs)
           step == [p \in Seq(A) \X (1..n) |-> p[1] \o seqs[p[2]]]
<1>0. n \in Nat /\ DOMAIN seqs = 1..n /\ \A k \in 1..n : seqs[k] \in Seq(A)
  OBVIOUS
<1>1. step \in [Seq(A) \X (1..n) -> Seq(A)]
  <2>1. \A p \in Seq(A) \X (1..n) : p[1] \o seqs[p[2]] \in Seq(A)
    BY <1>0
  <2> HIDE DEF n
  <2> QED
    BY <2>1
<1>2. <<>> \in Seq(A)
  OBVIOUS
<1>3. PICK g \in [0..n -> Seq(A)] :
         g[0] = <<>> /\ \A k \in 1..n : g[k] = step[<<g[k - 1], k>>]
  <2> DEFINE D == Seq(A)
             s0 == <<>>
  <2>1. n \in Nat /\ s0 \in D /\ step \in [D \X (1..n) -> D]
    BY <1>0, <1>1, <1>2
  <2> HIDE DEF n, step, D, s0
  <2>2. \E g \in [0..n -> D] : Repeats(g, n, s0, step)
    BY <2>1, Iterated, Zenon
  <2> QED
    BY <2>2 DEF D, s0, Repeats
<1>4. \A k \in 1..n : g[k] = g[k - 1] \o seqs[k]
  <2> SUFFICES ASSUME NEW k \in 1..n PROVE g[k] = g[k - 1] \o seqs[k]
    OBVIOUS
  <2>1. k - 1 \in 0..n
    BY <1>0
  <2>2. <<g[k - 1], k>> \in Seq(A) \X (1..n)
    BY <1>3, <2>1
  <2> QED
    BY <1>3, <2>2
<1>5. FlattenSeq(seqs) = g[n]
  <2>1. CASE n = 0
    <3>1. seqs = <<>>
      BY <2>1, EmptySeq
    <3> QED
      BY <1>3, <2>1, <3>1 DEF FlattenSeq
  <2>2. CASE n # 0
    <3> DEFINE Body(f, i) == IF i = 1 THEN seqs[i] ELSE f[i - 1] \o seqs[i]
               Is(f) == f = [i \in 1..n |-> Body(f, i)]
               flatten == CHOOSE f : Is(f)
               h == [i \in 1..n |-> g[i]]
    <3>1. FlattenSeq(seqs) = flatten[n]
      BY <2>2 DEF FlattenSeq
    <3>2. \A i \in 1..n : g[i] = Body(h, i)
      <4> SUFFICES ASSUME NEW i \in 1..n PROVE g[i] = Body(h, i)
        OBVIOUS
      <4>1. CASE i = 1
        <5>1. g[1] = g[0] \o seqs[1] /\ seqs[1] \in Seq(A)
          BY <1>0, <1>4, <4>1
        <5>2. <<>> \o seqs[1] = seqs[1]
          BY <5>1, ConcatEmptySeq
        <5> QED
          BY <1>3, <4>1, <5>1, <5>2
      <4>2. CASE i # 1
        <5>1. i - 1 \in 1..n
          BY <1>0, <4>2
        <5> QED
          BY <1>4, <4>2, <5>1
      <4> QED
        BY <4>1, <4>2
    <3>3. Is(h)
      <4> HIDE DEF Body
      <4> QED
        BY <3>2
    <3>4. Is(flatten)
      <4>1. \E f : Is(f)
        BY <3>3
      <4> HIDE DEF Is
      <4> QED
        BY <4>1
    <3>5. \A i \in 1..n : flatten[i] = Body(flatten, i)
      <4> HIDE DEF Body, flatten
      <4> QED
        BY <3>4
    <3> DEFINE T == {k \in 0..n : k # 0 => flatten[k] = g[k]}
    <3>6. n \in T
      <4> HIDE DEF flatten
      <4>1. ASSUME NEW k \in 0..n - 1, k \in T PROVE k + 1 \in T
        <5>1. CASE k = 0
          <6>1. flatten[1] = seqs[1] /\ h[1] = g[1] /\ g[1] = seqs[1]
            BY <1>0, <2>2, <3>2, <3>5
          <6> QED
            BY <1>0, <5>1, <6>1
        <5>2. CASE k # 0
          <6>1. k + 1 \in 1..n /\ k + 1 # 1 /\ (k + 1) - 1 = k
            BY <1>0, <5>2
          <6>2. flatten[k + 1] = flatten[k] \o seqs[k + 1]
            <7>1. flatten[k + 1] = Body(flatten, k + 1)
              BY <3>5, <6>1
            <7> QED
              BY <6>1, <7>1
          <6>3. g[k + 1] = g[k] \o seqs[k + 1]
            <7>1. g[k + 1] = g[(k + 1) - 1] \o seqs[k + 1]
              BY <1>4, <6>1
            <7> QED
              BY <6>1, <7>1
          <6>4. flatten[k] = g[k]
            BY <4>1, <5>2
          <6>5. flatten[k + 1] = g[k + 1] /\ k + 1 \in 0..n
            BY <1>0, <6>1, <6>2, <6>3, <6>4
          <6> QED
            BY <6>5
        <5> QED
          BY <5>1, <5>2
      <4>2. 0 \in T
        BY <1>0
      <4>3. \A k \in 0..n - 1 : k \in T => k + 1 \in T
        BY <4>1
      <4> HIDE DEF T, n
      <4>4. 0..n \subseteq T
        BY <1>0, <4>2, <4>3, UpTo
      <4> QED
        BY <1>0, <4>4
    <3> HIDE DEF flatten
    <3> QED
      BY <2>2, <3>1, <3>6
  <2> QED
    BY <2>1, <2>2
<1> QED
  BY <1>3, <1>4, <1>5

(* FlattenSeq of sequences over A is a sequence over A. *)
LEMMA FlattenType ==
  ASSUME NEW A, NEW seqs \in Seq(Seq(A))
  PROVE  FlattenSeq(seqs) \in Seq(A)
<1>1. PICK g \in [0..Len(seqs) -> Seq(A)] : FlattenSeq(seqs) = g[Len(seqs)]
  BY FlattenSteps
<1>2. Len(seqs) \in 0..Len(seqs)
  OBVIOUS
<1> QED
  BY <1>1, <1>2

(* One more sequence is appended to what the others came to. *)
LEMMA FlattenAppend ==
  ASSUME NEW A, NEW seqs \in Seq(Seq(A)), NEW x \in Seq(A)
  PROVE  FlattenSeq(Append(seqs, x)) = FlattenSeq(seqs) \o x
<1> DEFINE n == Len(seqs)
           more == Append(seqs, x)
<1>0. /\ n \in Nat /\ more \in Seq(Seq(A)) /\ Len(more) = n + 1
      /\ \A k \in 1..n : more[k] = seqs[k]
      /\ more[n + 1] = x
  OBVIOUS
<1>1. PICK g \in [0..n -> Seq(A)] :
         /\ g[0] = <<>>
         /\ \A k \in 1..n : g[k] = g[k - 1] \o seqs[k]
         /\ FlattenSeq(seqs) = g[n]
  BY FlattenSteps
<1>2. PICK h \in [0..n + 1 -> Seq(A)] :
         /\ h[0] = <<>>
         /\ \A k \in 1..n + 1 : h[k] = h[k - 1] \o more[k]
         /\ FlattenSeq(more) = h[n + 1]
  <2> HIDE DEF more, n
  <2>1. \E h \in [0..Len(more) -> Seq(A)] :
           /\ h[0] = <<>>
           /\ \A k \in 1..Len(more) : h[k] = h[k - 1] \o more[k]
           /\ FlattenSeq(more) = h[Len(more)]
    BY <1>0, FlattenSteps
  <2> QED
    BY <1>0, <2>1
<1> HIDE DEF more
<1> DEFINE T == {k \in 0..n : h[k] = g[k]}
<1>3. n \in T
  <2>1. ASSUME NEW k \in 0..n - 1, k \in T PROVE k + 1 \in T
    <3>1. k + 1 \in 1..n /\ (k + 1) - 1 = k /\ k + 1 \in 1..n + 1
      BY <1>0
    <3>2. h[k + 1] = h[k] \o seqs[k + 1] /\ g[k + 1] = g[k] \o seqs[k + 1]
      BY <1>0, <1>1, <1>2, <3>1
    <3>3. h[k] = g[k] /\ k + 1 \in 0..n
      BY <1>0, <2>1
    <3>4. h[k + 1] = g[k + 1]
      BY <3>2, <3>3
    <3> QED
      BY <3>3, <3>4
  <2>2. 0 \in T
    BY <1>0, <1>1, <1>2
  <2>3. \A k \in 0..n - 1 : k \in T => k + 1 \in T
    BY <2>1
  <2> HIDE DEF T, n
  <2>4. 0..n \subseteq T
    BY <1>0, <2>2, <2>3, UpTo
  <2> QED
    BY <1>0, <2>4
<1>4. h[n + 1] = h[n] \o x
  <2>1. n + 1 \in 1..n + 1 /\ (n + 1) - 1 = n
    BY <1>0
  <2> QED
    BY <1>0, <1>2, <2>1
<1> QED
  BY <1>1, <1>2, <1>3, <1>4 DEF more

(* ... of which a value for each element is the case that matters: F makes  *)
(* a sequence of each element of q.                                         *)
Joined(F, q) == FlattenSeq([i \in 1..Len(q) |-> F[q[i]]])

Joins(A, B, F) ==
    /\ Joined(F, <<>>) = <<>>
    /\ \A q \in Seq(B) : Joined(F, q) \in Seq(A)
    /\ \A q \in Seq(B) : \A x \in B : Joined(F, Append(q, x)) = Joined(F, q) \o F[x]
    /\ \A q \in Seq(B) : \A s \in Seq(B) : Joined(F, q \o s) = Joined(F, q) \o Joined(F, s)
    /\ \A x \in B : Joined(F, <<x>>) = F[x]

(* A loop that appends F[x] for each x: what it makes of nothing, of one    *)
(* more element, of two runs and of one element.                            *)
LEMMA JoinedSteps ==
  ASSUME NEW A, NEW B, NEW F \in [B -> Seq(A)]
  PROVE  Joins(A, B, F)
<1>0. Joined(F, <<>>) = <<>>
  <2>1. [i \in 1..Len(<<>>) |-> F[<<>>[i]]] = <<>>
    OBVIOUS
  <2> QED
    BY <2>1 DEF Joined, FlattenSeq
<1>1. ASSUME NEW q \in Seq(B) PROVE Joined(F, q) \in Seq(A)
  <2> DEFINE n == Len(q)
             seqs == [i \in 1..n |-> F[q[i]]]
  <2>1. \A i \in 1..n : F[q[i]] \in Seq(A)
    OBVIOUS
  <2>2. n \in Nat
    OBVIOUS
  <2> HIDE DEF n
  <2>3. seqs \in Seq(Seq(A))
    BY <2>1, <2>2, IsASeq
  <2> HIDE DEF seqs
  <2>4. FlattenSeq(seqs) \in Seq(A)
    BY <2>3, FlattenType
  <2> QED
    BY <2>4 DEF Joined, n, seqs
<1>2. ASSUME NEW q \in Seq(B), NEW x \in B
      PROVE  Joined(F, Append(q, x)) = Joined(F, q) \o F[x]
  <2> DEFINE n == Len(q)
             seqs == [i \in 1..n |-> F[q[i]]]
  <2>1. n \in Nat /\ seqs \in Seq(Seq(A)) /\ F[x] \in Seq(A)
    <3>1. \A i \in 1..n : F[q[i]] \in Seq(A)
      OBVIOUS
    <3>2. n \in Nat
      OBVIOUS
    <3> HIDE DEF n
    <3>3. seqs \in Seq(Seq(A))
      BY <3>1, <3>2, IsASeq
    <3> QED
      BY <3>2, <3>3
  <2>2. [i \in 1..n + 1 |-> F[Append(q, x)[i]]] = Append(seqs, F[x])
    OBVIOUS
  <2>3. Len(Append(q, x)) = n + 1
    OBVIOUS
  <2>4. FlattenSeq(Append(seqs, F[x])) = FlattenSeq(seqs) \o F[x]
    <3> HIDE DEF seqs, n
    <3> QED
      BY <2>1, FlattenAppend
  <2> QED
    BY <2>2, <2>3, <2>4 DEF Joined
<1>3. ASSUME NEW x \in B PROVE Joined(F, <<x>>) = F[x]
  <2>1. <<>> \in Seq(B) /\ <<x>> = Append(<<>>, x) /\ F[x] \in Seq(A)
    OBVIOUS
  <2>2. Joined(F, <<x>>) = Joined(F, <<>>) \o F[x]
    BY <1>2, <2>1
  <2>3. <<>> \o F[x] = F[x]
    BY <2>1, ConcatEmptySeq
  <2> QED
    BY <1>0, <2>2, <2>3
<1>4. ASSUME NEW q \in Seq(B), NEW s \in Seq(B)
      PROVE  Joined(F, q \o s) = Joined(F, q) \o Joined(F, s)
  <2> DEFINE T == {u \in Seq(B) : Joined(F, q \o u) = Joined(F, q) \o Joined(F, u)}
  <2>1. <<>> \in T
    <3>1. q \o <<>> = q /\ Joined(F, q) \o <<>> = Joined(F, q)
      BY <1>1, ConcatEmptySeq
    <3>2. <<>> \in Seq(B)
      OBVIOUS
    <3> QED
      BY <1>0, <3>1, <3>2
  <2>2. ASSUME NEW u \in Seq(B), NEW x \in B, u \in T
        PROVE  Append(u, x) \in T
    <3>1. /\ q \o u \in Seq(B) /\ Append(u, x) \in Seq(B)
          /\ q \o Append(u, x) = Append(q \o u, x)
      OBVIOUS
    <3>2. /\ Joined(F, Append(q \o u, x)) = Joined(F, q \o u) \o F[x]
          /\ Joined(F, Append(u, x)) = Joined(F, u) \o F[x]
      BY <1>2, <3>1
    <3>3. Joined(F, q \o u) = Joined(F, q) \o Joined(F, u)
      BY <2>2
    <3>4. /\ Joined(F, q) \in Seq(A) /\ Joined(F, u) \in Seq(A) /\ F[x] \in Seq(A)
      BY <1>1
    <3>5. ASSUME NEW a \in Seq(A), NEW b \in Seq(A), NEW c \in Seq(A)
          PROVE  (a \o b) \o c = a \o (b \o c)
      OBVIOUS
    <3> HIDE DEF T
    <3>6. /\ Joined(F, q \o Append(u, x)) = (Joined(F, q) \o Joined(F, u)) \o F[x]
          /\ Joined(F, q) \o Joined(F, Append(u, x))
               = Joined(F, q) \o (Joined(F, u) \o F[x])
      BY <3>1, <3>2, <3>3
    <3>7. Joined(F, q \o Append(u, x)) = Joined(F, q) \o Joined(F, Append(u, x))
      BY <3>4, <3>5, <3>6
    <3> QED
      BY <3>1, <3>7 DEF T
  <2>3. \A u \in Seq(B) : \A x \in B : u \in T => Append(u, x) \in T
    BY <2>2
  <2> HIDE DEF T
  <2>4. Seq(B) \subseteq T
    BY <2>1, <2>3, AllSequences
  <2> QED
    BY <2>4 DEF T
<1> QED
  BY <1>0, <1>1, <1>2, <1>3, <1>4 DEF Joins

-----------------------------------------------------------------------------
(* The loops of the readers, one lemma each: nothing of nothing, and of one *)
(* element more what that element adds.                                     *)
ShownText(p) == IF p.shown THEN p.text ELSE <<>>

(* The text of a message, part by part. *)
LEMMA TextSteps ==
  /\ TextFromContent(<<>>) = <<>>
  /\ \A q \in Seq(Parts) : TextFromContent(q) \in Seq(Marks)
  /\ \A q \in Seq(Parts) : \A x \in Parts :
        TextFromContent(Append(q, x)) = TextFromContent(q) \o ShownText(x)
  /\ \A q \in Seq(Parts) : \A s \in Seq(Parts) :
        TextFromContent(q \o s) = TextFromContent(q) \o TextFromContent(s)
  /\ \A x \in Parts : TextFromContent(<<x>>) = ShownText(x)
<1> DEFINE G == [x \in Parts |-> ShownText(x)]
<1>1. G \in [Parts -> Seq(Marks)]
  <2>1. \A x \in Parts : ShownText(x) \in Seq(Marks)
    <3> SUFFICES ASSUME NEW x \in Parts PROVE ShownText(x) \in Seq(Marks)
      OBVIOUS
    <3>1. x.text \in Seq(Marks) /\ <<>> \in Seq(Marks)
      BY DEF Parts, Texts
    <3> QED
      BY <3>1 DEF ShownText
  <2> QED
    BY <2>1
<1>2. \A q \in Seq(Parts) : TextFromContent(q) = Joined(G, q)
  <2> SUFFICES ASSUME NEW q \in Seq(Parts) PROVE TextFromContent(q) = Joined(G, q)
    OBVIOUS
  <2>1. \A i \in 1..Len(q) : q[i] \in Parts
    OBVIOUS
  <2> QED
    BY <2>1 DEF TextFromContent, ShownText, Gathered, Joined
<1>3. \A x \in Parts : G[x] = ShownText(x)
  OBVIOUS
<1> HIDE DEF G
<1>4. Joins(Marks, Parts, G)
  BY <1>1, JoinedSteps
<1>5. /\ <<>> \in Seq(Parts)
      /\ \A x \in Parts : <<x>> \in Seq(Parts)
      /\ \A q \in Seq(Parts) : \A x \in Parts : Append(q, x) \in Seq(Parts)
      /\ \A q \in Seq(Parts) : \A s \in Seq(Parts) : q \o s \in Seq(Parts)
  OBVIOUS
<1>6. TextFromContent(<<>>) = <<>>
  BY <1>2, <1>4, <1>5 DEF Joins
<1>7. \A q \in Seq(Parts) : TextFromContent(q) \in Seq(Marks)
  BY <1>2, <1>4 DEF Joins
<1>8. \A q \in Seq(Parts) : \A x \in Parts :
         TextFromContent(Append(q, x)) = TextFromContent(q) \o G[x]
  BY <1>2, <1>4, <1>5 DEF Joins
<1>9. \A q \in Seq(Parts) : \A s \in Seq(Parts) :
         TextFromContent(q \o s) = TextFromContent(q) \o TextFromContent(s)
  <2> SUFFICES ASSUME NEW q \in Seq(Parts), NEW s \in Seq(Parts)
               PROVE  TextFromContent(q \o s) = TextFromContent(q) \o TextFromContent(s)
    OBVIOUS
  <2>1. Joined(G, q \o s) = Joined(G, q) \o Joined(G, s)
    BY <1>4 DEF Joins
  <2>2. q \o s \in Seq(Parts)
    BY <1>5
  <2> QED
    BY <1>2, <2>1, <2>2
<1>10. \A x \in Parts : TextFromContent(<<x>>) = G[x]
  BY <1>2, <1>4, <1>5 DEF Joins
<1> QED
  BY <1>3, <1>6, <1>7, <1>8, <1>9, <1>10

(* The turns that are kept. *)
Turns == {t \in [role : Speakers, text : Texts] : KeepTranscriptTurn(t.role, t.text)}

(* The fields of a record. *)
LEMMA RecordParts ==
  ASSUME NEW r \in Records
  PROVE  /\ r.parts \in Seq(Parts) /\ r.id \in Nat /\ r.parent \in Nat
         /\ r.role \in Speakers \cup {"none"}
         /\ r.body \in Seq(Messages)
         /\ r.kind = "message" <=> r \in Messages
         /\ r.kind = "message" <=> r.role \in Speakers
         /\ r.kind # "message" => r.parts = <<>>
<1>1. CASE r \in Messages
  <2>1. <<>> \in Seq(Messages)
    OBVIOUS
  <2> QED
    BY <1>1, <2>1 DEF Messages, Speakers
<1>2. CASE r \notin Messages
  <2>1. /\ r.kind # "message" /\ r.role = "none" /\ r.parts = <<>>
        /\ r.id \in Nat /\ r.parent \in Nat /\ r.body \in Seq(Messages)
    BY <1>2 DEF Records
  <2>2. <<>> \in Seq(Parts)
    OBVIOUS
  <2> QED
    BY <1>2, <2>1, <2>2 DEF Speakers
<1> QED
  BY <1>1, <1>2

(* A message makes turns that are kept. *)
LEMMA TurnType ==
  ASSUME NEW r \in Records
  PROVE  TurnOf(r) \in Seq(Turns)
<1> DEFINE text == TextFromContent(r.parts)
<1>1. text \in Texts
  BY RecordParts, TextSteps DEF Texts
<1> HIDE DEF text
<1>2. CASE r.kind = "message" /\ KeepTranscriptTurn(r.role, text)
  <2>1. Turn(r.role, text) \in Turns
    BY <1>1, <1>2, RecordParts DEF Turns, Turn
  <2>2. TurnOf(r) = <<Turn(r.role, text)>>
    BY <1>2 DEF TurnOf, text
  <2> QED
    BY <2>1, <2>2
<1>3. CASE ~(r.kind = "message" /\ KeepTranscriptTurn(r.role, text))
  BY <1>3 DEF TurnOf, text
<1> QED
  BY <1>2, <1>3

(* The turns of a log, record by record. *)
LEMMA TurnsSteps ==
  /\ TurnsOf(<<>>) = <<>>
  /\ \A q \in Seq(Records) : TurnsOf(q) \in Seq(Turns)
  /\ \A q \in Seq(Records) : \A x \in Records :
        TurnsOf(Append(q, x)) = TurnsOf(q) \o TurnOf(x)
  /\ \A q \in Seq(Records) : \A s \in Seq(Records) :
        TurnsOf(q \o s) = TurnsOf(q) \o TurnsOf(s)
  /\ \A x \in Records : TurnsOf(<<x>>) = TurnOf(x)
<1> DEFINE G == [x \in Records |-> TurnOf(x)]
<1>1. G \in [Records -> Seq(Turns)]
  BY TurnType
<1>2. \A q \in Seq(Records) : TurnsOf(q) = Joined(G, q)
  <2> SUFFICES ASSUME NEW q \in Seq(Records) PROVE TurnsOf(q) = Joined(G, q)
    OBVIOUS
  <2>1. \A i \in 1..Len(q) : q[i] \in Records
    OBVIOUS
  <2> QED
    BY <2>1 DEF TurnsOf, Gathered, Joined
<1>3. \A x \in Records : G[x] = TurnOf(x)
  OBVIOUS
<1> HIDE DEF G
<1>4. Joins(Turns, Records, G)
  BY <1>1, JoinedSteps
<1>5. /\ <<>> \in Seq(Records)
      /\ \A x \in Records : <<x>> \in Seq(Records)
      /\ \A q \in Seq(Records) : \A x \in Records : Append(q, x) \in Seq(Records)
      /\ \A q \in Seq(Records) : \A s \in Seq(Records) : q \o s \in Seq(Records)
  OBVIOUS
<1>6. TurnsOf(<<>>) = <<>>
  BY <1>2, <1>4, <1>5 DEF Joins
<1>7. \A q \in Seq(Records) : TurnsOf(q) \in Seq(Turns)
  BY <1>2, <1>4 DEF Joins
<1>8. \A q \in Seq(Records) : \A x \in Records :
         TurnsOf(Append(q, x)) = TurnsOf(q) \o G[x]
  BY <1>2, <1>4, <1>5 DEF Joins
<1>9. \A q \in Seq(Records) : \A s \in Seq(Records) :
         TurnsOf(q \o s) = TurnsOf(q) \o TurnsOf(s)
  <2> SUFFICES ASSUME NEW q \in Seq(Records), NEW s \in Seq(Records)
               PROVE  TurnsOf(q \o s) = TurnsOf(q) \o TurnsOf(s)
    OBVIOUS
  <2>1. Joined(G, q \o s) = Joined(G, q) \o Joined(G, s)
    BY <1>4 DEF Joins
  <2>2. q \o s \in Seq(Records)
    BY <1>5
  <2> QED
    BY <1>2, <2>1, <2>2
<1>10. \A x \in Records : TurnsOf(<<x>>) = G[x]
  BY <1>2, <1>4, <1>5 DEF Joins
<1> QED
  BY <1>3, <1>6, <1>7, <1>8, <1>9, <1>10

UserTurn(t) == IF t.role = "user" THEN <<t>> ELSE <<>>

(* The prompts of a transcript, turn by turn. *)
LEMMA UsersSteps ==
  /\ Users(<<>>) = <<>>
  /\ \A q \in Seq(Turns) : Users(q) \in Seq(Turns)
  /\ \A q \in Seq(Turns) : \A x \in Turns :
        Users(Append(q, x)) = Users(q) \o UserTurn(x)
  /\ \A q \in Seq(Turns) : \A s \in Seq(Turns) :
        Users(q \o s) = Users(q) \o Users(s)
  /\ \A x \in Turns : Users(<<x>>) = UserTurn(x)
<1> DEFINE G == [x \in Turns |-> UserTurn(x)]
<1>1. G \in [Turns -> Seq(Turns)]
  <2>1. \A x \in Turns : UserTurn(x) \in Seq(Turns)
    BY DEF UserTurn
  <2> QED
    BY <2>1
<1>2. \A q \in Seq(Turns) : Users(q) = Joined(G, q)
  <2> SUFFICES ASSUME NEW q \in Seq(Turns) PROVE Users(q) = Joined(G, q)
    OBVIOUS
  <2>1. \A i \in 1..Len(q) : q[i] \in Turns
    OBVIOUS
  <2> QED
    BY <2>1 DEF Users, UserTurn, Gathered, Joined
<1>3. \A x \in Turns : G[x] = UserTurn(x)
  OBVIOUS
<1> HIDE DEF G
<1>4. Joins(Turns, Turns, G)
  BY <1>1, JoinedSteps
<1>5. /\ <<>> \in Seq(Turns)
      /\ \A x \in Turns : <<x>> \in Seq(Turns)
      /\ \A q \in Seq(Turns) : \A x \in Turns : Append(q, x) \in Seq(Turns)
      /\ \A q \in Seq(Turns) : \A s \in Seq(Turns) : q \o s \in Seq(Turns)
  OBVIOUS
<1>6. Users(<<>>) = <<>>
  BY <1>2, <1>4, <1>5 DEF Joins
<1>7. \A q \in Seq(Turns) : Users(q) \in Seq(Turns)
  BY <1>2, <1>4 DEF Joins
<1>8. \A q \in Seq(Turns) : \A x \in Turns :
         Users(Append(q, x)) = Users(q) \o G[x]
  BY <1>2, <1>4, <1>5 DEF Joins
<1>9. \A q \in Seq(Turns) : \A s \in Seq(Turns) :
         Users(q \o s) = Users(q) \o Users(s)
  <2> SUFFICES ASSUME NEW q \in Seq(Turns), NEW s \in Seq(Turns)
               PROVE  Users(q \o s) = Users(q) \o Users(s)
    OBVIOUS
  <2>1. Joined(G, q \o s) = Joined(G, q) \o Joined(G, s)
    BY <1>4 DEF Joins
  <2>2. q \o s \in Seq(Turns)
    BY <1>5
  <2> QED
    BY <1>2, <2>1, <2>2
<1>10. \A x \in Turns : Users(<<x>>) = G[x]
  BY <1>2, <1>4, <1>5 DEF Joins
<1> QED
  BY <1>3, <1>6, <1>7, <1>8, <1>9, <1>10

(* What of a saying another agent can be given. *)
HeardOf(f, s) == IF Transferable(f, s) THEN <<Turn(s.role, s.text)>> ELSE <<>>

(* What another agent can be given of one saying. *)
LEMMA HeardType ==
  ASSUME NEW f, NEW s \in Sayings
  PROVE  HeardOf(f, s) \in Seq(Turns)
<1>1. s.role \in Speakers /\ s.text \in Texts
  BY DEF Sayings
<1>2. CASE Transferable(f, s)
  <2>1. s.text # <<>> /\ (s.role = "user" => s.text[1] # "context")
    BY <1>2 DEF Transferable
  <2>2. s.role = "user" => UsefulUserText(s.text)
    <3>1. Head(s.text) = s.text[1]
      BY <1>1, <2>1 DEF Texts
    <3> QED
      BY <2>1, <3>1 DEF UsefulUserText, StartsWith
  <2>3. Turn(s.role, s.text) \in Turns
    BY <1>1, <2>1, <2>2 DEF Turns, Turn, KeepTranscriptTurn, Speakers
  <2> QED
    BY <1>2, <2>3 DEF HeardOf
<1>3. CASE ~Transferable(f, s)
  BY <1>3 DEF HeardOf
<1> QED
  BY <1>2, <1>3

(* What another agent can be given of a conversation, saying by saying. *)
LEMMA HeardSteps ==
  ASSUME NEW f
  PROVE
  /\ Heard(f, <<>>) = <<>>
  /\ \A q \in Seq(Sayings) : Heard(f, q) \in Seq(Turns)
  /\ \A q \in Seq(Sayings) : \A x \in Sayings :
        Heard(f, Append(q, x)) = Heard(f, q) \o HeardOf(f, x)
  /\ \A q \in Seq(Sayings) : \A s \in Seq(Sayings) :
        Heard(f, q \o s) = Heard(f, q) \o Heard(f, s)
  /\ \A x \in Sayings : Heard(f, <<x>>) = HeardOf(f, x)
<1> DEFINE G == [x \in Sayings |-> HeardOf(f, x)]
<1>1. G \in [Sayings -> Seq(Turns)]
  <2>1. \A x \in Sayings : HeardOf(f, x) \in Seq(Turns)
    BY HeardType
  <2> QED
    BY <2>1
<1>2. \A q \in Seq(Sayings) : Heard(f, q) = Joined(G, q)
  <2> SUFFICES ASSUME NEW q \in Seq(Sayings) PROVE Heard(f, q) = Joined(G, q)
    OBVIOUS
  <2>1. \A i \in 1..Len(q) : q[i] \in Sayings
    OBVIOUS
  <2> QED
    BY <2>1 DEF Heard, HeardOf, Gathered, Joined
<1>3. \A x \in Sayings : G[x] = HeardOf(f, x)
  OBVIOUS
<1> HIDE DEF G
<1>4. Joins(Turns, Sayings, G)
  BY <1>1, JoinedSteps
<1>5. /\ <<>> \in Seq(Sayings)
      /\ \A x \in Sayings : <<x>> \in Seq(Sayings)
      /\ \A q \in Seq(Sayings) : \A x \in Sayings : Append(q, x) \in Seq(Sayings)
      /\ \A q \in Seq(Sayings) : \A s \in Seq(Sayings) : q \o s \in Seq(Sayings)
  OBVIOUS
<1>6. Heard(f, <<>>) = <<>>
  BY <1>2, <1>4, <1>5 DEF Joins
<1>7. \A q \in Seq(Sayings) : Heard(f, q) \in Seq(Turns)
  BY <1>2, <1>4 DEF Joins
<1>8. \A q \in Seq(Sayings) : \A x \in Sayings :
         Heard(f, Append(q, x)) = Heard(f, q) \o G[x]
  BY <1>2, <1>4, <1>5 DEF Joins
<1>9. \A q \in Seq(Sayings) : \A s \in Seq(Sayings) :
         Heard(f, q \o s) = Heard(f, q) \o Heard(f, s)
  <2> SUFFICES ASSUME NEW q \in Seq(Sayings), NEW s \in Seq(Sayings)
               PROVE  Heard(f, q \o s) = Heard(f, q) \o Heard(f, s)
    OBVIOUS
  <2>1. Joined(G, q \o s) = Joined(G, q) \o Joined(G, s)
    BY <1>4 DEF Joins
  <2>2. q \o s \in Seq(Sayings)
    BY <1>5
  <2> QED
    BY <1>2, <2>1, <2>2
<1>10. \A x \in Sayings : Heard(f, <<x>>) = G[x]
  BY <1>2, <1>4, <1>5 DEF Joins
<1> QED
  BY <1>3, <1>6, <1>7, <1>8, <1>9, <1>10

PromptOf(r) == IF UserRecord(r) THEN <<TextFromContent(r.parts)>> ELSE <<>>

(* The scan for prompts (codex, claude), record by record. *)
LEMMA PromptsSteps ==
  /\ Prompts(<<>>) = <<>>
  /\ \A q \in Seq(Records) : Prompts(q) \in Seq(Texts)
  /\ \A q \in Seq(Records) : \A x \in Records :
        Prompts(Append(q, x)) = Prompts(q) \o PromptOf(x)
  /\ \A q \in Seq(Records) : \A s \in Seq(Records) :
        Prompts(q \o s) = Prompts(q) \o Prompts(s)
  /\ \A x \in Records : Prompts(<<x>>) = PromptOf(x)
<1> DEFINE G == [x \in Records |-> PromptOf(x)]
<1>1. G \in [Records -> Seq(Texts)]
  <2>1. \A x \in Records : PromptOf(x) \in Seq(Texts)
    <3> SUFFICES ASSUME NEW x \in Records PROVE PromptOf(x) \in Seq(Texts)
      OBVIOUS
    <3>1. TextFromContent(x.parts) \in Texts
      BY RecordParts, TextSteps DEF Texts
    <3> QED
      BY <3>1 DEF PromptOf
  <2> QED
    BY <2>1
<1>2. \A q \in Seq(Records) : Prompts(q) = Joined(G, q)
  <2> SUFFICES ASSUME NEW q \in Seq(Records) PROVE Prompts(q) = Joined(G, q)
    OBVIOUS
  <2>1. \A i \in 1..Len(q) : q[i] \in Records
    OBVIOUS
  <2> QED
    BY <2>1 DEF Prompts, PromptOf, Gathered, Joined
<1>3. \A x \in Records : G[x] = PromptOf(x)
  OBVIOUS
<1> HIDE DEF G
<1>4. Joins(Texts, Records, G)
  BY <1>1, JoinedSteps
<1>5. /\ <<>> \in Seq(Records)
      /\ \A x \in Records : <<x>> \in Seq(Records)
      /\ \A q \in Seq(Records) : \A x \in Records : Append(q, x) \in Seq(Records)
      /\ \A q \in Seq(Records) : \A s \in Seq(Records) : q \o s \in Seq(Records)
  OBVIOUS
<1>6. Prompts(<<>>) = <<>>
  BY <1>2, <1>4, <1>5 DEF Joins
<1>7. \A q \in Seq(Records) : Prompts(q) \in Seq(Texts)
  BY <1>2, <1>4 DEF Joins
<1>8. \A q \in Seq(Records) : \A x \in Records :
         Prompts(Append(q, x)) = Prompts(q) \o G[x]
  BY <1>2, <1>4, <1>5 DEF Joins
<1>9. \A q \in Seq(Records) : \A s \in Seq(Records) :
         Prompts(q \o s) = Prompts(q) \o Prompts(s)
  <2> SUFFICES ASSUME NEW q \in Seq(Records), NEW s \in Seq(Records)
               PROVE  Prompts(q \o s) = Prompts(q) \o Prompts(s)
    OBVIOUS
  <2>1. Joined(G, q \o s) = Joined(G, q) \o Joined(G, s)
    BY <1>4 DEF Joins
  <2>2. q \o s \in Seq(Records)
    BY <1>5
  <2> QED
    BY <1>2, <2>1, <2>2
<1>10. \A x \in Records : Prompts(<<x>>) = G[x]
  BY <1>2, <1>4, <1>5 DEF Joins
<1> QED
  BY <1>3, <1>6, <1>7, <1>8, <1>9, <1>10

(* The rows of the query of OpenCode: a shown part of a message. *)
PartRows == [id : Nat, role : Speakers \cup {"none"}, text : Texts]

RowOfPart(r, p) ==
    IF p.shown THEN <<[id |-> r.id, role |-> r.role, text |-> p.text]>> ELSE <<>>

RowsOf(r, parts) ==
    Gathered(LAMBDA p : IF p.shown
                        THEN <<[id |-> r.id, role |-> r.role, text |-> p.text]>>
                        ELSE <<>>, parts)

(* The rows of the mimo query for one message, part by part. *)
LEMMA RowsSteps ==
  ASSUME NEW r \in Records
  PROVE
  /\ RowsOf(r, <<>>) = <<>>
  /\ \A q \in Seq(Parts) : RowsOf(r, q) \in Seq(PartRows)
  /\ \A q \in Seq(Parts) : \A x \in Parts :
        RowsOf(r, Append(q, x)) = RowsOf(r, q) \o RowOfPart(r, x)
  /\ \A q \in Seq(Parts) : \A s \in Seq(Parts) :
        RowsOf(r, q \o s) = RowsOf(r, q) \o RowsOf(r, s)
  /\ \A x \in Parts : RowsOf(r, <<x>>) = RowOfPart(r, x)
<1> DEFINE G == [x \in Parts |-> RowOfPart(r, x)]
<1>1. G \in [Parts -> Seq(PartRows)]
  <2>1. \A x \in Parts : RowOfPart(r, x) \in Seq(PartRows)
    <3> SUFFICES ASSUME NEW x \in Parts PROVE RowOfPart(r, x) \in Seq(PartRows)
      OBVIOUS
    <3>1. x.text \in Texts /\ r.id \in Nat /\ r.role \in Speakers \cup {"none"}
      BY RecordParts DEF Parts
    <3>2. [id |-> r.id, role |-> r.role, text |-> x.text] \in PartRows
      BY <3>1 DEF PartRows
    <3> QED
      BY <3>2 DEF RowOfPart
  <2> QED
    BY <2>1
<1>2. \A q \in Seq(Parts) : RowsOf(r, q) = Joined(G, q)
  <2> SUFFICES ASSUME NEW q \in Seq(Parts) PROVE RowsOf(r, q) = Joined(G, q)
    OBVIOUS
  <2>1. \A i \in 1..Len(q) : q[i] \in Parts
    OBVIOUS
  <2> QED
    BY <2>1 DEF RowsOf, RowOfPart, Gathered, Joined
<1>3. \A x \in Parts : G[x] = RowOfPart(r, x)
  OBVIOUS
<1> HIDE DEF G
<1>4. Joins(PartRows, Parts, G)
  BY <1>1, JoinedSteps
<1>5. /\ <<>> \in Seq(Parts)
      /\ \A x \in Parts : <<x>> \in Seq(Parts)
      /\ \A q \in Seq(Parts) : \A x \in Parts : Append(q, x) \in Seq(Parts)
      /\ \A q \in Seq(Parts) : \A s \in Seq(Parts) : q \o s \in Seq(Parts)
  OBVIOUS
<1>6. RowsOf(r, <<>>) = <<>>
  BY <1>2, <1>4, <1>5 DEF Joins
<1>7. \A q \in Seq(Parts) : RowsOf(r, q) \in Seq(PartRows)
  BY <1>2, <1>4 DEF Joins
<1>8. \A q \in Seq(Parts) : \A x \in Parts :
         RowsOf(r, Append(q, x)) = RowsOf(r, q) \o G[x]
  BY <1>2, <1>4, <1>5 DEF Joins
<1>9. \A q \in Seq(Parts) : \A s \in Seq(Parts) :
         RowsOf(r, q \o s) = RowsOf(r, q) \o RowsOf(r, s)
  <2> SUFFICES ASSUME NEW q \in Seq(Parts), NEW s \in Seq(Parts)
               PROVE  RowsOf(r, q \o s) = RowsOf(r, q) \o RowsOf(r, s)
    OBVIOUS
  <2>1. Joined(G, q \o s) = Joined(G, q) \o Joined(G, s)
    BY <1>4 DEF Joins
  <2>2. q \o s \in Seq(Parts)
    BY <1>5
  <2> QED
    BY <1>2, <2>1, <2>2
<1>10. \A x \in Parts : RowsOf(r, <<x>>) = G[x]
  BY <1>2, <1>4, <1>5 DEF Joins
<1> QED
  BY <1>3, <1>6, <1>7, <1>8, <1>9, <1>10

(* The rows of the mimo query, message by message. *)
LEMMA MimoPartsSteps ==
  /\ MimoParts(<<>>) = <<>>
  /\ \A q \in Seq(Records) : MimoParts(q) \in Seq(PartRows)
  /\ \A q \in Seq(Records) : \A x \in Records :
        MimoParts(Append(q, x)) = MimoParts(q) \o MimoPartsOf(x)
  /\ \A q \in Seq(Records) : \A s \in Seq(Records) :
        MimoParts(q \o s) = MimoParts(q) \o MimoParts(s)
  /\ \A x \in Records : MimoParts(<<x>>) = MimoPartsOf(x)
<1> DEFINE G == [x \in Records |-> MimoPartsOf(x)]
<1>1. G \in [Records -> Seq(PartRows)]
  <2>1. \A x \in Records : MimoPartsOf(x) \in Seq(PartRows)
    <3> SUFFICES ASSUME NEW x \in Records PROVE MimoPartsOf(x) \in Seq(PartRows)
      OBVIOUS
    <3>1. MimoPartsOf(x) = RowsOf(x, x.parts)
      BY DEF MimoPartsOf, RowsOf
    <3> QED
      BY <3>1, RecordParts, RowsSteps
  <2> QED
    BY <2>1
<1>2. \A q \in Seq(Records) : MimoParts(q) = Joined(G, q)
  <2> SUFFICES ASSUME NEW q \in Seq(Records) PROVE MimoParts(q) = Joined(G, q)
    OBVIOUS
  <2>1. \A i \in 1..Len(q) : q[i] \in Records
    OBVIOUS
  <2> QED
    BY <2>1 DEF MimoParts, Gathered, Joined
<1>3. \A x \in Records : G[x] = MimoPartsOf(x)
  OBVIOUS
<1> HIDE DEF G
<1>4. Joins(PartRows, Records, G)
  BY <1>1, JoinedSteps
<1>5. /\ <<>> \in Seq(Records)
      /\ \A x \in Records : <<x>> \in Seq(Records)
      /\ \A q \in Seq(Records) : \A x \in Records : Append(q, x) \in Seq(Records)
      /\ \A q \in Seq(Records) : \A s \in Seq(Records) : q \o s \in Seq(Records)
  OBVIOUS
<1>6. MimoParts(<<>>) = <<>>
  BY <1>2, <1>4, <1>5 DEF Joins
<1>7. \A q \in Seq(Records) : MimoParts(q) \in Seq(PartRows)
  BY <1>2, <1>4 DEF Joins
<1>8. \A q \in Seq(Records) : \A x \in Records :
         MimoParts(Append(q, x)) = MimoParts(q) \o G[x]
  BY <1>2, <1>4, <1>5 DEF Joins
<1>9. \A q \in Seq(Records) : \A s \in Seq(Records) :
         MimoParts(q \o s) = MimoParts(q) \o MimoParts(s)
  <2> SUFFICES ASSUME NEW q \in Seq(Records), NEW s \in Seq(Records)
               PROVE  MimoParts(q \o s) = MimoParts(q) \o MimoParts(s)
    OBVIOUS
  <2>1. Joined(G, q \o s) = Joined(G, q) \o Joined(G, s)
    BY <1>4 DEF Joins
  <2>2. q \o s \in Seq(Records)
    BY <1>5
  <2> QED
    BY <1>2, <2>1, <2>2
<1>10. \A x \in Records : MimoParts(<<x>>) = G[x]
  BY <1>2, <1>4, <1>5 DEF Joins
<1> QED
  BY <1>3, <1>6, <1>7, <1>8, <1>9, <1>10

UserText(row) == IF row.role = "user" THEN <<row.text>> ELSE <<>>

UserTexts(parts) ==
    Gathered(LAMBDA p : IF p.role = "user" THEN <<p.text>> ELSE <<>>, parts)

(* The rows of the user's messages, row by row. *)
LEMMA UserTextsSteps ==
  /\ UserTexts(<<>>) = <<>>
  /\ \A q \in Seq(PartRows) : UserTexts(q) \in Seq(Texts)
  /\ \A q \in Seq(PartRows) : \A x \in PartRows :
        UserTexts(Append(q, x)) = UserTexts(q) \o UserText(x)
  /\ \A q \in Seq(PartRows) : \A s \in Seq(PartRows) :
        UserTexts(q \o s) = UserTexts(q) \o UserTexts(s)
  /\ \A x \in PartRows : UserTexts(<<x>>) = UserText(x)
<1> DEFINE G == [x \in PartRows |-> UserText(x)]
<1>1. G \in [PartRows -> Seq(Texts)]
  <2>1. \A x \in PartRows : UserText(x) \in Seq(Texts)
    BY DEF UserText, PartRows
  <2> QED
    BY <2>1
<1>2. \A q \in Seq(PartRows) : UserTexts(q) = Joined(G, q)
  <2> SUFFICES ASSUME NEW q \in Seq(PartRows) PROVE UserTexts(q) = Joined(G, q)
    OBVIOUS
  <2>1. \A i \in 1..Len(q) : q[i] \in PartRows
    OBVIOUS
  <2> QED
    BY <2>1 DEF UserTexts, UserText, Gathered, Joined
<1>3. \A x \in PartRows : G[x] = UserText(x)
  OBVIOUS
<1> HIDE DEF G
<1>4. Joins(Texts, PartRows, G)
  BY <1>1, JoinedSteps
<1>5. /\ <<>> \in Seq(PartRows)
      /\ \A x \in PartRows : <<x>> \in Seq(PartRows)
      /\ \A q \in Seq(PartRows) : \A x \in PartRows : Append(q, x) \in Seq(PartRows)
      /\ \A q \in Seq(PartRows) : \A s \in Seq(PartRows) : q \o s \in Seq(PartRows)
  OBVIOUS
<1>6. UserTexts(<<>>) = <<>>
  BY <1>2, <1>4, <1>5 DEF Joins
<1>7. \A q \in Seq(PartRows) : UserTexts(q) \in Seq(Texts)
  BY <1>2, <1>4 DEF Joins
<1>8. \A q \in Seq(PartRows) : \A x \in PartRows :
         UserTexts(Append(q, x)) = UserTexts(q) \o G[x]
  BY <1>2, <1>4, <1>5 DEF Joins
<1>9. \A q \in Seq(PartRows) : \A s \in Seq(PartRows) :
         UserTexts(q \o s) = UserTexts(q) \o UserTexts(s)
  <2> SUFFICES ASSUME NEW q \in Seq(PartRows), NEW s \in Seq(PartRows)
               PROVE  UserTexts(q \o s) = UserTexts(q) \o UserTexts(s)
    OBVIOUS
  <2>1. Joined(G, q \o s) = Joined(G, q) \o Joined(G, s)
    BY <1>4 DEF Joins
  <2>2. q \o s \in Seq(PartRows)
    BY <1>5
  <2> QED
    BY <1>2, <2>1, <2>2
<1>10. \A x \in PartRows : UserTexts(<<x>>) = G[x]
  BY <1>2, <1>4, <1>5 DEF Joins
<1> QED
  BY <1>3, <1>6, <1>7, <1>8, <1>9, <1>10

(* The turns along a line of parents, entry by entry. *)
LEMMA PiTurnsSteps ==
  ASSUME NEW records \in Seq(Records)
  PROVE
  /\ PiTurns(records, <<>>) = <<>>
  /\ \A q \in Seq((1..Len(records))) : PiTurns(records, q) \in Seq(Turns)
  /\ \A q \in Seq((1..Len(records))) : \A x \in (1..Len(records)) :
        PiTurns(records, Append(q, x)) = PiTurns(records, q) \o TurnOf(records[x])
  /\ \A q \in Seq((1..Len(records))) : \A s \in Seq((1..Len(records))) :
        PiTurns(records, q \o s) = PiTurns(records, q) \o PiTurns(records, s)
  /\ \A x \in (1..Len(records)) : PiTurns(records, <<x>>) = TurnOf(records[x])
<1> DEFINE G == [x \in (1..Len(records)) |-> TurnOf(records[x])]
<1>1. G \in [(1..Len(records)) -> Seq(Turns)]
  <2>1. \A x \in 1..Len(records) : TurnOf(records[x]) \in Seq(Turns)
    <3>1. \A x \in 1..Len(records) : records[x] \in Records
      OBVIOUS
    <3> QED
      BY <3>1, TurnType
  <2> QED
    BY <2>1
<1>2. \A q \in Seq((1..Len(records))) : PiTurns(records, q) = Joined(G, q)
  <2> SUFFICES ASSUME NEW q \in Seq((1..Len(records))) PROVE PiTurns(records, q) = Joined(G, q)
    OBVIOUS
  <2>1. \A i \in 1..Len(q) : q[i] \in (1..Len(records))
    OBVIOUS
  <2> QED
    BY <2>1 DEF PiTurns, Gathered, Joined
<1>3. \A x \in (1..Len(records)) : G[x] = TurnOf(records[x])
  OBVIOUS
<1> HIDE DEF G
<1>4. Joins(Turns, (1..Len(records)), G)
  BY <1>1, JoinedSteps
<1>5. /\ <<>> \in Seq((1..Len(records)))
      /\ \A x \in (1..Len(records)) : <<x>> \in Seq((1..Len(records)))
      /\ \A q \in Seq((1..Len(records))) : \A x \in (1..Len(records)) : Append(q, x) \in Seq((1..Len(records)))
      /\ \A q \in Seq((1..Len(records))) : \A s \in Seq((1..Len(records))) : q \o s \in Seq((1..Len(records)))
  OBVIOUS
<1>6. PiTurns(records, <<>>) = <<>>
  BY <1>2, <1>4, <1>5 DEF Joins
<1>7. \A q \in Seq((1..Len(records))) : PiTurns(records, q) \in Seq(Turns)
  BY <1>2, <1>4 DEF Joins
<1>8. \A q \in Seq((1..Len(records))) : \A x \in (1..Len(records)) :
         PiTurns(records, Append(q, x)) = PiTurns(records, q) \o G[x]
  BY <1>2, <1>4, <1>5 DEF Joins
<1>9. \A q \in Seq((1..Len(records))) : \A s \in Seq((1..Len(records))) :
         PiTurns(records, q \o s) = PiTurns(records, q) \o PiTurns(records, s)
  <2> SUFFICES ASSUME NEW q \in Seq((1..Len(records))), NEW s \in Seq((1..Len(records)))
               PROVE  PiTurns(records, q \o s) = PiTurns(records, q) \o PiTurns(records, s)
    OBVIOUS
  <2>1. Joined(G, q \o s) = Joined(G, q) \o Joined(G, s)
    BY <1>4 DEF Joins
  <2>2. q \o s \in Seq((1..Len(records)))
    BY <1>5
  <2> QED
    BY <1>2, <2>1, <2>2
<1>10. \A x \in (1..Len(records)) : PiTurns(records, <<x>>) = G[x]
  BY <1>2, <1>4, <1>5 DEF Joins
<1> QED
  BY <1>3, <1>6, <1>7, <1>8, <1>9, <1>10

(* What is left of a wrapped prompt is a text. *)
LEMMA AntigravityTextType ==
  ASSUME NEW content \in Texts
  PROVE  AntigravityUserText(content) \in Texts
<1> DEFINE body == Tail(content)
           ends == {i \in 1..Len(body) :
                      /\ body[i] = "close"
                      /\ i = Len(body) \/ body[i + 1] = "block"}
<1>1. CASE ~StartsWith(content, {"open"}) \/ ends = {}
  BY <1>1 DEF AntigravityUserText
<1>2. CASE StartsWith(content, {"open"}) /\ ends # {}
  <2>1. content # <<>> /\ content \in Seq(Marks)
    BY <1>2 DEF StartsWith, Texts
  <2>2. body \in Seq(Marks) /\ Len(body) \in Nat
    BY <2>1
  <2>3. ends \in SUBSET (1..Len(body)) /\ ends # {}
    BY <1>2
  <2>4. Latest(ends) \in 1..Len(body)
    <3> HIDE DEF body, ends
    <3> QED
      BY <2>2, <2>3, LatestIs
  <2>5. SubSeq(body, 1, Latest(ends) - 1) \in Seq(Marks)
    <3> HIDE DEF body, ends
    <3> QED
      BY <2>2, <2>4
  <2>6. AntigravityUserText(content) = SubSeq(body, 1, Latest(ends) - 1)
    BY <1>2 DEF AntigravityUserText
  <2> QED
    BY <2>5, <2>6 DEF Texts
<1> QED
  BY <1>1, <1>2

(* A step of an Antigravity session makes turns that are kept. *)
LEMMA AntigravityType ==
  ASSUME NEW r \in Records
  PROVE  AntigravityTurn(r) \in Seq(Turns)
<1>1. CASE r.role # "user"
  BY <1>1, TurnType DEF AntigravityTurn
<1>2. CASE r.role = "user"
  <2> DEFINE text == TextFromContent(r.parts)
             part == Part(AntigravityUserText(text), TRUE)
             s == [r EXCEPT !.parts = <<part>>]
  <2>1. text \in Texts
    BY RecordParts, TextSteps DEF Texts
  <2>2. AntigravityUserText(text) \in Texts
    BY <2>1, AntigravityTextType
  <2>3. part \in Parts
    BY <2>2 DEF Parts, Part
  <2>4. r \in Messages
    BY <1>2, RecordParts DEF Speakers
  <2>5. s \in Messages
    <3> HIDE DEF part
    <3>1. <<part>> \in Seq(Parts)
      BY <2>3
    <3> QED
      BY <2>4, <3>1 DEF Messages
  <2>6. AntigravityTurn(r) = TurnOf(s)
    BY <1>2 DEF AntigravityTurn
  <2> HIDE DEF s
  <2> QED
    BY <2>5, <2>6, TurnType DEF Records
<1> QED
  BY <1>1, <1>2

(* The transcript of an Antigravity session, step by step. *)
LEMMA AntigravitySteps ==
  /\ AntigravityTranscript(<<>>) = <<>>
  /\ \A q \in Seq(Records) : AntigravityTranscript(q) \in Seq(Turns)
  /\ \A q \in Seq(Records) : \A x \in Records :
        AntigravityTranscript(Append(q, x)) = AntigravityTranscript(q) \o AntigravityTurn(x)
  /\ \A q \in Seq(Records) : \A s \in Seq(Records) :
        AntigravityTranscript(q \o s) = AntigravityTranscript(q) \o AntigravityTranscript(s)
  /\ \A x \in Records : AntigravityTranscript(<<x>>) = AntigravityTurn(x)
<1> DEFINE G == [x \in Records |-> AntigravityTurn(x)]
<1>1. G \in [Records -> Seq(Turns)]
  BY AntigravityType
<1>2. \A q \in Seq(Records) : AntigravityTranscript(q) = Joined(G, q)
  <2> SUFFICES ASSUME NEW q \in Seq(Records) PROVE AntigravityTranscript(q) = Joined(G, q)
    OBVIOUS
  <2>1. \A i \in 1..Len(q) : q[i] \in Records
    OBVIOUS
  <2> QED
    BY <2>1 DEF AntigravityTranscript, Gathered, Joined
<1>3. \A x \in Records : G[x] = AntigravityTurn(x)
  OBVIOUS
<1> HIDE DEF G
<1>4. Joins(Turns, Records, G)
  BY <1>1, JoinedSteps
<1>5. /\ <<>> \in Seq(Records)
      /\ \A x \in Records : <<x>> \in Seq(Records)
      /\ \A q \in Seq(Records) : \A x \in Records : Append(q, x) \in Seq(Records)
      /\ \A q \in Seq(Records) : \A s \in Seq(Records) : q \o s \in Seq(Records)
  OBVIOUS
<1>6. AntigravityTranscript(<<>>) = <<>>
  BY <1>2, <1>4, <1>5 DEF Joins
<1>7. \A q \in Seq(Records) : AntigravityTranscript(q) \in Seq(Turns)
  BY <1>2, <1>4 DEF Joins
<1>8. \A q \in Seq(Records) : \A x \in Records :
         AntigravityTranscript(Append(q, x)) = AntigravityTranscript(q) \o G[x]
  BY <1>2, <1>4, <1>5 DEF Joins
<1>9. \A q \in Seq(Records) : \A s \in Seq(Records) :
         AntigravityTranscript(q \o s) = AntigravityTranscript(q) \o AntigravityTranscript(s)
  <2> SUFFICES ASSUME NEW q \in Seq(Records), NEW s \in Seq(Records)
               PROVE  AntigravityTranscript(q \o s) = AntigravityTranscript(q) \o AntigravityTranscript(s)
    OBVIOUS
  <2>1. Joined(G, q \o s) = Joined(G, q) \o Joined(G, s)
    BY <1>4 DEF Joins
  <2>2. q \o s \in Seq(Records)
    BY <1>5
  <2> QED
    BY <1>2, <2>1, <2>2
<1>10. \A x \in Records : AntigravityTranscript(<<x>>) = G[x]
  BY <1>2, <1>4, <1>5 DEF Joins
<1> QED
  BY <1>3, <1>6, <1>7, <1>8, <1>9, <1>10

GeminiTurns(messages) == Gathered(GeminiTurn, messages)

(* The turns of a Gemini conversation, message by message. *)
LEMMA GeminiTurnsSteps ==
  /\ GeminiTurns(<<>>) = <<>>
  /\ \A q \in Seq(Messages) : GeminiTurns(q) \in Seq(Turns)
  /\ \A q \in Seq(Messages) : \A x \in Messages :
        GeminiTurns(Append(q, x)) = GeminiTurns(q) \o GeminiTurn(x)
  /\ \A q \in Seq(Messages) : \A s \in Seq(Messages) :
        GeminiTurns(q \o s) = GeminiTurns(q) \o GeminiTurns(s)
  /\ \A x \in Messages : GeminiTurns(<<x>>) = GeminiTurn(x)
<1> DEFINE G == [x \in Messages |-> GeminiTurn(x)]
<1>1. G \in [Messages -> Seq(Turns)]
  <2>1. \A x \in Messages : GeminiTurn(x) \in Seq(Turns)
    BY TurnType DEF GeminiTurn, Records
  <2> QED
    BY <2>1
<1>2. \A q \in Seq(Messages) : GeminiTurns(q) = Joined(G, q)
  <2> SUFFICES ASSUME NEW q \in Seq(Messages) PROVE GeminiTurns(q) = Joined(G, q)
    OBVIOUS
  <2>1. \A i \in 1..Len(q) : q[i] \in Messages
    OBVIOUS
  <2> QED
    BY <2>1 DEF GeminiTurns, Gathered, Joined
<1>3. \A x \in Messages : G[x] = GeminiTurn(x)
  OBVIOUS
<1> HIDE DEF G
<1>4. Joins(Turns, Messages, G)
  BY <1>1, JoinedSteps
<1>5. /\ <<>> \in Seq(Messages)
      /\ \A x \in Messages : <<x>> \in Seq(Messages)
      /\ \A q \in Seq(Messages) : \A x \in Messages : Append(q, x) \in Seq(Messages)
      /\ \A q \in Seq(Messages) : \A s \in Seq(Messages) : q \o s \in Seq(Messages)
  OBVIOUS
<1>6. GeminiTurns(<<>>) = <<>>
  BY <1>2, <1>4, <1>5 DEF Joins
<1>7. \A q \in Seq(Messages) : GeminiTurns(q) \in Seq(Turns)
  BY <1>2, <1>4 DEF Joins
<1>8. \A q \in Seq(Messages) : \A x \in Messages :
         GeminiTurns(Append(q, x)) = GeminiTurns(q) \o G[x]
  BY <1>2, <1>4, <1>5 DEF Joins
<1>9. \A q \in Seq(Messages) : \A s \in Seq(Messages) :
         GeminiTurns(q \o s) = GeminiTurns(q) \o GeminiTurns(s)
  <2> SUFFICES ASSUME NEW q \in Seq(Messages), NEW s \in Seq(Messages)
               PROVE  GeminiTurns(q \o s) = GeminiTurns(q) \o GeminiTurns(s)
    OBVIOUS
  <2>1. Joined(G, q \o s) = Joined(G, q) \o Joined(G, s)
    BY <1>4 DEF Joins
  <2>2. q \o s \in Seq(Messages)
    BY <1>5
  <2> QED
    BY <1>2, <2>1, <2>2
<1>10. \A x \in Messages : GeminiTurns(<<x>>) = G[x]
  BY <1>2, <1>4, <1>5 DEF Joins
<1> QED
  BY <1>3, <1>6, <1>7, <1>8, <1>9, <1>10

-----------------------------------------------------------------------------
(* Joining single elements gives them back. *)
LEMMA FlattenSingles ==
  ASSUME NEW A, NEW q \in Seq(A)
  PROVE  FlattenSeq([i \in 1..Len(q) |-> <<q[i]>>]) = q
<1> DEFINE F == [x \in A |-> <<x>>]
           S == {s \in Seq(A) : Joined(F, s) = s}
<1>1. F \in [A -> Seq(A)] /\ \A x \in A : F[x] = <<x>>
  OBVIOUS
<1> HIDE DEF F
<1>2. Joins(A, A, F)
  BY <1>1, JoinedSteps
<1>3. <<>> \in S
  <2>1. <<>> \in Seq(A)
    OBVIOUS
  <2> QED
    BY <1>2, <2>1 DEF Joins
<1>4. ASSUME NEW s \in Seq(A), NEW x \in A, s \in S PROVE Append(s, x) \in S
  <2>1. Joined(F, Append(s, x)) = s \o <<x>>
    BY <1>1, <1>2, <1>4 DEF Joins
  <2>2. Append(s, x) = s \o <<x>> /\ Append(s, x) \in Seq(A)
    OBVIOUS
  <2> QED
    BY <2>1, <2>2
<1>5. q \in S
  <2>1. \A s \in Seq(A) : \A x \in A : s \in S => Append(s, x) \in S
    BY <1>4
  <2> HIDE DEF S
  <2>2. Seq(A) \subseteq S
    BY <1>3, <2>1, AllSequences
  <2> QED
    BY <2>2
<1>6. [i \in 1..Len(q) |-> F[q[i]]] = [i \in 1..Len(q) |-> <<q[i]>>]
  <2>1. \A i \in 1..Len(q) : F[q[i]] = <<q[i]>>
    BY <1>1
  <2> QED
    BY <2>1
<1> QED
  BY <1>5, <1>6 DEF Joined

(* The conversation that some turns are. *)
Retold(turns) ==
    [i \in 1..Len(turns) |->
       [id |-> i, role |-> turns[i].role, text |-> turns[i].text]]

(* A turn of a transcript has a text, and a prompt is not injected          *)
(* context.                                                                 *)
LEMMA TurnFacts ==
  ASSUME NEW t \in Turns
  PROVE  /\ t.role \in Speakers /\ t.text \in Texts /\ t.text # <<>>
         /\ Turn(t.role, t.text) = t
         /\ t.role = "user" => UsefulUserText(t.text) /\ t.text[1] # "context"
         /\ KeepTranscriptTurn(t.role, t.text)
<1>1. t \in [role : Speakers, text : Texts] /\ KeepTranscriptTurn(t.role, t.text)
  BY DEF Turns
<1>2. t.role \in Speakers /\ t.text \in Texts /\ Turn(t.role, t.text) = t
  BY <1>1 DEF Turn
<1>3. t.text # <<>> /\ (t.role = "user" => UsefulUserText(t.text))
  BY <1>1 DEF KeepTranscriptTurn
<1>4. Head(t.text) = t.text[1]
  BY <1>2, <1>3 DEF Texts
<1>5. t.role = "user" => t.text[1] # "context"
  BY <1>3, <1>4 DEF UsefulUserText, StartsWith
<1> QED
  BY <1>1, <1>2, <1>3, <1>5

(* A conversation that is told from turns gives these turns again. *)
LEMMA RetoldIsHeard ==
  ASSUME NEW f, f # "gemini", NEW turns \in Seq(Turns)
  PROVE  Heard(f, Retold(turns)) = turns
<1> DEFINE s(i) == [id |-> i, role |-> turns[i].role, text |-> turns[i].text]
<1>1. ASSUME NEW i \in 1..Len(turns)
      PROVE  HeardOf(f, s(i)) = <<turns[i]>>
  <2>1. turns[i] \in Turns
    OBVIOUS
  <2>2. Transferable(f, s(i))
    BY <2>1, TurnFacts DEF Transferable
  <2> QED
    BY <2>1, <2>2, TurnFacts DEF HeardOf
<1>2. Len(Retold(turns)) = Len(turns)
  BY DEF Retold
<1>3. \A i \in 1..Len(turns) : Retold(turns)[i] = s(i)
  BY DEF Retold
<1>4. [i \in 1..Len(turns) |-> HeardOf(f, Retold(turns)[i])]
        = [i \in 1..Len(turns) |-> <<turns[i]>>]
  BY <1>1, <1>3
<1>5. Heard(f, Retold(turns))
        = FlattenSeq([i \in 1..Len(turns) |-> HeardOf(f, Retold(turns)[i])])
  BY <1>2 DEF Heard, Gathered, HeardOf
<1> QED
  BY <1>4, <1>5, FlattenSingles

(* The conversation that Convert starts with, saying by saying. *)
LEMMA RetoldType ==
  ASSUME NEW turns \in Seq(Turns)
  PROVE  /\ Retold(turns) \in Seq(Sayings) /\ Len(Retold(turns)) = Len(turns)
         /\ \A i \in 1..Len(turns) :
               /\ Retold(turns)[i].id = i
               /\ Retold(turns)[i].role = turns[i].role
               /\ Retold(turns)[i].text = turns[i].text
<1> DEFINE s(i) == [id |-> i, role |-> turns[i].role, text |-> turns[i].text]
<1>1. Len(turns) \in Nat
  OBVIOUS
<1>2. ASSUME NEW i \in 1..Len(turns) PROVE s(i) \in Sayings
  <2>1. turns[i] \in Turns /\ i \in Nat
    OBVIOUS
  <2> QED
    BY <2>1, TurnFacts DEF Sayings
<1>3. Retold(turns) = [i \in 1..Len(turns) |-> s(i)]
  BY DEF Retold
<1>4. Retold(turns) \in Seq(Sayings)
  <2> HIDE DEF s
  <2> QED
    BY <1>1, <1>2, <1>3, IsASeq
<1> QED
  BY <1>1, <1>4 DEF Retold

(* The message a turn is written as. *)
LEMMA ChainedType ==
  ASSUME NEW turns \in Seq(Turns)
  PROVE  /\ Chained(turns) \in Seq(Messages) /\ Len(Chained(turns)) = Len(turns)
         /\ \A i \in 1..Len(turns) :
               /\ Chained(turns)[i] \in Messages
               /\ Chained(turns)[i].id = i /\ Chained(turns)[i].parent = i - 1
               /\ Chained(turns)[i].role = turns[i].role
               /\ Chained(turns)[i].parts = <<Part(turns[i].text, TRUE)>>
               /\ Chained(turns)[i].kind = "message"
               /\ Part(turns[i].text, TRUE) \in Parts
               /\ TextFromContent(Chained(turns)[i].parts) = turns[i].text
               /\ TurnOf(Chained(turns)[i]) = <<turns[i]>>
<1> DEFINE m(i) == Message(i, i - 1, turns[i].role, <<Part(turns[i].text, TRUE)>>)
<1>1. Len(turns) \in Nat
  OBVIOUS
<1>2. ASSUME NEW i \in 1..Len(turns)
      PROVE  /\ m(i) \in Messages /\ m(i).id = i /\ m(i).parent = i - 1
             /\ m(i).role = turns[i].role /\ m(i).kind = "message"
             /\ m(i).parts = <<Part(turns[i].text, TRUE)>>
             /\ Part(turns[i].text, TRUE) \in Parts
             /\ TextFromContent(m(i).parts) = turns[i].text
             /\ TurnOf(m(i)) = <<turns[i]>>
  <2> DEFINE part == Part(turns[i].text, TRUE)
  <2>1. turns[i] \in Turns /\ i \in Nat /\ i - 1 \in Nat
    OBVIOUS
  <2>2. part \in Parts /\ ShownText(part) = turns[i].text
    BY <2>1, TurnFacts DEF Part, Parts, ShownText
  <2>3. m(i).parts = <<part>> /\ m(i).role = turns[i].role /\ m(i).id = i
        /\ m(i).parent = i - 1 /\ m(i).kind = "message" /\ m(i).body = <<>>
    BY DEF Message, Record
  <2>4. m(i) \in Messages
    <3> HIDE DEF part
    <3>1. <<part>> \in Seq(Parts)
      BY <2>2
    <3>2. turns[i].role \in Speakers
      BY <2>1, TurnFacts
    <3>3. m(i) = Message(i, i - 1, turns[i].role, <<part>>)
      BY DEF part
    <3> QED
      BY <2>1, <3>1, <3>2, <3>3 DEF Messages, Message, Record
  <2>5. TextFromContent(m(i).parts) = turns[i].text
    <3> HIDE DEF part
    <3> QED
      BY <2>2, <2>3, TextSteps
  <2>6. TurnOf(m(i)) = <<turns[i]>>
    <3> HIDE DEF m
    <3> QED
      BY <2>1, <2>3, <2>5, TurnFacts DEF TurnOf
  <2> QED
    BY <2>2, <2>3, <2>4, <2>5, <2>6
<1>3. Chained(turns) = [i \in 1..Len(turns) |-> m(i)]
  BY DEF Chained
<1> HIDE DEF m
<1>4. Chained(turns) \in Seq(Messages)
  <2>1. \A i \in 1..Len(turns) : m(i) \in Messages
    BY <1>2
  <2> QED
    BY <1>1, <1>3, <2>1
<1>5. Len(Chained(turns)) = Len(turns)
  BY <1>1, <1>3
<1> SUFFICES ASSUME NEW i \in 1..Len(turns)
             PROVE  /\ Chained(turns)[i] \in Messages
                    /\ Chained(turns)[i].id = i
                    /\ Chained(turns)[i].parent = i - 1
                    /\ Chained(turns)[i].role = turns[i].role
                    /\ Chained(turns)[i].parts = <<Part(turns[i].text, TRUE)>>
                    /\ Chained(turns)[i].kind = "message"
                    /\ Part(turns[i].text, TRUE) \in Parts
                    /\ TextFromContent(Chained(turns)[i].parts) = turns[i].text
                    /\ TurnOf(Chained(turns)[i]) = <<turns[i]>>
  BY <1>4, <1>5
<1>6. Chained(turns)[i] = m(i)
  BY <1>3
<1> QED
  BY <1>2, <1>6

(* Messages are records. *)
LEMMA MessagesAreRecords == Messages \subseteq Records
  BY DEF Records

(* The messages that the writers chain give the turns again. *)
LEMMA TurnsOfChained ==
  ASSUME NEW turns \in Seq(Turns)
  PROVE  Chained(turns) \in Seq(Records) /\ TurnsOf(Chained(turns)) = turns
<1>1. Chained(turns) \in Seq(Records)
  <2>1. Chained(turns) \in Seq(Messages)
    BY ChainedType
  <2> QED
    BY <2>1, MessagesAreRecords, SeqMonotonic
<1>2. TurnsOf(Chained(turns))
        = FlattenSeq([i \in 1..Len(turns) |-> TurnOf(Chained(turns)[i])])
  BY ChainedType DEF TurnsOf, Gathered
<1>3. [i \in 1..Len(turns) |-> TurnOf(Chained(turns)[i])]
        = [i \in 1..Len(turns) |-> <<turns[i]>>]
  BY ChainedType
<1> QED
  BY <1>1, <1>2, <1>3, FlattenSingles

(* The id of a record is at most its place, and none is over the limit. *)
Numbered(records) ==
    \A j \in 1..Len(records) : records[j].id <= j /\ records[j].kind # "long"

(* A record that says nothing. *)
LEMMA OtherType ==
  ASSUME NEW kind \in {"tool", "long", "rewind", "snapshot", "meta", "event",
                       "permission-mode", "system"},
         NEW id \in Nat, NEW parent \in Nat
  PROVE  /\ Other(kind, id, parent) \in Records
         /\ Other(kind, id, parent).kind = kind /\ Other(kind, id, parent).id = id
         /\ Other(kind, id, parent).parts = <<>>
         /\ Other(kind, id, parent).role = "none"
         /\ TurnOf(Other(kind, id, parent)) = <<>>
<1> DEFINE r == Other(kind, id, parent)
<1>1. /\ r.kind = kind /\ r.id = id /\ r.parts = <<>> /\ r.role = "none"
      /\ r = [kind |-> kind, id |-> id, parent |-> parent, role |-> "none",
              parts |-> <<>>, body |-> <<>>]
  BY DEF Other, Record
<1>2. <<>> \in Seq(Messages)
  OBVIOUS
<1>3. r \in Records
  BY <1>1, <1>2 DEF Records
<1>4. TurnOf(r) = <<>>
  BY <1>1 DEF TurnOf
<1> QED
  BY <1>1, <1>3, <1>4

(* A record in front that says nothing. *)
LEMMA InFront ==
  ASSUME NEW r \in Records, r.id = 0, r.kind # "long", TurnOf(r) = <<>>,
         NEW records \in Seq(Records), Numbered(records)
  PROVE  /\ <<r>> \o records \in Seq(Records) /\ <<r>> \o records # <<>>
         /\ Numbered(<<r>> \o records)
         /\ TurnsOf(<<r>> \o records) = TurnsOf(records)
<1> DEFINE all == <<r>> \o records
<1>1. <<r>> \in Seq(Records)
  OBVIOUS
<1>2. /\ all \in Seq(Records) /\ Len(all) = Len(records) + 1 /\ all[1] = r
      /\ \A j \in 2..Len(records) + 1 : all[j] = records[j - 1]
  BY <1>1
<1>3. Numbered(all)
  <2> SUFFICES ASSUME NEW j \in 1..Len(records) + 1
               PROVE  all[j].id <= j /\ all[j].kind # "long"
    BY <1>2 DEF Numbered
  <2>1. CASE j = 1
    BY <1>2, <2>1
  <2>2. CASE j # 1
    <3>1. j \in 2..Len(records) + 1 /\ j - 1 \in 1..Len(records)
      BY <2>2
    <3>2. all[j] = records[j - 1]
      BY <1>2, <3>1
    <3>3. records[j - 1].id <= j - 1 /\ records[j - 1].kind # "long"
      BY <3>1 DEF Numbered
    <3>4. records[j - 1].id \in Nat
      <4>1. records[j - 1] \in Records
        BY <3>1
      <4> QED
        BY <4>1, RecordParts
    <3> HIDE DEF all
    <3> QED
      BY <3>1, <3>2, <3>3, <3>4
  <2> QED
    BY <2>1, <2>2
<1>4. TurnsOf(all) = <<>> \o TurnsOf(records)
  <2>1. TurnsOf(<<r>> \o records) = TurnsOf(<<r>>) \o TurnsOf(records)
    BY <1>1, TurnsSteps
  <2>2. TurnsOf(<<r>>) = TurnOf(r)
    BY TurnsSteps
  <2>3. TurnsOf(<<r>>) = <<>>
    BY <2>2
  <2> QED
    BY <2>1, <2>3
<1>5. <<>> \o TurnsOf(records) = TurnsOf(records)
  <2>1. TurnsOf(records) \in Seq(Turns)
    BY TurnsSteps
  <2> QED
    BY <2>1, ConcatEmptySeq
<1>6. all # <<>>
  BY <1>2
<1> QED
  BY <1>2, <1>3, <1>4, <1>5, <1>6

(* Chained messages are numbered from 1. *)
LEMMA ChainedNumbered ==
  ASSUME NEW turns \in Seq(Turns)
  PROVE  Numbered(Chained(turns))
<1>1. \A i \in 1..Len(turns) : /\ Chained(turns)[i].id = i
                               /\ Chained(turns)[i].kind = "message"
  BY ChainedType
<1>2. Len(Chained(turns)) = Len(turns)
  BY ChainedType
<1> QED
  BY <1>1, <1>2 DEF Numbered

(* WriteCodex: the events between the messages. *)
Pairs(turns) == [i \in 1..Len(turns) |-> <<Chained(turns)[i], Other("event", i, i)>>]

(* Codex's pairs of an item and an event give each turn once. *)
LEMMA PairsRead ==
  ASSUME NEW turns \in Seq(Turns)
  PROVE  /\ FlattenSeq(Pairs(turns)) \in Seq(Records)
         /\ Numbered(FlattenSeq(Pairs(turns)))
         /\ TurnsOf(FlattenSeq(Pairs(turns))) = turns
<1> DEFINE n == Len(turns)
           seqs == Pairs(turns)
<1>1. n \in Nat
  OBVIOUS
<1>2. ASSUME NEW i \in 1..n
      PROVE  /\ Chained(turns)[i] \in Records /\ Chained(turns)[i].id = i
             /\ Chained(turns)[i].kind = "message"
             /\ TurnOf(Chained(turns)[i]) = <<turns[i]>>
             /\ Other("event", i, i) \in Records
             /\ Other("event", i, i).id = i /\ Other("event", i, i).kind = "event"
             /\ TurnOf(Other("event", i, i)) = <<>>
             /\ turns[i] \in Turns
             /\ seqs[i] = <<Chained(turns)[i], Other("event", i, i)>>
  <2>1. i \in Nat /\ turns[i] \in Turns
    OBVIOUS
  <2>2. /\ Chained(turns)[i] \in Records /\ Chained(turns)[i].id = i
        /\ Chained(turns)[i].kind = "message"
        /\ TurnOf(Chained(turns)[i]) = <<turns[i]>>
    BY ChainedType, MessagesAreRecords
  <2>3. /\ Other("event", i, i) \in Records
        /\ Other("event", i, i).id = i /\ Other("event", i, i).kind = "event"
        /\ TurnOf(Other("event", i, i)) = <<>>
    BY <2>1, OtherType
  <2>4. seqs[i] = <<Chained(turns)[i], Other("event", i, i)>>
    BY DEF Pairs
  <2> QED
    BY <2>1, <2>2, <2>3, <2>4
<1>3. seqs \in Seq(Seq(Records)) /\ Len(seqs) = n
  <2>1. \A i \in 1..n : <<Chained(turns)[i], Other("event", i, i)>> \in Seq(Records)
    BY <1>2
  <2> QED
    BY <1>1, <2>1 DEF Pairs
<1> HIDE DEF seqs
<1>4. PICK g \in [0..n -> Seq(Records)] :
         /\ g[0] = <<>>
         /\ \A k \in 1..n : g[k] = g[k - 1] \o seqs[k]
         /\ FlattenSeq(seqs) = g[n]
  <2>1. \E g \in [0..Len(seqs) -> Seq(Records)] :
           /\ g[0] = <<>>
           /\ \A k \in 1..Len(seqs) : g[k] = g[k - 1] \o seqs[k]
           /\ FlattenSeq(seqs) = g[Len(seqs)]
    BY <1>3, FlattenSteps
  <2> QED
    BY <1>3, <2>1
<1> DEFINE Fine(k) == /\ Len(g[k]) = 2 * k /\ Numbered(g[k])
                      /\ TurnsOf(g[k]) = SubSeq(turns, 1, k)
           S == {k \in 0..n : Fine(k)}
<1>5. 0 \in S
  <2>1. Len(g[0]) = 0 /\ Numbered(g[0])
    BY <1>4 DEF Numbered
  <2>2. SubSeq(turns, 1, 0) = <<>>
    OBVIOUS
  <2> QED
    BY <1>1, <1>4, <2>1, <2>2, TurnsSteps
<1>6. ASSUME NEW k \in 0..n - 1, k \in S PROVE k + 1 \in S
  <2> DEFINE m == Chained(turns)[k + 1]
             e == Other("event", k + 1, k + 1)
  <2>1. /\ k \in Nat /\ k + 1 \in 1..n /\ (k + 1) - 1 = k /\ k \in 0..n
        /\ k + 1 \in 0..n
    BY <1>1
  <2>2. /\ m \in Records /\ m.id = k + 1 /\ m.kind = "message"
        /\ TurnOf(m) = <<turns[k + 1]>>
        /\ e \in Records /\ e.id = k + 1 /\ e.kind = "event" /\ TurnOf(e) = <<>>
        /\ seqs[k + 1] = <<m, e>> /\ turns[k + 1] \in Turns
    BY <1>2, <2>1
  <2> HIDE DEF m, e, Fine
  <2>3. g[k] \in Seq(Records) /\ Fine(k)
    BY <1>4, <1>6, <2>1
  <2>4. g[k + 1] = g[k] \o <<m, e>>
    BY <1>4, <2>1, <2>2
  <2>5. g[k + 1] = Append(Append(g[k], m), e)
    BY <2>2, <2>3, <2>4
  <2>6. /\ Len(g[k + 1]) = 2 * (k + 1)
        /\ \A j \in 1..2 * k : g[k + 1][j] = g[k][j]
        /\ g[k + 1][2 * k + 1] = m /\ g[k + 1][2 * k + 2] = e
    BY <2>1, <2>2, <2>3, <2>5 DEF Fine
  <2>7. Numbered(g[k + 1])
    <3> SUFFICES ASSUME NEW j \in 1..2 * k + 2
                 PROVE  g[k + 1][j].id <= j /\ g[k + 1][j].kind # "long"
      BY <2>6 DEF Numbered
    <3>1. CASE j \in 1..2 * k
      BY <2>3, <2>6, <3>1 DEF Fine, Numbered
    <3>2. CASE j = 2 * k + 1
      BY <2>1, <2>2, <2>6, <3>2
    <3>3. CASE j = 2 * k + 2
      BY <2>1, <2>2, <2>6, <3>3
    <3>4. j \in 1..2 * k \/ j = 2 * k + 1 \/ j = 2 * k + 2
      BY <2>1
    <3> QED
      BY <3>1, <3>2, <3>3, <3>4
  <2>8. TurnsOf(g[k + 1]) = SubSeq(turns, 1, k + 1)
    <3>1. Append(g[k], m) \in Seq(Records)
      BY <2>2, <2>3
    <3>2. TurnsOf(g[k + 1]) = TurnsOf(Append(g[k], m)) \o <<>>
      BY <2>2, <2>5, <3>1, TurnsSteps
    <3>3. TurnsOf(Append(g[k], m)) = SubSeq(turns, 1, k) \o <<turns[k + 1]>>
      BY <2>2, <2>3, TurnsSteps DEF Fine
    <3>4. TurnsOf(Append(g[k], m)) \in Seq(Turns)
      BY <3>1, TurnsSteps
    <3>5. TurnsOf(g[k + 1]) = SubSeq(turns, 1, k) \o <<turns[k + 1]>>
      BY <3>2, <3>3, <3>4, ConcatEmptySeq
    <3>6. SubSeq(turns, 1, k) \o <<turns[k + 1]>> = SubSeq(turns, 1, k + 1)
      BY <2>1
    <3> QED
      BY <3>5, <3>6
  <2>9. Fine(k + 1)
    BY <2>6, <2>7, <2>8 DEF Fine
  <2> QED
    BY <2>1, <2>9
<1>7. Fine(n)
  <2>1. \A k \in 0..n - 1 : k \in S => k + 1 \in S
    BY <1>6
  <2> HIDE DEF S
  <2>2. 0..n \subseteq S
    <3> HIDE DEF n
    <3> QED
      BY <1>1, <1>5, <2>1, UpTo
  <2>3. n \in 0..n
    BY <1>1
  <2> QED
    BY <2>2, <2>3 DEF S
<1>8. SubSeq(turns, 1, n) = turns
  OBVIOUS
<1>9. FlattenSeq(seqs) \in Seq(Records)
  BY <1>1, <1>4
<1> QED
  BY <1>4, <1>7, <1>8, <1>9 DEF seqs

(* A written session, but of Gemini, is read as the turns it was made of. *)
LEMMA WrittenIsRead ==
  ASSUME NEW turns \in Seq(Turns), turns # <<>>, NEW target \in Targets \ {"gemini"}
  PROVE  LET records == WriteConverted(target, turns)
         IN /\ records \in Seq(Records) /\ records # <<>> /\ Numbered(records)
            /\ TurnsOf(records) = turns
<1>1. Chained(turns) \in Seq(Records) /\ TurnsOf(Chained(turns)) = turns
  BY TurnsOfChained
<1>2. Numbered(Chained(turns)) /\ Chained(turns) # <<>>
  <2>1. Len(Chained(turns)) # 0
    <3>1. Len(turns) # 0
      BY EmptySeq
    <3> QED
      BY <3>1, ChainedType
  <2> QED
    BY <2>1, ChainedNumbered
<1>3. CASE target = "codex"
  <2> DEFINE meta == Other("meta", 0, 0)
  <2>1. meta \in Records /\ meta.id = 0 /\ meta.kind # "long" /\ TurnOf(meta) = <<>>
    BY OtherType
  <2>2. WriteConverted(target, turns) = <<meta>> \o FlattenSeq(Pairs(turns))
    BY <1>3 DEF WriteConverted, WriteCodex, Pairs
  <2> HIDE DEF meta
  <2> QED
    BY <2>1, <2>2, PairsRead, InFront
<1>4. CASE target = "claude"
  <2> DEFINE meta == Other("permission-mode", 0, 0)
  <2>1. meta \in Records /\ meta.id = 0 /\ meta.kind # "long" /\ TurnOf(meta) = <<>>
    BY OtherType
  <2>2. WriteConverted(target, turns) = <<meta>> \o Chained(turns)
    BY <1>4 DEF WriteConverted, WriteClaude
  <2> HIDE DEF meta
  <2> QED
    BY <1>1, <1>2, <2>1, <2>2, InFront
<1>5. CASE target = "jcode"
  <2> DEFINE meta == Other("system", 0, 0)
  <2>1. meta \in Records /\ meta.id = 0 /\ meta.kind # "long" /\ TurnOf(meta) = <<>>
    BY OtherType
  <2>2. WriteConverted(target, turns) = <<meta>> \o Chained(turns)
    BY <1>5 DEF WriteConverted, WriteJCode
  <2> HIDE DEF meta
  <2> QED
    BY <1>1, <1>2, <2>1, <2>2, InFront
<1>6. CASE target \in {"pi", "opencode", "mimo"}
  <2>1. WriteConverted(target, turns) = Chained(turns)
    BY <1>6 DEF WriteConverted, WritePi, WriteOpenCode
  <2> QED
    BY <1>1, <1>2, <2>1
<1> QED
  BY <1>3, <1>4, <1>5, <1>6 DEF Targets, Formats

-----------------------------------------------------------------------------
(* Rows and transcripts. *)
LEMMA TextsOfSteps ==
  /\ TextsOf(<<>>) = <<>>
  /\ \A q \in Seq(Turns) : TextsOf(q) \in Seq(Texts) /\ Len(TextsOf(q)) = Len(q)
  /\ \A q \in Seq(Turns) : \A i \in 1..Len(q) : TextsOf(q)[i] = q[i].text
  /\ \A q, s \in Seq(Turns) : TextsOf(q \o s) = TextsOf(q) \o TextsOf(s)
  /\ \A t \in Turns : TextsOf(<<t>>) = <<t.text>>
<1>1. TextsOf(<<>>) = <<>>
  BY DEF TextsOf
<1>2. ASSUME NEW q \in Seq(Turns)
      PROVE  /\ TextsOf(q) \in Seq(Texts) /\ Len(TextsOf(q)) = Len(q)
             /\ \A i \in 1..Len(q) : TextsOf(q)[i] = q[i].text
  <2>1. \A i \in 1..Len(q) : q[i].text \in Texts
    <3>1. \A i \in 1..Len(q) : q[i] \in Turns
      OBVIOUS
    <3> QED
      BY <3>1, TurnFacts
  <2>2. Len(q) \in Nat
    OBVIOUS
  <2> QED
    BY <2>1, <2>2 DEF TextsOf
<1>3. ASSUME NEW q \in Seq(Turns), NEW s \in Seq(Turns)
      PROVE  TextsOf(q \o s) = TextsOf(q) \o TextsOf(s)
  <2> DEFINE one == TextsOf(q \o s)
             two == TextsOf(q) \o TextsOf(s)
  <2>1. /\ q \o s \in Seq(Turns) /\ Len(q \o s) = Len(q) + Len(s)
        /\ \A i \in 1..Len(q) : (q \o s)[i] = q[i]
        /\ \A i \in Len(q) + 1..Len(q) + Len(s) : (q \o s)[i] = s[i - Len(q)]
        /\ Len(q) \in Nat /\ Len(s) \in Nat
    OBVIOUS
  <2>2. one \in Seq(Texts) /\ Len(one) = Len(q) + Len(s)
    BY <1>2, <2>1
  <2>3. /\ TextsOf(q) \in Seq(Texts) /\ Len(TextsOf(q)) = Len(q)
        /\ TextsOf(s) \in Seq(Texts) /\ Len(TextsOf(s)) = Len(s)
    BY <1>2
  <2>4. /\ two \in Seq(Texts) /\ Len(two) = Len(q) + Len(s)
        /\ \A i \in 1..Len(q) : two[i] = TextsOf(q)[i]
        /\ \A i \in Len(q) + 1..Len(q) + Len(s) : two[i] = TextsOf(s)[i - Len(q)]
    BY <2>3
  <2> HIDE DEF two
  <2>5. ASSUME NEW i \in 1..Len(q) + Len(s) PROVE one[i] = two[i]
    <3>1. one[i] = (q \o s)[i].text
      BY <1>2, <2>1
    <3>2. CASE i \in 1..Len(q)
      BY <1>2, <2>1, <2>4, <3>1, <3>2
    <3>3. CASE i \in Len(q) + 1..Len(q) + Len(s)
      <4>1. i - Len(q) \in 1..Len(s)
        BY <2>1, <3>3
      <4> QED
        BY <1>2, <2>1, <2>4, <3>1, <3>3, <4>1
    <3> QED
      BY <2>1, <3>2, <3>3
  <2>6. one = two
    <3> HIDE DEF one
    <3> QED
      BY <2>2, <2>4, <2>5, SeqEqual
  <2> QED
    BY <2>6 DEF two
<1>4. ASSUME NEW t \in Turns PROVE TextsOf(<<t>>) = <<t.text>>
  BY DEF TextsOf
<1> QED
  BY <1>1, <1>2, <1>3, <1>4

(* The head and tail scans find the prompts of the transcript. *)
LEMMA PromptsAreUsers ==
  ASSUME NEW records \in Seq(Records)
  PROVE  Prompts(records) = TextsOf(Users(TurnsOf(records)))
<1> DEFINE S == {q \in Seq(Records) : Prompts(q) = TextsOf(Users(TurnsOf(q)))}
<1>1. <<>> \in S
  <2>1. <<>> \in Seq(Records)
    OBVIOUS
  <2> QED
    BY <2>1, PromptsSteps, TurnsSteps, UsersSteps, TextsOfSteps
<1>2. ASSUME NEW r \in Records PROVE PromptOf(r) = TextsOf(Users(TurnOf(r)))
  <2> DEFINE text == TextFromContent(r.parts)
             t == Turn(r.role, text)
  <2>0. text \in Texts /\ t.role = r.role /\ t.text = text
    BY RecordParts, TextSteps DEF Turn, Texts
  <2>1. CASE r.kind = "message" /\ KeepTranscriptTurn(r.role, text)
    <3>1. TurnOf(r) = <<t>>
      BY <2>1 DEF TurnOf
    <3>2. t \in Turns
      <4>1. <<t>> \in Seq(Turns)
        BY <3>1, TurnType
      <4>2. <<t>>[1] \in Turns
        BY <4>1
      <4> QED
        BY <4>2
    <3>3. Users(TurnOf(r)) = UserTurn(t)
      BY <3>1, <3>2, UsersSteps
    <3>4. CASE r.role = "user"
      <4>1. UserRecord(r)
        BY <2>1, <3>4 DEF UserRecord, KeepTranscriptTurn
      <4> HIDE DEF t
      <4>2. TextsOf(Users(TurnOf(r))) = <<text>>
        BY <2>0, <3>2, <3>3, <3>4, TextsOfSteps DEF UserTurn
      <4> QED
        BY <4>1, <4>2 DEF PromptOf
    <3>5. CASE r.role # "user"
      <4>1. ~UserRecord(r)
        BY <3>5 DEF UserRecord
      <4> HIDE DEF t
      <4>2. Users(TurnOf(r)) = <<>>
        BY <2>0, <3>3, <3>5 DEF UserTurn
      <4> QED
        BY <4>1, <4>2, TextsOfSteps DEF PromptOf
    <3> QED
      BY <3>4, <3>5
  <2>2. CASE ~(r.kind = "message" /\ KeepTranscriptTurn(r.role, text))
    <3>1. TurnOf(r) = <<>>
      BY <2>2 DEF TurnOf
    <3>2. ~UserRecord(r)
      BY <2>2 DEF UserRecord, KeepTranscriptTurn, UsefulUserText
    <3> QED
      BY <3>1, <3>2, UsersSteps, TextsOfSteps DEF PromptOf
  <2> QED
    BY <2>1, <2>2
<1>3. ASSUME NEW q \in Seq(Records), NEW r \in Records, q \in S
      PROVE  Append(q, r) \in S
  <2>1. Append(q, r) \in Seq(Records)
    OBVIOUS
  <2>2. TurnsOf(q) \in Seq(Turns) /\ TurnOf(r) \in Seq(Turns)
    BY TurnsSteps, TurnType
  <2>3. Users(TurnsOf(q)) \in Seq(Turns) /\ Users(TurnOf(r)) \in Seq(Turns)
    BY <2>2, UsersSteps
  <2>4. Users(TurnsOf(Append(q, r))) = Users(TurnsOf(q)) \o Users(TurnOf(r))
    BY <2>2, TurnsSteps, UsersSteps
  <2>5. TextsOf(Users(TurnsOf(Append(q, r))))
          = TextsOf(Users(TurnsOf(q))) \o TextsOf(Users(TurnOf(r)))
    BY <2>3, <2>4, TextsOfSteps
  <2>6. Prompts(Append(q, r)) = Prompts(q) \o PromptOf(r)
    BY PromptsSteps
  <2>7. Prompts(q) = TextsOf(Users(TurnsOf(q)))
    BY <1>3
  <2> QED
    BY <1>2, <2>1, <2>5, <2>6, <2>7
<1>4. Seq(Records) \subseteq S
  <2>1. \A q \in Seq(Records) : \A r \in Records : q \in S => Append(q, r) \in S
    BY <1>3
  <2> HIDE DEF S
  <2> QED
    BY <1>1, <2>1, AllSequences
<1> QED
  BY <1>4

(* Where there are only prompts, all of them are users'. *)
LEMMA NoReplyAllUsers ==
  ASSUME NEW messages \in Seq(Messages),
         \A i \in DOMAIN messages :
            ~(messages[i].role = "assistant" /\ messages[i].parts # <<>>)
  PROVE  Users(GeminiTurns(messages)) = GeminiTurns(messages)
<1> DEFINE B == {m \in Messages : ~(m.role = "assistant" /\ m.parts # <<>>)}
           S == {q \in Seq(B) : Users(GeminiTurns(q)) = GeminiTurns(q)}
<1>1. <<>> \in S
  <2>1. <<>> \in Seq(B)
    OBVIOUS
  <2> QED
    BY <2>1, GeminiTurnsSteps, UsersSteps
<1>2. ASSUME NEW m \in B PROVE Users(GeminiTurn(m)) = GeminiTurn(m)
  <2> DEFINE text == TextFromContent(m.parts)
             t == Turn(m.role, text)
  <2>0. m \in Records /\ m \in Messages
    BY MessagesAreRecords
  <2>1. GeminiTurn(m) = <<>> \/ (GeminiTurn(m) = <<t>> /\ TurnOf(m) = <<t>> /\ text # <<>>)
    BY DEF GeminiTurn, TurnOf, KeepTranscriptTurn
  <2>2. CASE GeminiTurn(m) = <<>>
    BY <2>2, UsersSteps
  <2>3. CASE GeminiTurn(m) = <<t>> /\ TurnOf(m) = <<t>> /\ text # <<>>
    <3>1. t \in Turns
      <4>1. <<t>> \in Seq(Turns)
        BY <2>0, <2>3, TurnType
      <4>2. <<t>>[1] \in Turns
        BY <4>1
      <4> QED
        BY <4>2
    <3>2. m.parts # <<>>
      BY <2>3, TextSteps
    <3>3. m.role \in Speakers /\ t.role = m.role
      BY <2>0 DEF Messages, Turn
    <3>4. t.role = "user"
      BY <3>2, <3>3 DEF Speakers
    <3> HIDE DEF t
    <3>5. Users(<<t>>) = <<t>>
      BY <3>1, <3>4, UsersSteps DEF UserTurn
    <3> QED
      BY <2>3, <3>5
  <2> QED
    BY <2>1, <2>2, <2>3
<1>3. ASSUME NEW q \in Seq(B), NEW m \in B, q \in S PROVE Append(q, m) \in S
  <2>1. Append(q, m) \in Seq(B)
    OBVIOUS
  <2>2. q \in Seq(Messages) /\ m \in Messages
    <3>1. B \subseteq Messages
      OBVIOUS
    <3> HIDE DEF B
    <3> QED
      BY <3>1, SeqMonotonic
  <2>3. GeminiTurn(m) \in Seq(Turns)
    BY <2>2, TurnType DEF GeminiTurn, Records
  <2>4. GeminiTurns(q) \in Seq(Turns)
    BY <2>2, GeminiTurnsSteps
  <2>5. GeminiTurns(Append(q, m)) = GeminiTurns(q) \o GeminiTurn(m)
    BY <2>2, GeminiTurnsSteps
  <2>6. Users(GeminiTurns(q)) = GeminiTurns(q)
    BY <1>3
  <2>7. Users(GeminiTurns(q) \o GeminiTurn(m))
          = Users(GeminiTurns(q)) \o Users(GeminiTurn(m))
    BY <2>3, <2>4, UsersSteps
  <2> QED
    BY <1>2, <2>1, <2>5, <2>6, <2>7
<1>4. Seq(B) \subseteq S
  <2>1. \A q \in Seq(B) : \A m \in B : q \in S => Append(q, m) \in S
    BY <1>3
  <2> HIDE DEF S, B
  <2> QED
    BY <1>1, <2>1, AllSequences
<1>5. messages \in Seq(B)
  <2>1. \A i \in 1..Len(messages) : messages[i] \in B
    OBVIOUS
  <2> HIDE DEF B
  <2> QED
    BY <2>1
<1> QED
  BY <1>4, <1>5

-----------------------------------------------------------------------------
(* The beginning and the end of a sequence. *)
LEMMA PrefixIs ==
  ASSUME NEW A, NEW s \in Seq(A), NEW u \in Seq(A)
  PROVE  IsPrefix(s, s \o u)
<1>1. Len(s) <= Len(s \o u) /\ SubSeq(s, 1, Len(s)) = SubSeq(s \o u, 1, Len(s))
  OBVIOUS
<1> QED
  BY <1>1 DEF IsPrefix

(* Reverse of a sequence, element by element. *)
LEMMA ReverseIs ==
  ASSUME NEW A, NEW s \in Seq(A)
  PROVE  /\ Reverse(s) \in Seq(A) /\ Len(Reverse(s)) = Len(s)
         /\ \A i \in 1..Len(s) : Reverse(s)[i] = s[(Len(s) - i) + 1]
<1>1. Len(s) \in Nat /\ \A i \in 1..Len(s) : s[(Len(s) - i) + 1] \in A
  OBVIOUS
<1>2. Reverse(s) = [i \in 1..Len(s) |-> s[(Len(s) - i) + 1]]
  BY DEF Reverse
<1>3. Reverse(s) \in [1..Len(s) -> A]
  BY <1>1, <1>2
<1>4. Reverse(s) \in Seq(A) /\ Len(Reverse(s)) = Len(s)
  BY <1>1, <1>3
<1>5. \A i \in 1..Len(s) : Reverse(s)[i] = s[(Len(s) - i) + 1]
  BY <1>2
<1> QED
  BY <1>4, <1>5

(* What ends a concatenation is a suffix of it. *)
LEMMA SuffixIs ==
  ASSUME NEW A, NEW s \in Seq(A), NEW u \in Seq(A)
  PROVE  IsSuffix(s, u \o s)
<1> DEFINE t == u \o s
           n == Len(s)
<1>1. /\ t \in Seq(A) /\ Len(t) = Len(u) + n /\ n \in Nat /\ Len(u) \in Nat
      /\ \A i \in Len(u) + 1..Len(u) + n : t[i] = s[i - Len(u)]
  OBVIOUS
<1> HIDE DEF t
<1>2. ASSUME NEW i \in 1..n PROVE Reverse(t)[i] = Reverse(s)[i]
  <2>1. Reverse(t)[i] = t[(Len(t) - i) + 1] /\ Reverse(s)[i] = s[(n - i) + 1]
    <3>1. \A j \in 1..Len(t) : Reverse(t)[j] = t[(Len(t) - j) + 1]
      BY <1>1, ReverseIs
    <3>2. \A j \in 1..Len(s) : Reverse(s)[j] = s[(Len(s) - j) + 1]
      BY ReverseIs
    <3>3. i \in 1..Len(t)
      BY <1>1
    <3> QED
      BY <3>1, <3>2, <3>3
  <2>2. (Len(t) - i) + 1 \in Len(u) + 1..Len(u) + n
        /\ ((Len(t) - i) + 1) - Len(u) = (n - i) + 1
    BY <1>1
  <2> QED
    BY <1>1, <2>1, <2>2
<1>3. /\ Reverse(s) \in Seq(A) /\ Len(Reverse(s)) = n
      /\ Reverse(t) \in Seq(A) /\ Len(Reverse(t)) = Len(u) + n
  BY <1>1, ReverseIs
<1>4. SubSeq(Reverse(s), 1, n) = SubSeq(Reverse(t), 1, n)
  <2> DEFINE a == Reverse(s)
             b == Reverse(t)
  <2> HIDE DEF a, b, n
  <2>1. /\ SubSeq(a, 1, n) \in Seq(A) /\ SubSeq(b, 1, n) \in Seq(A)
        /\ Len(SubSeq(a, 1, n)) = n /\ Len(SubSeq(b, 1, n)) = n
        /\ \A i \in 1..n : SubSeq(a, 1, n)[i] = a[i] /\ SubSeq(b, 1, n)[i] = b[i]
    BY <1>1, <1>3 DEF a, b
  <2>2. \A i \in 1..n : a[i] = b[i]
    BY <1>2 DEF a, b, n
  <2>3. SubSeq(a, 1, n) = SubSeq(b, 1, n)
    BY <2>1, <2>2, SeqEqual
  <2> QED
    BY <2>3 DEF a, b
<1> QED
  BY <1>1, <1>3, <1>4 DEF IsSuffix, IsPrefix, t

(* A suffix leaves a front. *)
LEMMA SuffixHas ==
  ASSUME NEW A, NEW s \in Seq(A), NEW t \in Seq(A), IsSuffix(s, t)
  PROVE  \E u \in Seq(A) : t = u \o s
<1> DEFINE n == Len(s)
           m == Len(t)
           u == SubSeq(t, 1, m - n)
<1>1. /\ n \in Nat /\ m \in Nat
      /\ Reverse(s) \in Seq(A) /\ Len(Reverse(s)) = n
      /\ Reverse(t) \in Seq(A) /\ Len(Reverse(t)) = m
  BY ReverseIs
<1>2. n <= m /\ SubSeq(Reverse(s), 1, n) = SubSeq(Reverse(t), 1, n)
  BY <1>1 DEF IsSuffix, IsPrefix
<1>3. ASSUME NEW i \in 1..n PROVE Reverse(s)[i] = Reverse(t)[i]
  <2> DEFINE a == Reverse(s)
             b == Reverse(t)
  <2>1. SubSeq(a, 1, n)[i] = SubSeq(b, 1, n)[i]
    BY <1>2
  <2> HIDE DEF a, b, n, m
  <2>2. SubSeq(a, 1, n)[i] = a[i] /\ SubSeq(b, 1, n)[i] = b[i]
    BY <1>1, <1>2 DEF a, b
  <2> QED
    BY <2>1, <2>2 DEF a, b
<1>4. ASSUME NEW j \in m - n + 1..m PROVE t[j] = s[j - (m - n)]
  <2>1. (m - j) + 1 \in 1..n /\ (m - j) + 1 \in 1..m
    BY <1>1, <1>2
  <2>2. Reverse(t)[(m - j) + 1] = t[(m - ((m - j) + 1)) + 1]
        /\ Reverse(s)[(m - j) + 1] = s[(n - ((m - j) + 1)) + 1]
    BY <2>1, ReverseIs
  <2>3. (m - ((m - j) + 1)) + 1 = j /\ (n - ((m - j) + 1)) + 1 = j - (m - n)
    BY <1>1
  <2> QED
    BY <1>3, <2>1, <2>2, <2>3
<1>5. /\ u \in Seq(A) /\ Len(u) = m - n
      /\ \A j \in 1..m - n : u[j] = t[j]
  BY <1>1, <1>2
<1> HIDE DEF u
<1>6. /\ u \o s \in Seq(A) /\ Len(u \o s) = m
      /\ \A j \in 1..m : (u \o s)[j] = IF j <= m - n THEN u[j] ELSE s[j - (m - n)]
  BY <1>1, <1>2, <1>5
<1>7. ASSUME NEW j \in 1..m PROVE t[j] = (u \o s)[j]
  <2>1. CASE j <= m - n
    BY <1>1, <1>2, <1>5, <1>6, <2>1
  <2>2. CASE ~(j <= m - n)
    <3>1. j \in m - n + 1..m
      BY <1>1, <1>2, <2>2
    <3> QED
      BY <1>4, <1>6, <2>2, <3>1
  <2> QED
    BY <2>1, <2>2
<1>8. t = u \o s
  <2> DEFINE v == u \o s
  <2>1. v \in Seq(A) /\ Len(v) = m /\ \A j \in 1..m : t[j] = v[j]
    BY <1>6, <1>7
  <2> HIDE DEF v
  <2>2. t = v
    BY <2>1, SeqEqual
  <2> QED
    BY <2>2 DEF v
<1> QED
  BY <1>5, <1>8

-----------------------------------------------------------------------------
(* The shown parts of a prompt: the first begins its text, the last ends it. *)
PartsOfText(texts, parts) ==
    LET text == TextFromContent(parts)
    IN IF texts = <<>> THEN text = <<>>
       ELSE /\ \E u \in Texts : text = texts[1] \o u
            /\ \E u \in Texts : text = u \o texts[Len(texts)]
            /\ \E j \in 1..Len(parts) :
                  parts[j].shown /\ parts[j].text = texts[Len(texts)]

(* The shown parts of a prompt are pieces of its text, the first at its     *)
(* front and the last at its end.                                           *)
LEMMA PromptParts ==
  ASSUME NEW r \in Records, r.role = "user"
  PROVE  PartsOfText(UserTexts(RowsOf(r, r.parts)), r.parts)
<1> DEFINE V(q) == UserTexts(RowsOf(r, q))
           S == {q \in Seq(Parts) : PartsOfText(V(q), q)}
<1>1. <<>> \in S
  <2>1. <<>> \in Seq(Parts) /\ V(<<>>) = <<>>
    BY RowsSteps, UserTextsSteps
  <2> HIDE DEF V
  <2> QED
    BY <2>1, TextSteps DEF PartsOfText
<1>2. ASSUME NEW q \in Seq(Parts) PROVE V(q) \in Seq(Texts)
  <2>1. RowsOf(r, q) \in Seq(PartRows)
    BY RowsSteps
  <2> QED
    BY <2>1, UserTextsSteps
<1>3. ASSUME NEW q \in Seq(Parts), NEW p \in Parts
      PROVE  V(Append(q, p)) = IF p.shown THEN Append(V(q), p.text) ELSE V(q)
  <2> DEFINE row == [id |-> r.id, role |-> r.role, text |-> p.text]
  <2>1. RowsOf(r, q) \in Seq(PartRows)
    BY RowsSteps
  <2>2. RowsOf(r, Append(q, p)) = RowsOf(r, q) \o RowOfPart(r, p)
    BY RowsSteps
  <2>3. CASE p.shown
    <3>1. row \in PartRows /\ row.role = "user" /\ row.text = p.text
      BY RecordParts DEF PartRows, Parts
    <3>2. RowOfPart(r, p) = <<row>>
      BY <2>3 DEF RowOfPart
    <3> HIDE DEF row
    <3>3. RowsOf(r, Append(q, p)) = Append(RowsOf(r, q), row)
      BY <2>1, <2>2, <3>1, <3>2
    <3>4. V(Append(q, p)) = V(q) \o UserText(row)
      BY <2>1, <3>1, <3>3, UserTextsSteps
    <3>5. UserText(row) = <<p.text>> /\ p.text \in Texts
      BY <3>1 DEF UserText, Parts
    <3>6. V(q) \o <<p.text>> = Append(V(q), p.text)
      <4> HIDE DEF V
      <4> QED
        BY <1>2, <3>5
    <3> QED
      BY <2>3, <3>4, <3>5, <3>6
  <2>4. CASE ~p.shown
    <3>1. RowOfPart(r, p) = <<>>
      BY <2>4 DEF RowOfPart
    <3>2. RowsOf(r, Append(q, p)) = RowsOf(r, q)
      BY <2>1, <2>2, <3>1, ConcatEmptySeq
    <3> QED
      BY <2>4, <3>2
  <2> QED
    BY <2>3, <2>4
<1> HIDE DEF V
<1>4. ASSUME NEW q \in Seq(Parts), NEW p \in Parts, q \in S
      PROVE  Append(q, p) \in S
  <2> DEFINE text == TextFromContent(q)
  <2>1. /\ Append(q, p) \in Seq(Parts) /\ Len(Append(q, p)) = Len(q) + 1
        /\ \A j \in 1..Len(q) : Append(q, p)[j] = q[j]
        /\ Append(q, p)[Len(q) + 1] = p /\ Len(q) \in Nat
    OBVIOUS
  <2>2. /\ text \in Texts /\ p.text \in Texts /\ V(q) \in Seq(Texts)
        /\ TextFromContent(Append(q, p)) = text \o ShownText(p)
    BY <1>2, TextSteps DEF Texts, Parts
  <2>3. PartsOfText(V(q), q)
    BY <1>4
  <2>4. CASE ~p.shown
    <3>1. TextFromContent(Append(q, p)) = text /\ V(Append(q, p)) = V(q)
      BY <1>3, <2>2, <2>4, ConcatEmptySeq DEF ShownText, Texts
    <3>2. PartsOfText(V(q), Append(q, p))
      <4>1. CASE V(q) = <<>>
        BY <2>3, <3>1, <4>1 DEF PartsOfText
      <4>2. CASE V(q) # <<>>
        <5>1. PICK j \in 1..Len(q) : q[j].shown /\ q[j].text = V(q)[Len(V(q))]
          BY <2>3, <4>2 DEF PartsOfText
        <5>2. j \in 1..Len(Append(q, p)) /\ Append(q, p)[j] = q[j]
          BY <2>1
        <5>3. \E i \in 1..Len(Append(q, p)) :
                 Append(q, p)[i].shown /\ Append(q, p)[i].text = V(q)[Len(V(q))]
          BY <5>1, <5>2
        <5> QED
          BY <2>3, <3>1, <4>2, <5>3 DEF PartsOfText
      <4> QED
        BY <4>1, <4>2
    <3> QED
      BY <2>1, <3>1, <3>2
  <2>5. CASE p.shown
    <3> DEFINE vs == V(q)
               now == Append(vs, p.text)
               all == text \o p.text
    <3>1. TextFromContent(Append(q, p)) = all /\ V(Append(q, p)) = now
      BY <1>3, <2>2, <2>5 DEF ShownText
    <3>2. /\ now # <<>> /\ now[Len(now)] = p.text
          /\ vs # <<>> => now[1] = vs[1]
          /\ vs = <<>> => now[1] = p.text
      <4>1. vs \in Seq(Texts) /\ p.text \in Texts
        BY <2>2
      <4> HIDE DEF vs, text
      <4>2. now \in Seq(Texts) /\ Len(now) = Len(vs) + 1 /\ now[Len(vs) + 1] = p.text
        BY <4>1
      <4>3. vs # <<>> => now[1] = vs[1]
        BY <4>1
      <4>4. vs = <<>> => now[1] = p.text
        BY <4>1
      <4>5. now # <<>>
        BY <4>1
      <4> QED
        BY <4>2, <4>3, <4>4, <4>5
    <3> HIDE DEF now, vs
    <3>3. \E u \in Texts : all = now[1] \o u
      <4>1. CASE vs = <<>>
        <5>1. text = <<>>
          BY <2>3, <4>1 DEF PartsOfText, vs
        <5>2. all = p.text \o <<>> /\ <<>> \in Texts
          BY <2>2, <5>1, ConcatEmptySeq DEF Texts
        <5> QED
          BY <3>2, <4>1, <5>2
      <4>2. CASE vs # <<>>
        <5>1. PICK u \in Texts : text = vs[1] \o u
          BY <2>3, <4>2 DEF PartsOfText, vs
        <5>2. vs[1] \in Seq(Marks) /\ u \in Seq(Marks) /\ p.text \in Seq(Marks)
          BY <2>2, <4>2 DEF Texts, vs
        <5>3. (vs[1] \o u) \o p.text = vs[1] \o (u \o p.text)
          <6>1. \A a, b, c \in Seq(Marks) : (a \o b) \o c = a \o (b \o c)
            OBVIOUS
          <6> QED
            BY <5>2, <6>1
        <5> HIDE DEF text
        <5>4. u \o p.text \in Texts
          BY <5>2 DEF Texts
        <5> QED
          BY <3>2, <4>2, <5>1, <5>3, <5>4
      <4> QED
        BY <4>1, <4>2
    <3>4. \E u \in Texts : all = u \o now[Len(now)]
      BY <2>2, <3>2
    <3>5. \E j \in 1..Len(Append(q, p)) :
             Append(q, p)[j].shown /\ Append(q, p)[j].text = now[Len(now)]
      BY <2>1, <2>5, <3>2
    <3>6. PartsOfText(now, Append(q, p))
      BY <3>1, <3>2, <3>3, <3>4, <3>5 DEF PartsOfText
    <3> QED
      BY <2>1, <3>1, <3>6
  <2> QED
    BY <2>4, <2>5
<1>5. Seq(Parts) \subseteq S
  <2>1. \A q \in Seq(Parts) : \A p \in Parts : q \in S => Append(q, p) \in S
    BY <1>4
  <2> HIDE DEF S
  <2> QED
    BY <1>1, <2>1, AllSequences
<1>6. r.parts \in S
  BY <1>5, RecordParts
<1> QED
  BY <1>6 DEF V

(* The first and the last of the texts of the query, where they are of use, *)
(* begin and end a prompt of the transcript.                                *)
Finds(texts, users) ==
    texts # <<>> =>
       /\ UsefulUserText(texts[1]) =>
             \E i \in 1..Len(users) : \E u \in Texts : users[i].text = texts[1] \o u
       /\ UsefulUserText(texts[Len(texts)]) =>
             \E i \in 1..Len(users) : \E u \in Texts :
                users[i].text = u \o texts[Len(texts)]

(* If the query finds the prompts of two runs of records, it finds those    *)
(* of both.                                                                 *)
LEMMA FindsBoth ==
  ASSUME NEW a \in Seq(Texts), NEW b \in Seq(Texts),
         NEW s \in Seq(Turns), NEW t \in Seq(Turns),
         Finds(a, s), Finds(b, t)
  PROVE  Finds(a \o b, s \o t)
<1> DEFINE ab == a \o b
           st == s \o t
<1>1. /\ Len(s) \in Nat /\ Len(t) \in Nat /\ Len(st) = Len(s) + Len(t)
      /\ \A i \in 1..Len(s) : st[i] = s[i]
      /\ \A i \in 1..Len(t) : st[Len(s) + i] = t[i]
  <2>1. \A i \in Len(s) + 1..Len(s) + Len(t) : st[i] = t[i - Len(s)]
    OBVIOUS
  <2>2. ASSUME NEW i \in 1..Len(t) PROVE st[Len(s) + i] = t[i]
    <3>1. Len(s) + i \in Len(s) + 1..Len(s) + Len(t) /\ (Len(s) + i) - Len(s) = i
      OBVIOUS
    <3> QED
      BY <2>1, <3>1
  <2> QED
    BY <2>2
<1>2. /\ a # <<>> => ab[1] = a[1]
      /\ a = <<>> => ab = b
      /\ b # <<>> => ab[Len(ab)] = b[Len(b)]
      /\ b = <<>> => ab = a
  <2>1. a # <<>> => ab[1] = a[1]
    OBVIOUS
  <2>2. b # <<>> => ab[Len(ab)] = b[Len(b)]
    <3> SUFFICES ASSUME b # <<>> PROVE ab[Len(ab)] = b[Len(b)]
      OBVIOUS
    <3>1. /\ Len(ab) = Len(a) + Len(b) /\ Len(a) \in Nat /\ Len(b) \in Nat
          /\ Len(b) # 0
          /\ \A i \in Len(a) + 1..Len(a) + Len(b) : ab[i] = b[i - Len(a)]
      OBVIOUS
    <3>2. (Len(a) + Len(b)) - Len(a) = Len(b)
      BY <3>1
    <3> HIDE DEF ab
    <3> QED
      BY <3>1, <3>2
  <2>3. a = <<>> => ab = b
    BY ConcatEmptySeq
  <2>4. b = <<>> => ab = a
    BY ConcatEmptySeq
  <2> QED
    BY <2>1, <2>2, <2>3, <2>4
<1> HIDE DEF ab, st
<1>3. ASSUME ab # <<>>, UsefulUserText(ab[1])
      PROVE  \E i \in 1..Len(st) : \E u \in Texts : st[i].text = ab[1] \o u
  <2>1. CASE a # <<>>
    <3>1. PICK i \in 1..Len(s), u \in Texts : s[i].text = a[1] \o u
      BY <1>2, <1>3, <2>1 DEF Finds
    <3>2. i \in 1..Len(st) /\ st[i] = s[i]
      BY <1>1
    <3> QED
      BY <1>2, <2>1, <3>1, <3>2
  <2>2. CASE a = <<>>
    <3>1. PICK i \in 1..Len(t), u \in Texts : t[i].text = b[1] \o u
      BY <1>2, <1>3, <2>2 DEF Finds
    <3>2. Len(s) + i \in 1..Len(st) /\ st[Len(s) + i] = t[i]
      BY <1>1
    <3> QED
      BY <1>2, <2>2, <3>1, <3>2
  <2> QED
    BY <2>1, <2>2
<1>4. ASSUME ab # <<>>, UsefulUserText(ab[Len(ab)])
      PROVE  \E i \in 1..Len(st) : \E u \in Texts : st[i].text = u \o ab[Len(ab)]
  <2>1. CASE b = <<>>
    <3>1. PICK i \in 1..Len(s), u \in Texts : s[i].text = u \o a[Len(a)]
      BY <1>2, <1>4, <2>1 DEF Finds
    <3>2. i \in 1..Len(st) /\ st[i] = s[i]
      BY <1>1
    <3> QED
      BY <1>2, <2>1, <3>1, <3>2
  <2>2. CASE b # <<>>
    <3>1. PICK i \in 1..Len(t), u \in Texts : t[i].text = u \o b[Len(b)]
      BY <1>2, <1>4, <2>2 DEF Finds
    <3>2. Len(s) + i \in 1..Len(st) /\ st[Len(s) + i] = t[i]
      BY <1>1
    <3> QED
      BY <1>2, <2>2, <3>1, <3>2
  <2> QED
    BY <2>1, <2>2
<1>5. Finds(ab, st)
  BY <1>3, <1>4 DEF Finds
<1> QED
  BY <1>5 DEF ab, st

(* The query finds the prompt of one message, ... *)
LEMMA QueryOfRecord ==
  ASSUME NEW r \in Records, PartsFine(r)
  PROVE  /\ UserTexts(MimoPartsOf(r)) \in Seq(Texts)
         /\ Finds(UserTexts(MimoPartsOf(r)), Users(TurnOf(r)))
<1> DEFINE V == UserTexts(RowsOf(r, r.parts))
           text == TextFromContent(r.parts)
           t == Turn(r.role, text)
<1>0. MimoPartsOf(r) = RowsOf(r, r.parts)
  BY DEF MimoPartsOf, RowsOf
<1>1. V \in Seq(Texts)
  <2>1. RowsOf(r, r.parts) \in Seq(PartRows)
    BY RecordParts, RowsSteps
  <2> QED
    BY <2>1, UserTextsSteps
<1>2. text \in Texts
  BY RecordParts, TextSteps DEF Texts
<1>3. CASE r.role = "user"
  <2> SUFFICES ASSUME V # <<>> PROVE Finds(V, Users(TurnOf(r)))
    BY <1>0, <1>1 DEF Finds
  <2>1. /\ \E u \in Texts : text = V[1] \o u
        /\ \E u \in Texts : text = u \o V[Len(V)]
        /\ \E j \in 1..Len(r.parts) :
              r.parts[j].shown /\ r.parts[j].text = V[Len(V)]
    BY <1>3, PromptParts DEF PartsOfText
  <2>2. V[1] \in Texts /\ V[Len(V)] \in Texts
    BY <1>1
  <2> HIDE DEF V, text
  <2>3. UsefulUserText(V[1]) => UsefulUserText(text)
    <3> SUFFICES ASSUME UsefulUserText(V[1]) PROVE UsefulUserText(text)
      OBVIOUS
    <3>1. PICK u \in Texts : text = V[1] \o u
      BY <2>1
    <3> DEFINE v == V[1]
    <3>2. v # <<>> /\ Head(v) # "context"
      BY DEF UsefulUserText, StartsWith
    <3>3. v \in Seq(Marks) /\ u \in Seq(Marks) /\ text = v \o u
      BY <2>2, <3>1 DEF Texts
    <3> HIDE DEF v
    <3>4. text # <<>> /\ Head(text) = Head(v)
      BY <3>2, <3>3
    <3> QED
      BY <3>2, <3>4 DEF UsefulUserText, StartsWith
  <2>4. UsefulUserText(V[Len(V)]) => UsefulUserText(text)
    BY <1>3, <2>1 DEF PartsFine, text
  <2>5. ASSUME UsefulUserText(text) PROVE Users(TurnOf(r)) = <<t>>
    <3>1. r.kind = "message"
      BY <1>3, RecordParts DEF Speakers
    <3>2. TurnOf(r) = <<t>>
      BY <1>3, <2>5, <3>1 DEF TurnOf, KeepTranscriptTurn, UsefulUserText, text
    <3>3. t \in Turns
      <4>1. <<t>> \in Seq(Turns)
        BY <3>2, TurnType
      <4>2. <<t>>[1] \in Turns
        BY <4>1
      <4> QED
        BY <4>2
    <3>4. t.role = "user"
      BY <1>3 DEF Turn
    <3> HIDE DEF t
    <3> QED
      BY <3>2, <3>3, <3>4, UsersSteps DEF UserTurn
  <2>6. t.text = text
    BY DEF Turn
  <2> HIDE DEF t
  <2>7. ASSUME UsefulUserText(text)
        PROVE  1 \in 1..Len(Users(TurnOf(r))) /\ Users(TurnOf(r))[1].text = text
    BY <2>5, <2>6, <2>7
  <2> QED
    BY <2>1, <2>3, <2>4, <2>7 DEF Finds
<1>4. CASE r.role # "user"
  <2> DEFINE S == {q \in Seq(Parts) : UserTexts(RowsOf(r, q)) = <<>>}
  <2>1. <<>> \in S
    <3>1. <<>> \in Seq(Parts)
      OBVIOUS
    <3> QED
      BY <3>1, RowsSteps, UserTextsSteps
  <2>2. ASSUME NEW q \in Seq(Parts), NEW p \in Parts, q \in S
        PROVE  Append(q, p) \in S
    <3> DEFINE row == [id |-> r.id, role |-> r.role, text |-> p.text]
    <3>1. RowsOf(r, q) \in Seq(PartRows) /\ Append(q, p) \in Seq(Parts)
      BY RowsSteps
    <3>2. RowsOf(r, Append(q, p)) = RowsOf(r, q) \o RowOfPart(r, p)
      BY RowsSteps
    <3>3. row \in PartRows
      BY RecordParts DEF PartRows, Parts
    <3>4. RowOfPart(r, p) = <<row>> \/ RowOfPart(r, p) = <<>>
      BY DEF RowOfPart
    <3>5. UserText(row) = <<>>
      BY <1>4 DEF UserText
    <3> HIDE DEF row
    <3>6. RowOfPart(r, p) \in Seq(PartRows) /\ UserTexts(RowOfPart(r, p)) = <<>>
      <4>1. UserTexts(<<row>>) = <<>>
        BY <3>3, <3>5, UserTextsSteps
      <4>2. <<row>> \in Seq(PartRows)
        BY <3>3
      <4> QED
        <5>1. CASE RowOfPart(r, p) = <<row>>
          BY <4>1, <4>2, <5>1
        <5>2. CASE RowOfPart(r, p) = <<>>
          BY <5>2, UserTextsSteps
        <5> QED
          BY <3>4, <5>1, <5>2
    <3>7. UserTexts(RowsOf(r, Append(q, p)))
            = UserTexts(RowsOf(r, q)) \o UserTexts(RowOfPart(r, p))
      BY <3>1, <3>2, <3>6, UserTextsSteps
    <3>8. UserTexts(RowsOf(r, q)) = <<>>
      BY <2>2
    <3>9. UserTexts(RowsOf(r, Append(q, p))) = <<>>
      <4>1. <<>> \o <<>> = <<>>
        OBVIOUS
      <4> QED
        BY <3>6, <3>7, <3>8, <4>1
    <3> QED
      BY <3>1, <3>9
  <2>3. Seq(Parts) \subseteq S
    <3>1. \A q \in Seq(Parts) : \A p \in Parts : q \in S => Append(q, p) \in S
      BY <2>2
    <3> HIDE DEF S
    <3> QED
      BY <2>1, <3>1, AllSequences
  <2>4. V = <<>>
    BY <2>3, RecordParts
  <2> QED
    BY <1>0, <1>1, <2>4 DEF Finds
<1> QED
  BY <1>3, <1>4

(* ... and the first and the last of a session. *)
LEMMA QueryOfRecords ==
  ASSUME NEW records \in Seq(Records),
         \A i \in 1..Len(records) : PartsFine(records[i])
  PROVE  /\ UserParts(records) \in Seq(Texts)
         /\ Finds(UserParts(records), Users(TurnsOf(records)))
<1> DEFINE B == {r \in Records : PartsFine(r)}
           S == {q \in Seq(B) : /\ UserTexts(MimoParts(q)) \in Seq(Texts)
                                /\ Finds(UserTexts(MimoParts(q)), Users(TurnsOf(q)))}
<1>1. <<>> \in S
  <2>1. <<>> \in Seq(B)
    OBVIOUS
  <2>2. UserTexts(MimoParts(<<>>)) = <<>>
    BY MimoPartsSteps, UserTextsSteps
  <2>3. Finds(<<>>, Users(TurnsOf(<<>>))) /\ <<>> \in Seq(Texts)
    BY DEF Finds
  <2> HIDE DEF B
  <2> QED
    BY <2>1, <2>2, <2>3
<1>2. ASSUME NEW q \in Seq(B), NEW r \in B, q \in S PROVE Append(q, r) \in S
  <2>1. Append(q, r) \in Seq(B)
    OBVIOUS
  <2>2. q \in Seq(Records) /\ r \in Records /\ PartsFine(r)
    <3>1. B \subseteq Records /\ PartsFine(r)
      OBVIOUS
    <3> HIDE DEF B
    <3> QED
      BY <3>1, SeqMonotonic
  <2>3. /\ MimoParts(q) \in Seq(PartRows) /\ MimoPartsOf(r) \in Seq(PartRows)
        /\ TurnsOf(q) \in Seq(Turns) /\ TurnOf(r) \in Seq(Turns)
    <3>1. MimoPartsOf(r) = RowsOf(r, r.parts)
      BY DEF MimoPartsOf, RowsOf
    <3>2. MimoPartsOf(r) \in Seq(PartRows)
      BY <2>2, <3>1, RecordParts, RowsSteps
    <3> QED
      BY <2>2, <3>2, MimoPartsSteps, TurnsSteps, TurnType
  <2>4. Users(TurnsOf(q)) \in Seq(Turns) /\ Users(TurnOf(r)) \in Seq(Turns)
    BY <2>3, UsersSteps
  <2>5. UserTexts(MimoParts(Append(q, r)))
          = UserTexts(MimoParts(q)) \o UserTexts(MimoPartsOf(r))
    <3>1. MimoParts(Append(q, r)) = MimoParts(q) \o MimoPartsOf(r)
      BY <2>2, MimoPartsSteps
    <3> QED
      BY <2>3, <3>1, UserTextsSteps
  <2>6. Users(TurnsOf(Append(q, r))) = Users(TurnsOf(q)) \o Users(TurnOf(r))
    <3>1. TurnsOf(Append(q, r)) = TurnsOf(q) \o TurnOf(r)
      BY <2>2, TurnsSteps
    <3> QED
      BY <2>3, <3>1, UsersSteps
  <2>7. /\ UserTexts(MimoPartsOf(r)) \in Seq(Texts)
        /\ Finds(UserTexts(MimoPartsOf(r)), Users(TurnOf(r)))
    BY <2>2, QueryOfRecord
  <2>8. /\ UserTexts(MimoParts(q)) \in Seq(Texts)
        /\ Finds(UserTexts(MimoParts(q)), Users(TurnsOf(q)))
    BY <1>2
  <2>9. Finds(UserTexts(MimoParts(Append(q, r))), Users(TurnsOf(Append(q, r))))
    BY <2>4, <2>5, <2>6, <2>7, <2>8, FindsBoth
  <2>10. UserTexts(MimoParts(Append(q, r))) \in Seq(Texts)
    BY <2>5, <2>7, <2>8, ConcatProperties
  <2> HIDE DEF B
  <2> QED
    BY <2>1, <2>9, <2>10
<1>3. Seq(B) \subseteq S
  <2>1. \A q \in Seq(B) : \A r \in B : q \in S => Append(q, r) \in S
    BY <1>2
  <2> HIDE DEF S, B
  <2> QED
    BY <1>1, <2>1, AllSequences
<1>4. records \in Seq(B)
  <2>1. \A i \in 1..Len(records) : records[i] \in B
    OBVIOUS
  <2> HIDE DEF B
  <2> QED
    BY <2>1
<1>5. UserParts(records) = UserTexts(MimoParts(records))
  BY DEF UserParts, UserTexts
<1> QED
  BY <1>3, <1>4, <1>5

(* Nothing too large is in the first or the last text if it is in no part. *)
LEMMA QueryPrinted ==
  ASSUME NEW records \in Seq(Records), ~CutOff(records)
  PROVE  /\ ~TooLarge(Preview(UserParts(records)).first)
         /\ ~TooLarge(Preview(UserParts(records)).last)
<1> DEFINE B == {x \in PartRows : ~TooLarge(x.text)}
           Fine(texts) == \A i \in 1..Len(texts) : ~TooLarge(texts[i])
           S == {q \in Seq(B) : Fine(UserTexts(q))}
           rows == MimoParts(records)
           texts == UserParts(records)
<1>1. <<>> \in S
  <2>1. <<>> \in Seq(B) /\ UserTexts(<<>>) = <<>>
    BY UserTextsSteps
  <2> HIDE DEF B
  <2> QED
    BY <2>1
<1>2. ASSUME NEW q \in Seq(B), NEW x \in B, q \in S PROVE Append(q, x) \in S
  <2>1. /\ q \in Seq(PartRows) /\ x \in PartRows /\ Append(q, x) \in Seq(B)
        /\ ~TooLarge(x.text) /\ Fine(UserTexts(q))
    <3>1. B \subseteq PartRows /\ x \in PartRows /\ ~TooLarge(x.text) /\ Fine(UserTexts(q))
      BY <1>2
    <3> HIDE DEF B, Fine, S
    <3> QED
      BY <3>1, SeqMonotonic
  <2>2. /\ UserTexts(Append(q, x)) = UserTexts(q) \o UserText(x)
        /\ UserTexts(q) \in Seq(Texts) /\ UserText(x) \in Seq(Texts)
        /\ UserText(x) = <<>> \/ UserText(x) = <<x.text>>
    <3>1. UserText(x) = UserTexts(<<x>>) /\ <<x>> \in Seq(PartRows)
      BY <2>1, UserTextsSteps
    <3> QED
      BY <2>1, <3>1, UserTextsSteps DEF UserText
  <2>3. Fine(UserText(x))
    BY <2>1, <2>2
  <2> DEFINE a == UserTexts(q)
             b == UserText(x)
  <2> HIDE DEF a, b
  <2>4. Fine(a \o b)
    <3>1. a \in Seq(Texts) /\ b \in Seq(Texts) /\ Fine(a) /\ Fine(b)
      BY <2>1, <2>2, <2>3 DEF a, b
    <3> SUFFICES ASSUME NEW i \in 1..Len(a \o b) PROVE ~TooLarge((a \o b)[i])
      OBVIOUS
    <3>2. \/ i \in 1..Len(a) /\ (a \o b)[i] = a[i]
          \/ i - Len(a) \in 1..Len(b) /\ (a \o b)[i] = b[i - Len(a)]
      BY <3>1
    <3> QED
      BY <3>1, <3>2
  <2> HIDE DEF B, Fine
  <2> QED
    BY <2>1, <2>2, <2>4 DEF a, b
<1>3. Seq(B) \subseteq S
  <2>1. \A q \in Seq(B) : \A x \in B : q \in S => Append(q, x) \in S
    BY <1>2
  <2> HIDE DEF S, B
  <2> QED
    BY <1>1, <2>1, AllSequences
<1>4. rows \in Seq(B)
  <2>1. rows \in Seq(PartRows)
    BY MimoPartsSteps
  <2>2. \A i \in 1..Len(rows) : rows[i] \in PartRows /\ ~TooLarge(rows[i].text)
    <3>1. \A i \in 1..Len(rows) : ~TooLarge(rows[i].text)
      BY DEF CutOff
    <3> HIDE DEF rows
    <3> QED
      BY <2>1, <3>1
  <2> HIDE DEF rows
  <2> QED
    BY <2>1, <2>2
<1>5. texts = UserTexts(rows)
  BY DEF UserParts, UserTexts
<1>6. Fine(texts) /\ texts \in Seq(Texts)
  <2>1. texts \in Seq(Texts)
    BY <1>5, MimoPartsSteps, UserTextsSteps
  <2> QED
    BY <1>3, <1>4, <1>5, <2>1
<1> HIDE DEF texts, rows
<1>7. CASE texts = <<>>
  <2>1. Preview(texts) = Listed(<<>>, <<>>)
    BY <1>7 DEF Preview
  <2>2. ~TooLarge(<<>>)
    BY DEF TooLarge, Range
  <2> QED
    BY <2>1, <2>2 DEF Listed, texts
<1>8. CASE texts # <<>>
  <2>1. Preview(texts) = Listed(texts[1], texts[Len(texts)])
    BY <1>8 DEF Preview, Last
  <2>2. 1 \in 1..Len(texts) /\ Len(texts) \in 1..Len(texts)
    BY <1>6, <1>8
  <2> QED
    BY <1>6, <2>1, <2>2 DEF Listed, texts
<1> QED
  BY <1>7, <1>8

(* The loop that groups the parts of mimo. *)
NoItem == [turns |-> <<>>, id |-> 0, role |-> "none", text |-> <<>>]

(* Grouping rows goes on from the group so far. *)
LEMMA GroupedRuns ==
  ASSUME NEW q \in Seq(PartRows)
  PROVE  \E g : /\ g[0] = NoItem
                /\ \A k \in 1..Len(q) : g[k] = MimoItem(g[k - 1], q[k])
                /\ MimoGrouped(q) = g[Len(q)]
<1> DEFINE n == Len(q)
           Body(f, k) == IF k = 0 THEN NoItem
                         ELSE MimoItem(f[k - 1], q[k])
           Is(f, m) == f = [k \in 0..m |-> Body(f, k)]
           run == CHOOSE f : Is(f, n)
           S == {m \in 0..n : \E g : Is(g, m)}
<1>0. n \in Nat
  OBVIOUS
<1>1. 0 \in S
  <2> DEFINE g == [k \in 0..0 |-> NoItem]
  <2>1. Is(g, 0)
    OBVIOUS
  <2> HIDE DEF Is, g
  <2> QED
    BY <1>0, <2>1
<1>2. ASSUME NEW m \in 0..n - 1, m \in S PROVE m + 1 \in S
  <2>1. PICK g : Is(g, m)
    BY <1>2
  <2> DEFINE last == MimoItem(g[m], q[m + 1])
             h == [k \in 0..m + 1 |-> IF k = m + 1 THEN last ELSE g[k]]
  <2>2. m \in Nat /\ m + 1 \in 0..n /\ (m + 1) - 1 = m /\ m + 1 # 0
    BY <1>0
  <2>3. ASSUME NEW k \in 0..m + 1 PROVE h[k] = Body(h, k)
    <3>1. CASE k = m + 1
      <4>1. h[m + 1] = last /\ h[m] = g[m]
        BY <2>2
      <4> HIDE DEF h
      <4>2. Body(h, m + 1) = last
        BY <2>2, <4>1
      <4> QED
        BY <3>1, <4>1, <4>2
    <3>2. CASE k # m + 1
      <4>1. k \in 0..m /\ h[k] = g[k]
        BY <2>2, <3>2
      <4>2. g[k] = Body(g, k)
        BY <2>1, <4>1
      <4>3. k # 0 => k - 1 \in 0..m + 1 /\ k - 1 # m + 1
        BY <2>2, <4>1
      <4>4. k # 0 => h[k - 1] = g[k - 1]
        BY <4>3
      <4> HIDE DEF h
      <4> QED
        BY <4>1, <4>2, <4>4
    <3> QED
      BY <3>1, <3>2
  <2>4. Is(h, m + 1)
    <3>1. h = [k \in 0..m + 1 |-> h[k]]
      OBVIOUS
    <3> HIDE DEF h, Body
    <3> QED
      BY <2>3, <3>1
  <2> HIDE DEF Is, h
  <2> QED
    BY <2>2, <2>4
<1>3. n \in S
  <2>1. \A m \in 0..n - 1 : m \in S => m + 1 \in S
    BY <1>2
  <2> HIDE DEF S, n
  <2>2. 0..n \subseteq S
    BY <1>0, <1>1, <2>1, UpTo
  <2> QED
    BY <1>0, <2>2
<1>4. Is(run, n)
  <2>1. \E g : Is(g, n)
    BY <1>3
  <2> HIDE DEF Is
  <2> QED
    BY <2>1
<1>5. MimoGrouped(q) = run[n]
  BY DEF MimoGrouped, NoItem
<1> HIDE DEF run
<1>6. \A k \in 0..n : run[k] = Body(run, k)
  BY <1>4
<1>7. /\ run[0] = NoItem
      /\ \A k \in 1..n : run[k] = MimoItem(run[k - 1], q[k])
  <2>1. 0 \in 0..n /\ \A k \in 1..n : k \in 0..n /\ k # 0
    BY <1>0
  <2> QED
    BY <1>6, <2>1
<1> QED
  BY <1>5, <1>7

(* Grouping, row by row. *)
LEMMA GroupedSteps ==
  /\ MimoGrouped(<<>>) = NoItem
  /\ \A q \in Seq(PartRows) : \A x \in PartRows :
        MimoGrouped(Append(q, x)) = MimoItem(MimoGrouped(q), x)
<1>1. MimoGrouped(<<>>) = NoItem
  <2>1. <<>> \in Seq(PartRows) /\ Len(<<>>) = 0
    OBVIOUS
  <2>2. PICK g : g[0] = NoItem /\ MimoGrouped(<<>>) = g[Len(<<>>)]
    BY <2>1, GroupedRuns
  <2> QED
    BY <2>1, <2>2
<1>2. ASSUME NEW q \in Seq(PartRows), NEW x \in PartRows
      PROVE  MimoGrouped(Append(q, x)) = MimoItem(MimoGrouped(q), x)
  <2> DEFINE n == Len(q)
             more == Append(q, x)
  <2>0. /\ n \in Nat /\ more \in Seq(PartRows) /\ Len(more) = n + 1
        /\ more[n + 1] = x /\ \A k \in 1..n : more[k] = q[k]
    OBVIOUS
  <2> HIDE DEF more
  <2>1. PICK g : /\ g[0] = NoItem
                 /\ \A k \in 1..n : g[k] = MimoItem(g[k - 1], q[k])
                 /\ MimoGrouped(q) = g[n]
    BY GroupedRuns
  <2>2. PICK h : /\ h[0] = NoItem
                 /\ \A k \in 1..Len(more) : h[k] = MimoItem(h[k - 1], more[k])
                 /\ MimoGrouped(more) = h[Len(more)]
    BY <2>0, GroupedRuns
  <2> DEFINE T == {k \in 0..n : h[k] = g[k]}
  <2>3. 0 \in T
    BY <2>0, <2>1, <2>2
  <2>4. ASSUME NEW k \in 0..n - 1, k \in T PROVE k + 1 \in T
    <3>1. k + 1 \in 1..n /\ k + 1 \in 1..n + 1 /\ (k + 1) - 1 = k /\ k + 1 \in 0..n
      BY <2>0
    <3>2. h[k + 1] = MimoItem(h[k], q[k + 1])
      BY <2>0, <2>2, <3>1
    <3>3. g[k + 1] = MimoItem(g[k], q[k + 1])
      BY <2>1, <3>1
    <3>4. h[k] = g[k]
      BY <2>4
    <3>5. h[k + 1] = g[k + 1]
      BY <3>2, <3>3, <3>4
    <3> QED
      BY <3>1, <3>5
  <2>5. n \in T
    <3>1. \A k \in 0..n - 1 : k \in T => k + 1 \in T
      BY <2>4
    <3> HIDE DEF T, n
    <3>2. 0..n \subseteq T
      BY <2>0, <2>3, <3>1, UpTo
    <3> QED
      BY <2>0, <3>2
  <2>6. h[n + 1] = MimoItem(h[n], x)
    <3>1. n + 1 \in 1..n + 1 /\ (n + 1) - 1 = n
      BY <2>0
    <3> QED
      BY <2>0, <2>2, <3>1
  <2>7. h[n] = g[n]
    BY <2>5
  <2> QED
    BY <2>0, <2>1, <2>2, <2>6, <2>7 DEF more
<1> QED
  BY <1>1, <1>2

(* The replay of a log of Gemini. *)
LEMMA ReplayRuns ==
  ASSUME NEW q \in Seq(Records)
  PROVE  \E g : /\ g[0] = Indexed(<<>>)
                /\ \A k \in 1..Len(q) : g[k] = GeminiReplay(g[k - 1], q[k])
                /\ LoadGeminiConversation(q) = g[Len(q)]
<1> DEFINE n == Len(q)
           Body(f, k) == IF k = 0 THEN Indexed(<<>>)
                         ELSE GeminiReplay(f[k - 1], q[k])
           Is(f, m) == f = [k \in 0..m |-> Body(f, k)]
           run == CHOOSE f : Is(f, n)
           S == {m \in 0..n : \E g : Is(g, m)}
<1>0. n \in Nat
  OBVIOUS
<1>1. 0 \in S
  <2> DEFINE g == [k \in 0..0 |-> Indexed(<<>>)]
  <2>1. Is(g, 0)
    OBVIOUS
  <2> HIDE DEF Is, g
  <2> QED
    BY <1>0, <2>1
<1>2. ASSUME NEW m \in 0..n - 1, m \in S PROVE m + 1 \in S
  <2>1. PICK g : Is(g, m)
    BY <1>2
  <2> DEFINE last == GeminiReplay(g[m], q[m + 1])
             h == [k \in 0..m + 1 |-> IF k = m + 1 THEN last ELSE g[k]]
  <2>2. m \in Nat /\ m + 1 \in 0..n /\ (m + 1) - 1 = m /\ m + 1 # 0
    BY <1>0
  <2>3. ASSUME NEW k \in 0..m + 1 PROVE h[k] = Body(h, k)
    <3>1. CASE k = m + 1
      <4>1. h[m + 1] = last /\ h[m] = g[m]
        BY <2>2
      <4> HIDE DEF h
      <4>2. Body(h, m + 1) = last
        BY <2>2, <4>1
      <4> QED
        BY <3>1, <4>1, <4>2
    <3>2. CASE k # m + 1
      <4>1. k \in 0..m /\ h[k] = g[k]
        BY <2>2, <3>2
      <4>2. g[k] = Body(g, k)
        BY <2>1, <4>1
      <4>3. k # 0 => k - 1 \in 0..m + 1 /\ k - 1 # m + 1
        BY <2>2, <4>1
      <4>4. k # 0 => h[k - 1] = g[k - 1]
        BY <4>3
      <4> HIDE DEF h
      <4> QED
        BY <4>1, <4>2, <4>4
    <3> QED
      BY <3>1, <3>2
  <2>4. Is(h, m + 1)
    <3>1. h = [k \in 0..m + 1 |-> h[k]]
      OBVIOUS
    <3> HIDE DEF h, Body
    <3> QED
      BY <2>3, <3>1
  <2> HIDE DEF Is, h
  <2> QED
    BY <2>2, <2>4
<1>3. n \in S
  <2>1. \A m \in 0..n - 1 : m \in S => m + 1 \in S
    BY <1>2
  <2> HIDE DEF S, n
  <2>2. 0..n \subseteq S
    BY <1>0, <1>1, <2>1, UpTo
  <2> QED
    BY <1>0, <2>2
<1>4. Is(run, n)
  <2>1. \E g : Is(g, n)
    BY <1>3
  <2> HIDE DEF Is
  <2> QED
    BY <2>1
<1>5. LoadGeminiConversation(q) = run[n]
  BY DEF LoadGeminiConversation
<1> HIDE DEF run
<1>6. \A k \in 0..n : run[k] = Body(run, k)
  BY <1>4
<1>7. /\ run[0] = Indexed(<<>>)
      /\ \A k \in 1..n : run[k] = GeminiReplay(run[k - 1], q[k])
  <2>1. 0 \in 0..n /\ \A k \in 1..n : k \in 0..n /\ k # 0
    BY <1>0
  <2> QED
    BY <1>6, <2>1
<1> QED
  BY <1>5, <1>7

(* Replaying Gemini's log, record by record. *)
LEMMA ReplaySteps ==
  /\ LoadGeminiConversation(<<>>) = Indexed(<<>>)
  /\ \A q \in Seq(Records) : \A x \in Records :
        LoadGeminiConversation(Append(q, x)) = GeminiReplay(LoadGeminiConversation(q), x)
<1>1. LoadGeminiConversation(<<>>) = Indexed(<<>>)
  <2>1. <<>> \in Seq(Records) /\ Len(<<>>) = 0
    OBVIOUS
  <2>2. PICK g : g[0] = Indexed(<<>>) /\ LoadGeminiConversation(<<>>) = g[Len(<<>>)]
    BY <2>1, ReplayRuns
  <2> QED
    BY <2>1, <2>2
<1>2. ASSUME NEW q \in Seq(Records), NEW x \in Records
      PROVE  LoadGeminiConversation(Append(q, x)) = GeminiReplay(LoadGeminiConversation(q), x)
  <2> DEFINE n == Len(q)
             more == Append(q, x)
  <2>0. /\ n \in Nat /\ more \in Seq(Records) /\ Len(more) = n + 1
        /\ more[n + 1] = x /\ \A k \in 1..n : more[k] = q[k]
    OBVIOUS
  <2> HIDE DEF more
  <2>1. PICK g : /\ g[0] = Indexed(<<>>)
                 /\ \A k \in 1..n : g[k] = GeminiReplay(g[k - 1], q[k])
                 /\ LoadGeminiConversation(q) = g[n]
    BY ReplayRuns
  <2>2. PICK h : /\ h[0] = Indexed(<<>>)
                 /\ \A k \in 1..Len(more) : h[k] = GeminiReplay(h[k - 1], more[k])
                 /\ LoadGeminiConversation(more) = h[Len(more)]
    BY <2>0, ReplayRuns
  <2> DEFINE T == {k \in 0..n : h[k] = g[k]}
  <2>3. 0 \in T
    BY <2>0, <2>1, <2>2
  <2>4. ASSUME NEW k \in 0..n - 1, k \in T PROVE k + 1 \in T
    <3>1. k + 1 \in 1..n /\ k + 1 \in 1..n + 1 /\ (k + 1) - 1 = k /\ k + 1 \in 0..n
      BY <2>0
    <3>2. h[k + 1] = GeminiReplay(h[k], q[k + 1])
      BY <2>0, <2>2, <3>1
    <3>3. g[k + 1] = GeminiReplay(g[k], q[k + 1])
      BY <2>1, <3>1
    <3>4. h[k] = g[k]
      BY <2>4
    <3>5. h[k + 1] = g[k + 1]
      BY <3>2, <3>3, <3>4
    <3> QED
      BY <3>1, <3>5
  <2>5. n \in T
    <3>1. \A k \in 0..n - 1 : k \in T => k + 1 \in T
      BY <2>4
    <3> HIDE DEF T, n
    <3>2. 0..n \subseteq T
      BY <2>0, <2>3, <3>1, UpTo
    <3> QED
      BY <2>0, <3>2
  <2>6. h[n + 1] = GeminiReplay(h[n], x)
    <3>1. n + 1 \in 1..n + 1 /\ (n + 1) - 1 = n
      BY <2>0
    <3> QED
      BY <2>0, <2>2, <3>1
  <2>7. h[n] = g[n]
    BY <2>5
  <2> QED
    BY <2>0, <2>1, <2>2, <2>6, <2>7 DEF more
<1> QED
  BY <1>1, <1>2

-----------------------------------------------------------------------------
(* The pages of mimo: whatever is left out of a page comes with the next.   *)
MimoBody(f, parts, at) ==
    LET page == MimoPage(parts, at[1], at[2])
    IN IF ~Printed(page)
       THEN IF at[2] = 1 THEN {} ELSE f[<<at[1], at[2] \div 2>>]
       ELSE IF LastPage(page, at[2]) THEN {page}
       ELSE {page \o rest : rest \in f[<<at[1] + Len(page), at[2]>>]}

Rest(parts, o) == SubSeq(parts, o + 1, Len(parts))

Whole(parts, o) == \A i \in o + 1..Len(parts) : ~TooLarge(parts[i].text)

RestOf(parts, o) == IF Whole(parts, o) THEN {Rest(parts, o)} ELSE {}

(* A page that is not the last one, ... *)
LEMMA FullPage ==
  ASSUME NEW A, NEW parts \in Seq(A), NEW o \in 0..Len(parts), NEW l \in 1..PageSize,
         o + l <= Len(parts)
  PROVE  LET page == MimoPage(parts, o, l)
         IN /\ Len(page) = l /\ ~LastPage(page, l)
            /\ page \o Rest(parts, o + l) = Rest(parts, o)
            /\ \A i \in 1..l : page[i] = parts[o + i]
<1> DEFINE n == Len(parts)
           page == MimoPage(parts, o, l)
<1>1. n \in Nat /\ o \in Nat /\ l \in Nat /\ l >= 1
  BY ConversionsAssumption
<1>2. page = SubSeq(parts, o + 1, o + l) /\ Len(page) = l
  BY <1>1 DEF MimoPage
<1>3. \A i \in 1..l : page[i] = parts[o + i]
  <2>1. \A i \in 1..l : SubSeq(parts, o + 1, o + l)[i] = parts[o + i]
    BY <1>1
  <2> QED
    BY <1>2, <2>1
<1>4. SubSeq(parts, o + 1, o + l) \o SubSeq(parts, o + l + 1, n)
        = SubSeq(parts, o + 1, n)
  <2>1. /\ o + 1 \in 1..n + 1 /\ o + l \in (o + 1) - 1..n /\ n \in o + l..n
    BY <1>1
  <2> QED
    BY <2>1, ConcatAdjacentSubSeq
<1>5. ~LastPage(page, l)
  <2> HIDE DEF page
  <2> QED
    BY <1>1, <1>2 DEF LastPage
<1> HIDE DEF page
<1> QED
  BY <1>2, <1>3, <1>4, <1>5 DEF Rest, page

(* ... and the last one. *)
LEMMA ShortRest ==
  ASSUME NEW A, NEW parts \in Seq(A), NEW o \in 0..Len(parts), NEW l \in 1..PageSize,
         o + l > Len(parts)
  PROVE  LET page == MimoPage(parts, o, l)
         IN /\ page = Rest(parts, o) /\ Len(page) = Len(parts) - o /\ LastPage(page, l)
            /\ \A i \in 1..Len(page) : page[i] = parts[o + i]
<1> DEFINE n == Len(parts)
           page == MimoPage(parts, o, l)
<1>1. n \in Nat /\ o \in Nat /\ l \in Nat /\ l >= 1
  BY ConversionsAssumption
<1>2. page = SubSeq(parts, o + 1, n) /\ Len(page) = n - o
  BY <1>1 DEF MimoPage
<1>3. \A i \in 1..n - o : page[i] = parts[o + i]
  <2>1. \A i \in 1..n - o : SubSeq(parts, o + 1, n)[i] = parts[o + i]
    BY <1>1
  <2> QED
    BY <1>2, <2>1
<1> HIDE DEF page
<1> QED
  BY <1>1, <1>2, <1>3 DEF Rest, LastPage, page

(* One page of the mimo reader, if the shorter and the later pages give     *)
(* the rest, or an error when a part of the rest is too large.              *)
LEMMA PageStep ==
  ASSUME NEW A, NEW parts \in Seq(A), NEW o \in 0..Len(parts), NEW l \in 1..PageSize,
         NEW f,
         \A k \in 1..PageSize : k < l => f[<<o, k>>] = RestOf(parts, o),
         \A p \in 0..Len(parts) : p > o => f[<<p, l>>] = RestOf(parts, p)
  PROVE  MimoBody(f, parts, <<o, l>>) = RestOf(parts, o)
<1> DEFINE n == Len(parts)
           page == MimoPage(parts, o, l)
<1>1. n \in Nat /\ o \in Nat /\ l \in Nat /\ l >= 1 /\ PageCap \in Nat /\ PageCap >= 1
      /\ PageSize \in Nat
  BY ConversionsAssumption
<1>2. MimoBody(f, parts, <<o, l>>) =
        IF ~Printed(page)
        THEN IF l = 1 THEN {} ELSE f[<<o, l \div 2>>]
        ELSE IF LastPage(page, l) THEN {page}
        ELSE {page \o rest : rest \in f[<<o + Len(page), l>>]}
  BY DEF MimoBody
<1>3. /\ Len(page) \in Nat /\ Len(page) <= l /\ o + Len(page) <= n
      /\ \A i \in 1..Len(page) : page[i] = parts[o + i]
  <2>1. CASE o + l > n
    <3>1. Len(page) = n - o /\ \A i \in 1..Len(page) : page[i] = parts[o + i]
      BY <2>1, ShortRest
    <3> HIDE DEF page, n
    <3> QED
      BY <1>1, <2>1, <3>1 DEF n
  <2>2. CASE o + l <= n
    <3>1. Len(page) = l /\ \A i \in 1..l : page[i] = parts[o + i]
      BY <2>2, FullPage
    <3> HIDE DEF page
    <3> QED
      BY <1>1, <2>2, <3>1
  <2> QED
    BY <1>1, <2>1, <2>2
<1>4. CASE ~Printed(page) /\ l = 1
  <2>1. PICK i \in 1..Len(page) : TooLarge(page[i].text)
    <3> HIDE DEF page
    <3> QED
      BY <1>1, <1>3, <1>4 DEF Printed
  <2>2. o + i \in o + 1..n /\ page[i] = parts[o + i]
    <3> HIDE DEF page
    <3> QED
      BY <1>1, <1>3
  <2>3. ~Whole(parts, o)
    BY <2>1, <2>2 DEF Whole
  <2> QED
    BY <1>2, <1>4, <2>3 DEF RestOf
<1>5. CASE ~Printed(page) /\ l # 1
  <2>1. l \div 2 \in 1..PageSize /\ l \div 2 < l
    BY <1>1, <1>5
  <2> QED
    BY <1>2, <1>5, <2>1
<1>6. CASE Printed(page) /\ o + l > n
  <2>1. page = Rest(parts, o) /\ Len(page) = n - o /\ LastPage(page, l)
    BY <1>6, ShortRest
  <2>2. Whole(parts, o)
    <3> SUFFICES ASSUME NEW i \in o + 1..n PROVE ~TooLarge(parts[i].text)
      BY DEF Whole
    <3>1. i - o \in 1..Len(page) /\ o + (i - o) = i
      <4> HIDE DEF page
      <4> QED
        BY <1>1, <2>1
    <3> HIDE DEF page
    <3> QED
      BY <1>3, <1>6, <3>1 DEF Printed
  <2> QED
    BY <1>2, <1>6, <2>1, <2>2 DEF RestOf
<1>7. CASE Printed(page) /\ o + l <= n
  <2>1. Len(page) = l /\ ~LastPage(page, l) /\ page \o Rest(parts, o + l) = Rest(parts, o)
    BY <1>7, FullPage
  <2>2. f[<<o + l, l>>] = RestOf(parts, o + l)
    <3>1. o + l \in 0..n /\ o + l > o
      BY <1>1, <1>7
    <3> QED
      BY <3>1
  <2>3. MimoBody(f, parts, <<o, l>>) = {page \o rest : rest \in RestOf(parts, o + l)}
    BY <1>2, <1>7, <2>1, <2>2
  <2>4. Whole(parts, o) <=> Whole(parts, o + l)
    <3>1. \A i \in o + 1..n : i \in o + l + 1..n \/ ~TooLarge(parts[i].text)
      <4> SUFFICES ASSUME NEW i \in o + 1..n, i \notin o + l + 1..n
                   PROVE  ~TooLarge(parts[i].text)
        OBVIOUS
      <4>1. i - o \in 1..l /\ o + (i - o) = i
        BY <1>1
      <4> HIDE DEF page
      <4> QED
        BY <1>3, <1>7, <2>1, <4>1 DEF Printed
    <3>2. \A i \in o + l + 1..n : i \in o + 1..n
      BY <1>1
    <3> QED
      BY <3>1, <3>2 DEF Whole
  <2> HIDE DEF page
  <2> QED
    BY <2>1, <2>3, <2>4 DEF RestOf
<1> QED
  BY <1>1, <1>4, <1>5, <1>6, <1>7

(* Whatever the page size and the cut-off, the pages give every row once,   *)
(* in order, unless a single one is cut off.                                *)
LEMMA PagesGiveAll ==
  ASSUME NEW A, NEW parts \in Seq(A)
  PROVE  MimoRows(parts) =
            IF \E i \in 1..Len(parts) : TooLarge(parts[i].text) THEN {} ELSE {parts}
<1> DEFINE n == Len(parts)
           D == (0..n) \X (1..PageSize)
           Is(f) == f = [at \in D |-> MimoBody(f, parts, at)]
           from == CHOOSE f : Is(f)
           h == [at \in D |-> RestOf(parts, at[1])]
<1>0. n \in Nat /\ PageSize \in Nat /\ PageSize >= 1
  BY ConversionsAssumption
<1>1. Is(h)
  <2>1. ASSUME NEW at \in D PROVE h[at] = MimoBody(h, parts, at)
    <3>1. PICK o \in 0..n, l \in 1..PageSize : at = <<o, l>>
      OBVIOUS
    <3>2. \A p \in 0..n : \A k \in 1..PageSize : h[<<p, k>>] = RestOf(parts, p)
      OBVIOUS
    <3> HIDE DEF h
    <3>3. MimoBody(h, parts, <<o, l>>) = RestOf(parts, o)
      BY <3>2, PageStep
    <3> QED
      BY <3>1, <3>2, <3>3
  <2>2. h = [at \in D |-> h[at]]
    OBVIOUS
  <2> HIDE DEF h, D
  <2> QED
    BY <2>1, <2>2
<1>2. Is(from)
  <2>1. \E f : Is(f)
    BY <1>1
  <2> HIDE DEF Is
  <2> QED
    BY <2>1
<1>3. MimoRows(parts) = from[<<0, PageSize>>]
  BY DEF MimoRows, MimoBody
<1> HIDE DEF from
<1>4. \A o \in 0..n : \A l \in 1..PageSize :
         from[<<o, l>>] = MimoBody(from, parts, <<o, l>>)
  BY <1>2
<1> DEFINE Good(o, l) == from[<<o, l>>] = RestOf(parts, o)
           T == {d \in 0..n : \A l \in 1..PageSize : Good(n - d, l)}
<1> HIDE DEF Is
<1>5. ASSUME NEW o \in 0..n,
             \A p \in 0..n : p > o => \A l \in 1..PageSize : Good(p, l)
      PROVE  \A l \in 1..PageSize : Good(o, l)
  <2> DEFINE bad == {l \in 1..PageSize : ~Good(o, l)}
  <2> SUFFICES ASSUME bad # {} PROVE FALSE
    OBVIOUS
  <2>1. PICK l \in bad : \A k \in bad : l <= k
    <3>1. bad \in SUBSET Nat
      BY <1>0
    <3> HIDE DEF bad
    <3> QED
      BY <3>1, LeastExists
  <2>2. \A k \in 1..PageSize : k < l => Good(o, k)
    BY <1>0, <2>1
  <2>3. MimoBody(from, parts, <<o, l>>) = RestOf(parts, o)
    <3>1. \A k \in 1..PageSize : k < l => from[<<o, k>>] = RestOf(parts, o)
      BY <2>2
    <3>2. \A p \in 0..Len(parts) : p > o => from[<<p, l>>] = RestOf(parts, p)
      BY <1>5
    <3>3. l \in 1..PageSize
      OBVIOUS
    <3> QED
      BY <3>1, <3>2, <3>3, PageStep
  <2> QED
    BY <1>4, <2>1, <2>3
<1> DEFINE U == {p \in 0..n : ~(\A l \in 1..PageSize : Good(p, l))}
<1>6. U = {}
  <2> SUFFICES ASSUME U # {} PROVE FALSE
    OBVIOUS
  <2> DEFINE V == {n - p : p \in U}
  <2>1. V \in SUBSET Nat /\ V # {}
    <3>1. \A p \in U : p \in 0..n
      OBVIOUS
    <3> HIDE DEF U
    <3> QED
      BY <1>0, <3>1
  <2>2. PICK d \in V : \A e \in V : d <= e
    <3> HIDE DEF V
    <3> QED
      BY <2>1, LeastExists
  <2>3. PICK o \in U : d = n - o
    OBVIOUS
  <2>4. ASSUME NEW p \in 0..n, p > o PROVE p \notin U
    <3> SUFFICES ASSUME p \in U PROVE FALSE
      OBVIOUS
    <3>1. n - o <= n - p
      BY <2>2, <2>3
    <3>2. o \in Int /\ p \in Int
      BY <1>0
    <3> QED
      BY <1>0, <2>4, <3>1, <3>2
  <2>5. \A p \in 0..n : p > o => \A l \in 1..PageSize : Good(p, l)
    BY <2>4
  <2>6. o \in 0..n /\ ~(\A l \in 1..PageSize : Good(o, l))
    OBVIOUS
  <2> HIDE DEF Good
  <2> QED
    BY <1>5, <2>5, <2>6
<1>7. Good(0, PageSize)
  BY <1>0, <1>6
<1>8. Rest(parts, 0) = parts
  BY DEF Rest
<1>9. Whole(parts, 0) <=> ~\E i \in 1..n : TooLarge(parts[i].text)
  BY <1>0 DEF Whole
<1> QED
  BY <1>3, <1>7, <1>8, <1>9 DEF RestOf

(* The rows of one message become one item, whatever came before. *)
Items == [turns : Seq(Turns), id : Nat, role : Speakers \cup {"none"}, text : Texts]

(* Before the first row there is nothing to flush. *)
LEMMA FlushNothing == NoItem \in Items /\ MimoFlush(NoItem) = <<>>
<1>1. NoItem.role = "none" /\ NoItem.turns = <<>>
  BY DEF NoItem
<1>2. MimoFlush(NoItem) = <<>>
  BY <1>1 DEF MimoFlush, KeepTranscriptTurn
<1>3. <<>> \in Seq(Turns) /\ <<>> \in Texts
  BY DEF Texts
<1> QED
  BY <1>2, <1>3 DEF NoItem, Items

(* The rows of one message make one group. *)
LEMMA OneItem ==
  ASSUME NEW base \in Seq(PartRows), NEW r \in Records, NEW s \in Items,
         MimoGrouped(base) = s, s.id # r.id, s.id = 0 => s = NoItem, r.id # 0
  PROVE  IF RowsOf(r, r.parts) = <<>>
         THEN /\ MimoGrouped(base \o RowsOf(r, r.parts)) = s
              /\ TextFromContent(r.parts) = <<>>
         ELSE MimoGrouped(base \o RowsOf(r, r.parts))
                = [turns |-> MimoFlush(s), id |-> r.id, role |-> r.role,
                   text |-> TextFromContent(r.parts)]
<1> DEFINE G(q) == MimoGrouped(base \o RowsOf(r, q))
           Item(q) == [turns |-> MimoFlush(s), id |-> r.id, role |-> r.role,
                       text |-> TextFromContent(q)]
           Fine(q) == IF RowsOf(r, q) = <<>>
                      THEN G(q) = s /\ TextFromContent(q) = <<>>
                      ELSE G(q) = Item(q)
           S == {q \in Seq(Parts) : Fine(q)}
<1>1. <<>> \in S
  <2>1. <<>> \in Seq(Parts) /\ RowsOf(r, <<>>) = <<>>
    BY RowsSteps
  <2>2. base \o <<>> = base
    BY ConcatEmptySeq
  <2> QED
    BY <2>1, <2>2, TextSteps
<1>2. ASSUME NEW q \in Seq(Parts), NEW p \in Parts, q \in S
      PROVE  Append(q, p) \in S
  <2> DEFINE now == Append(q, p)
             row == [id |-> r.id, role |-> r.role, text |-> p.text]
  <2>1. now \in Seq(Parts) /\ RowsOf(r, q) \in Seq(PartRows) /\ Fine(q)
    BY <1>2, RowsSteps
  <2>2. /\ RowsOf(r, now) = RowsOf(r, q) \o RowOfPart(r, p)
        /\ TextFromContent(now) = TextFromContent(q) \o ShownText(p)
        /\ TextFromContent(q) \in Seq(Marks) /\ p.text \in Seq(Marks)
    BY RowsSteps, TextSteps DEF Parts, Texts
  <2>3. CASE ~p.shown
    <3>1. RowOfPart(r, p) = <<>> /\ ShownText(p) = <<>>
      BY <2>3 DEF RowOfPart, ShownText
    <3>2. RowsOf(r, now) = RowsOf(r, q) /\ TextFromContent(now) = TextFromContent(q)
      BY <2>1, <2>2, <3>1, ConcatEmptySeq
    <3>3. Fine(now)
      <4> HIDE DEF now
      <4> QED
        BY <2>1, <3>2
    <3> QED
      BY <2>1, <3>3
  <2>4. CASE p.shown
    <3>1. row \in PartRows /\ row.id = r.id /\ row.role = r.role /\ row.text = p.text
      BY RecordParts DEF PartRows, Parts
    <3>2. RowOfPart(r, p) = <<row>> /\ ShownText(p) = p.text
      BY <2>4 DEF RowOfPart, ShownText
    <3> HIDE DEF row
    <3>3. /\ RowsOf(r, now) # <<>>
          /\ base \o RowsOf(r, now) = Append(base \o RowsOf(r, q), row)
          /\ base \o RowsOf(r, q) \in Seq(PartRows)
      <4> DEFINE old == RowsOf(r, q)
      <4>1. RowsOf(r, now) = old \o <<row>>
        BY <2>2, <3>2
      <4>2. old \in Seq(PartRows)
        BY <2>1
      <4> HIDE DEF old
      <4>3. old \o <<row>> # <<>>
        BY <3>1, <4>2
      <4>4. base \o (old \o <<row>>) = Append(base \o old, row)
        BY <3>1, <4>2
      <4>5. base \o old \in Seq(PartRows)
        BY <4>2
      <4> QED
        BY <4>1, <4>3, <4>4, <4>5 DEF old
    <3>4. G(now) = MimoItem(G(q), row)
      BY <3>1, <3>3, GroupedSteps
    <3>5. TextFromContent(now) = TextFromContent(q) \o p.text
      BY <2>2, <3>2
    <3> SUFFICES Fine(now)
      BY <2>1
    <3> HIDE DEF now, G
    <3>6. CASE RowsOf(r, q) = <<>>
      <4>1. G(q) = s /\ TextFromContent(q) = <<>>
        BY <2>1, <3>6
      <4>2. TextFromContent(now) = p.text
        BY <2>2, <3>5, <4>1, ConcatEmptySeq
      <4>3. CASE s.id = 0
        <5>1. s = NoItem
          BY <4>3
        <5>2. s.turns = <<>> /\ s.text = <<>>
          BY <5>1 DEF NoItem
        <5>3. MimoItem(s, row) = [turns |-> s.turns, id |-> row.id, role |-> row.role,
                                  text |-> s.text \o row.text]
          BY <4>3 DEF MimoItem
        <5>4. <<>> \o p.text = p.text
          BY <2>2, ConcatEmptySeq
        <5>5. MimoItem(s, row) = [turns |-> <<>>, id |-> r.id, role |-> r.role,
                                  text |-> p.text]
          BY <3>1, <5>2, <5>3, <5>4
        <5>6. MimoFlush(s) = <<>>
          BY <5>1, FlushNothing
        <5> QED
          BY <3>3, <3>4, <4>1, <4>2, <5>5, <5>6
      <4>4. CASE s.id # 0
        <5>1. MimoItem(s, row) = [turns |-> MimoFlush(s), id |-> r.id,
                                  role |-> r.role, text |-> p.text]
          BY <3>1, <4>4 DEF MimoItem
        <5> QED
          BY <3>3, <3>4, <4>1, <4>2, <5>1
      <4> QED
        BY <4>3, <4>4
    <3>7. CASE RowsOf(r, q) # <<>>
      <4>1. G(q) = Item(q)
        BY <2>1, <3>7
      <4>2. /\ G(q).id = r.id /\ G(q).text = TextFromContent(q)
            /\ G(q).turns = MimoFlush(s)
        BY <4>1
      <4>3. ASSUME NEW a, NEW b
            PROVE  MimoItem([turns |-> a, id |-> r.id, role |-> r.role, text |-> b], row)
                     = [turns |-> a, id |-> r.id, role |-> r.role, text |-> b \o p.text]
        BY <3>1 DEF MimoItem
      <4>4. MimoItem(G(q), row) = Item(now)
        BY <3>5, <4>1, <4>3
      <4> QED
        BY <3>3, <3>4, <4>4
    <3> QED
      BY <3>6, <3>7
  <2> QED
    BY <2>3, <2>4
<1>3. Seq(Parts) \subseteq S
  <2>1. \A q \in Seq(Parts) : \A p \in Parts : q \in S => Append(q, p) \in S
    BY <1>2
  <2> HIDE DEF S
  <2> QED
    BY <1>1, <2>1, AllSequences
<1>4. Fine(r.parts)
  BY <1>3, RecordParts
<1> QED
  BY <1>4

Distinct(records) ==
    /\ \A i \in 1..Len(records) : records[i].id # 0
    /\ \A i, j \in 1..Len(records) : records[i].id = records[j].id => i = j

(* When each message has its own id, the grouped rows are the turns. *)
LEMMA MimoIsTurns ==
  ASSUME NEW records \in Seq(Records), Distinct(records)
  PROVE  MimoTranscript(records) =
            IF CutOff(records) THEN <<>> ELSE TurnsOf(records)
<1> DEFINE G(q) == MimoGrouped(MimoParts(q))
           Fine(q) == /\ G(q) \in Items /\ MimoFlush(G(q)) = TurnsOf(q)
                      /\ G(q).id = 0 => G(q) = NoItem
                      /\ G(q).id # 0 => \E i \in 1..Len(q) : q[i].id = G(q).id
           S == {q \in Seq(Records) : Distinct(q) => Fine(q)}
<1>1. <<>> \in S
  <2>1. <<>> \in Seq(Records) /\ G(<<>>) = NoItem
    BY MimoPartsSteps, GroupedSteps
  <2>2. NoItem.id = 0
    BY DEF NoItem
  <2> HIDE DEF G
  <2>3. Fine(<<>>)
    BY <2>1, <2>2, FlushNothing, TurnsSteps
  <2> QED
    BY <2>1, <2>3
<1>2. ASSUME NEW q \in Seq(Records), NEW r \in Records, q \in S
      PROVE  Append(q, r) \in S
  <2> DEFINE now == Append(q, r)
             text == TextFromContent(r.parts)
  <2>1. /\ now \in Seq(Records) /\ Len(now) = Len(q) + 1 /\ Len(q) \in Nat
        /\ \A i \in 1..Len(q) : now[i] = q[i]
        /\ now[Len(q) + 1] = r
    OBVIOUS
  <2> HIDE DEF now
  <2> SUFFICES ASSUME Distinct(now) PROVE Fine(now)
    BY <2>1 DEF now
  <2>2. /\ Distinct(q) /\ r.id # 0
        /\ \A i \in 1..Len(q) : q[i].id # r.id
    <3>1. \A i \in 1..Len(q) : i \in 1..Len(now) /\ i # Len(q) + 1
      BY <2>1
    <3>2. Len(q) + 1 \in 1..Len(now)
      BY <2>1
    <3> QED
      BY <2>1, <3>1, <3>2 DEF Distinct
  <2>3. Fine(q)
    BY <1>2, <2>2
  <2> DEFINE s == G(q)
             rows == RowsOf(r, r.parts)
  <2>4. /\ s \in Items /\ s.id # r.id /\ (s.id = 0 => s = NoItem)
        /\ MimoFlush(s) = TurnsOf(q) /\ TurnsOf(q) \in Seq(Turns)
    <3>1. s.id # r.id
      BY <2>2, <2>3
    <3> QED
      BY <2>3, <3>1, TurnsSteps
  <2>5. MimoParts(q) \in Seq(PartRows) /\ MimoParts(now) = MimoParts(q) \o rows
    <3>1. MimoPartsOf(r) = RowsOf(r, r.parts)
      BY DEF MimoPartsOf, RowsOf
    <3> QED
      BY <3>1, MimoPartsSteps DEF now
  <2>6. IF rows = <<>> THEN G(now) = s /\ text = <<>>
        ELSE G(now) = [turns |-> MimoFlush(s), id |-> r.id, role |-> r.role,
                       text |-> text]
    BY <2>2, <2>4, <2>5, OneItem
  <2>7. TurnsOf(now) = TurnsOf(q) \o TurnOf(r)
    BY TurnsSteps DEF now
  <2> HIDE DEF rows, G
  <2>8. CASE rows = <<>>
    <3>1. TurnOf(r) = <<>>
      BY <2>6, <2>8 DEF TurnOf, KeepTranscriptTurn
    <3>2. TurnsOf(now) = TurnsOf(q)
      BY <2>4, <2>7, <3>1, ConcatEmptySeq
    <3>3. G(now) = s
      BY <2>6, <2>8
    <3>4. s.id # 0 => \E i \in 1..Len(now) : now[i].id = s.id
      <4>1. \A i \in 1..Len(q) : i \in 1..Len(now)
        BY <2>1
      <4> QED
        BY <2>1, <2>3, <4>1
    <3> QED
      BY <2>4, <3>2, <3>3, <3>4
  <2>9. CASE rows # <<>>
    <3> DEFINE item == [turns |-> TurnsOf(q), id |-> r.id, role |-> r.role,
                        text |-> text]
    <3>1. G(now) = item
      BY <2>4, <2>6, <2>9
    <3>2. text \in Texts /\ r.id \in Nat /\ r.role \in Speakers \cup {"none"}
      BY RecordParts, TextSteps DEF Texts
    <3>3. item \in Items /\ item.id = r.id
      BY <2>4, <3>2 DEF Items
    <3>4. MimoFlush(item) = TurnsOf(q) \o TurnOf(r)
      <4>1. CASE KeepTranscriptTurn(r.role, text)
        <5>1. r.kind = "message"
          BY <4>1, RecordParts DEF KeepTranscriptTurn, Speakers
        <5>2. TurnOf(r) = <<Turn(r.role, text)>>
          BY <4>1, <5>1 DEF TurnOf
        <5>3. MimoFlush(item) = Append(TurnsOf(q), Turn(r.role, text))
          BY <4>1 DEF MimoFlush
        <5>4. Turn(r.role, text) \in Turns
          <6>1. <<Turn(r.role, text)>> \in Seq(Turns)
            BY <5>2, TurnType
          <6>2. <<Turn(r.role, text)>>[1] \in Turns
            BY <6>1
          <6> QED
            BY <6>2
        <5> QED
          BY <2>4, <5>2, <5>3, <5>4, AppendIsConcat
      <4>2. CASE ~KeepTranscriptTurn(r.role, text)
        <5>1. TurnOf(r) = <<>>
          BY <4>2 DEF TurnOf
        <5>2. MimoFlush(item) = TurnsOf(q)
          BY <4>2 DEF MimoFlush
        <5> QED
          BY <2>4, <5>1, <5>2, ConcatEmptySeq
      <4> QED
        BY <4>1, <4>2
    <3>5. \E i \in 1..Len(now) : now[i].id = r.id
      <4>1. Len(q) + 1 \in 1..Len(now)
        BY <2>1
      <4> QED
        BY <2>1, <4>1
    <3> HIDE DEF item
    <3> QED
      BY <2>2, <2>7, <3>1, <3>3, <3>4, <3>5
  <2> QED
    BY <2>8, <2>9
<1>3. Seq(Records) \subseteq S
  <2>1. \A q \in Seq(Records) : \A r \in Records : q \in S => Append(q, r) \in S
    BY <1>2
  <2> HIDE DEF S
  <2> QED
    BY <1>1, <2>1, AllSequences
<1>4. Fine(records)
  BY <1>3
<1>5. MimoRows(MimoParts(records)) =
        IF CutOff(records) THEN {} ELSE {MimoParts(records)}
  BY MimoPartsSteps, PagesGiveAll DEF CutOff
<1>6. CASE CutOff(records)
  BY <1>5, <1>6 DEF MimoTranscript
<1>7. CASE ~CutOff(records)
  <2>1. MimoTranscript(records) = MimoFlush(MimoGrouped(MimoParts(records)))
    BY <1>5, <1>7 DEF MimoTranscript
  <2> QED
    BY <1>4, <1>7, <2>1
<1> QED
  BY <1>6, <1>7

-----------------------------------------------------------------------------
(* Gemini: every record keeps the replayed log the mirror of what was said. *)
DistinctIds(said) ==
    \A i, j \in 1..Len(said) : said[i].id = said[j].id => i = j

(* A mirrored conversation has different ids. *)
LEMMA MirrorsDistinct ==
  ASSUME NEW c, NEW said \in Seq(Sayings), Mirrors(c, said)
  PROVE  DistinctIds(said)
  BY DEF Mirrors, DistinctIds

SameMessages(messages, said) ==
    /\ messages \in Seq(Messages) /\ Len(messages) = Len(said)
    /\ \A i \in 1..Len(said) :
          /\ messages[i].id = said[i].id
          /\ messages[i].role = said[i].role
          /\ TextFromContent(messages[i].parts) = said[i].text

(* Rebuilding the index mirrors the messages it is built from. *)
LEMMA IndexedMirrors ==
  ASSUME NEW messages, NEW said \in Seq(Sayings),
         SameMessages(messages, said), DistinctIds(said)
  PROVE  Mirrors(Indexed(messages), said)
<1> DEFINE n == Len(said)
           index == Reindex(messages)
           At(id) == {i \in DOMAIN messages : messages[i].id = id}
<1>1. n \in Nat /\ DOMAIN messages = 1..n
  BY DEF SameMessages
<1>2. DOMAIN index = {said[i].id : i \in 1..n}
  <2>1. DOMAIN index = {messages[i].id : i \in 1..n}
    BY <1>1 DEF Reindex
  <2>2. \A i \in 1..n : messages[i].id = said[i].id
    BY DEF SameMessages
  <2> QED
    BY <2>1, <2>2
<1>3. ASSUME NEW i \in 1..n PROVE index[said[i].id] = i
  <2>1. said[i].id \in DOMAIN index
    BY <1>2
  <2>2. index[said[i].id] = Latest(At(said[i].id))
    BY <2>1 DEF Reindex
  <2>3. At(said[i].id) = {i}
    <3>1. i \in At(said[i].id)
      BY <1>1 DEF SameMessages
    <3>2. ASSUME NEW j \in At(said[i].id) PROVE j = i
      <4>1. j \in 1..n /\ said[j].id = said[i].id
        BY <1>1 DEF SameMessages
      <4> QED
        BY <4>1 DEF DistinctIds
    <3> HIDE DEF At
    <3> QED
      BY <3>1, <3>2
  <2> HIDE DEF At, index
  <2>4. Latest({i}) = i
    <3>1. {i} \in SUBSET (1..n) /\ {i} # {}
      OBVIOUS
    <3>2. Latest({i}) \in {i}
      <4> DEFINE one == {i}
      <4> HIDE DEF one, n
      <4>1. Latest(one) \in one
        BY <1>1, <3>1, LatestIs DEF one
      <4> QED
        BY <4>1 DEF one
    <3> QED
      BY <3>2
  <2> QED
    BY <2>2, <2>3, <2>4
<1> HIDE DEF index
<1>4. Indexed(messages).messages = messages /\ Indexed(messages).index = index
  BY DEF Indexed, index
<1> QED
  BY <1>2, <1>3, <1>4 DEF Mirrors, SameMessages

(* An empty log is an empty conversation. *)
LEMMA MirrorsNothing == Mirrors(Indexed(<<>>), <<>>)
<1>1. SameMessages(<<>>, <<>>) /\ DistinctIds(<<>>) /\ <<>> \in Seq(Sayings)
  BY DEF SameMessages, DistinctIds
<1> QED
  BY <1>1, IndexedMirrors

(* A message with a new id is appended. *)
LEMMA MirrorsSay ==
  ASSUME NEW c, NEW said \in Seq(Sayings), Mirrors(c, said),
         NEW r \in Messages, NEW s \in Sayings,
         s.id = r.id, s.role = r.role, s.text = TextFromContent(r.parts),
         \A i \in 1..Len(said) : said[i].id # r.id
  PROVE  Mirrors(GeminiReplay(c, r), Append(said, s))
<1> DEFINE n == Len(said)
           now == Append(said, s)
           d == GeminiReplay(c, r)
<1>1. /\ n \in Nat /\ Len(now) = n + 1 /\ now[n + 1] = s
      /\ \A i \in 1..n : now[i] = said[i]
  OBVIOUS
<1>2. r.id \notin DOMAIN c.index
  BY DEF Mirrors
<1>3. d = GeminiMessage(c, r)
  <2>1. r.kind = "message"
    BY DEF Messages
  <2> QED
    BY <2>1 DEF GeminiReplay
<1>4. /\ d.messages = Append(c.messages, r)
      /\ d.index = [id \in DOMAIN c.index \cup {r.id} |->
                       IF id = r.id THEN Len(c.messages) + 1 ELSE c.index[id]]
  BY <1>2, <1>3 DEF GeminiMessage
<1>5. /\ c.messages \in Seq(Messages) /\ Len(c.messages) = n
      /\ DOMAIN c.index = {said[i].id : i \in 1..n}
      /\ \A i \in 1..n : c.index[said[i].id] = i
  BY DEF Mirrors
<1> HIDE DEF d, now, n
<1>6. /\ d.messages \in Seq(Messages) /\ Len(d.messages) = n + 1
      /\ d.messages[n + 1] = r /\ \A i \in 1..n : d.messages[i] = c.messages[i]
  BY <1>1, <1>4, <1>5
<1>7. ASSUME NEW i \in 1..n + 1
      PROVE  /\ d.messages[i].id = now[i].id
             /\ d.messages[i].role = now[i].role
             /\ TextFromContent(d.messages[i].parts) = now[i].text
  <2>1. CASE i = n + 1
    BY <1>1, <1>6, <2>1
  <2>2. CASE i # n + 1
    <3>1. i \in 1..n
      BY <1>1, <2>2
    <3> QED
      BY <1>1, <1>6, <3>1 DEF Mirrors, n
  <2> QED
    BY <2>1, <2>2
<1>8. DOMAIN d.index = {now[i].id : i \in 1..n + 1}
  <2>1. DOMAIN d.index = {said[i].id : i \in 1..n} \cup {r.id}
    BY <1>4, <1>5
  <2>2. 1..n + 1 = 1..n \cup {n + 1}
    BY <1>1
  <2>3. {now[i].id : i \in 1..n + 1} = {now[i].id : i \in 1..n} \cup {now[n + 1].id}
    BY <2>2
  <2>4. {now[i].id : i \in 1..n} = {said[i].id : i \in 1..n}
    BY <1>1
  <2> QED
    BY <1>1, <2>1, <2>3, <2>4
<1>9. ASSUME NEW i \in 1..n + 1 PROVE d.index[now[i].id] = i
  <2>1. CASE i = n + 1
    BY <1>1, <1>4, <1>5, <2>1
  <2>2. CASE i # n + 1
    <3>1. i \in 1..n
      BY <1>1, <2>2
    <3>2. now[i].id = said[i].id /\ said[i].id # r.id /\ said[i].id \in DOMAIN c.index
      BY <1>1, <1>5, <3>1 DEF n
    <3> QED
      BY <1>4, <1>5, <3>1, <3>2
  <2> QED
    BY <2>1, <2>2
<1>10. Mirrors(d, now)
  BY <1>1, <1>6, <1>7, <1>8, <1>9 DEF Mirrors
<1> QED
  BY <1>10 DEF d, now

(* A message with a known id replaces its earlier form, in its place. *)
LEMMA MirrorsEdit ==
  ASSUME NEW c, NEW said \in Seq(Sayings), Mirrors(c, said),
         NEW i \in 1..Len(said), NEW r \in Messages, NEW now \in Seq(Sayings),
         r.id = said[i].id, Len(now) = Len(said),
         now[i].id = said[i].id, now[i].role = r.role,
         now[i].text = TextFromContent(r.parts),
         \A j \in 1..Len(said) : j # i => now[j] = said[j]
  PROVE  Mirrors(GeminiReplay(c, r), now)
<1> DEFINE n == Len(said)
           d == GeminiReplay(c, r)
<1>1. /\ c.messages \in Seq(Messages) /\ Len(c.messages) = n
      /\ DOMAIN c.index = {said[j].id : j \in 1..n}
      /\ \A j \in 1..n : c.index[said[j].id] = j
      /\ n \in Nat
  BY DEF Mirrors
<1>2. r.id \in DOMAIN c.index /\ c.index[r.id] = i
  BY <1>1
<1>3. d = GeminiMessage(c, r)
  <2>1. r.kind = "message"
    BY DEF Messages
  <2> QED
    BY <2>1 DEF GeminiReplay
<1>4. d.messages = [c.messages EXCEPT ![i] = r] /\ d.index = c.index
  BY <1>2, <1>3 DEF GeminiMessage
<1> HIDE DEF d
<1>5. /\ d.messages \in Seq(Messages) /\ Len(d.messages) = n
      /\ d.messages[i] = r
      /\ \A j \in 1..n : j # i => d.messages[j] = c.messages[j]
  BY <1>1, <1>4, ExceptSeq
<1>6. \A j \in 1..n : now[j].id = said[j].id
  OBVIOUS
<1>7. ASSUME NEW j \in 1..n
      PROVE  /\ d.messages[j].id = now[j].id
             /\ d.messages[j].role = now[j].role
             /\ TextFromContent(d.messages[j].parts) = now[j].text
  <2>1. CASE j = i
    BY <1>5, <2>1
  <2>2. CASE j # i
    BY <1>5, <2>2 DEF Mirrors
  <2> QED
    BY <2>1, <2>2
<1>8. DOMAIN d.index = {now[j].id : j \in 1..n}
  <2>1. {now[j].id : j \in 1..n} = {said[j].id : j \in 1..n}
    BY <1>6
  <2> QED
    BY <1>1, <1>4, <2>1
<1>9. \A j \in 1..n : d.index[now[j].id] = j
  BY <1>1, <1>4, <1>6
<1>10. Mirrors(d, now)
  BY <1>5, <1>7, <1>8, <1>9 DEF Mirrors
<1> QED
  BY <1>10 DEF d

(* A rewind cuts the conversation before its message, or wholly. *)
LEMMA MirrorsGoBack ==
  ASSUME NEW c, NEW said \in Seq(Sayings), Mirrors(c, said),
         NEW r, r.kind = "rewind", NEW k \in 0..Len(said),
         \/ k < Len(said) /\ r.id = said[k + 1].id
         \/ k = 0 /\ \A i \in 1..Len(said) : said[i].id # r.id
  PROVE  Mirrors(GeminiReplay(c, r), SubSeq(said, 1, k))
<1> DEFINE n == Len(said)
           kept == SubSeq(said, 1, k)
           messages == SubSeq(c.messages, 1, k)
<1>1. /\ c.messages \in Seq(Messages) /\ Len(c.messages) = n
      /\ DOMAIN c.index = {said[j].id : j \in 1..n}
      /\ \A j \in 1..n : c.index[said[j].id] = j
      /\ n \in Nat
  BY DEF Mirrors
<1>2. GeminiReplay(c, r) = Indexed(messages)
  <2>1. CASE k < n /\ r.id = said[k + 1].id
    <3>1. k + 1 \in 1..n
      BY <1>1, <2>1
    <3>2. r.id \in DOMAIN c.index /\ c.index[r.id] - 1 = k
      BY <1>1, <2>1, <3>1
    <3> QED
      BY <3>2 DEF GeminiReplay, GeminiRewind
  <2>2. CASE k = 0 /\ \A i \in 1..n : said[i].id # r.id
    <3>1. r.id \notin DOMAIN c.index
      BY <1>1, <2>2
    <3>2. messages = <<>>
      BY <1>1, <2>2
    <3> QED
      BY <3>1, <3>2 DEF GeminiReplay, GeminiRewind
  <2> QED
    BY <2>1, <2>2
<1>3. /\ kept \in Seq(Sayings) /\ Len(kept) = k
      /\ \A i \in 1..k : kept[i] = said[i]
      /\ \A i \in 1..k : i \in 1..n
  OBVIOUS
<1>4. /\ messages \in Seq(Messages) /\ Len(messages) = k
      /\ \A i \in 1..k : messages[i] = c.messages[i]
  BY <1>1
<1> HIDE DEF kept, messages
<1>5. SameMessages(messages, kept)
  BY <1>3, <1>4 DEF Mirrors, SameMessages
<1>6. DistinctIds(kept)
  BY <1>3, MirrorsDistinct DEF DistinctIds
<1> QED
  BY <1>2, <1>3, <1>5, <1>6, IndexedMirrors DEF kept

(* A snapshot is the conversation from then on. *)
LEMMA MirrorsSnapshot ==
  ASSUME NEW c, NEW r, r.kind = "snapshot", NEW said \in Seq(Sayings),
         SameMessages(r.body, said), DistinctIds(said)
  PROVE  Mirrors(GeminiReplay(c, r), said)
  BY IndexedMirrors DEF GeminiReplay, GeminiSnapshot

(* So its transcript is the conversation. *)
LEMMA MirrorIsHeard ==
  ASSUME NEW c, NEW said \in Seq(Sayings), Mirrors(c, said)
  PROVE  GeminiTurns(c.messages) = Heard("gemini", said)
<1>1. ASSUME NEW i \in 1..Len(said)
      PROVE  GeminiTurn(c.messages[i]) = HeardOf("gemini", said[i])
  <2> DEFINE m == c.messages[i]
             s == said[i]
             text == TextFromContent(m.parts)
  <2>1. /\ m \in Messages /\ s \in Sayings
        /\ m.role = s.role /\ text = s.text
    BY DEF Mirrors
  <2> HIDE DEF m, s, text
  <2>2. m.kind = "message" /\ m.role \in Speakers /\ text \in Texts
    BY <2>1 DEF Messages, Sayings
  <2>3. text # <<>> => Head(text) = text[1]
    BY <2>2 DEF Texts
  <2>4. GeminiTurn(m) = HeardOf("gemini", s)
    <3>1. CASE Transferable("gemini", s)
      <4>1. /\ text # <<>>
            /\ m.role = "user" => Head(text) # "context" /\ Head(text) # "slash"
        BY <2>1, <2>3, <3>1 DEF Transferable
      <4>2. KeepTranscriptTurn(m.role, text)
        BY <2>2, <4>1 DEF KeepTranscriptTurn, UsefulUserText, StartsWith, Speakers
      <4>3. ~(m.role = "user" /\ GeminiIgnoredUserText(text))
        BY <4>1 DEF GeminiIgnoredUserText, StartsWith
      <4>4. GeminiTurn(m) = <<Turn(m.role, text)>>
        BY <2>2, <4>2, <4>3 DEF GeminiTurn, TurnOf, text
      <4> QED
        BY <2>1, <3>1, <4>4 DEF HeardOf
    <3>2. CASE ~Transferable("gemini", s)
      <4>1. \/ text = <<>>
            \/ m.role = "user" /\ Head(text) \in {"context", "slash"} /\ text # <<>>
        BY <2>1, <2>3, <3>2 DEF Transferable
      <4>2. GeminiTurn(m) = <<>>
        BY <4>1 DEF GeminiTurn, GeminiIgnoredUserText, TurnOf, KeepTranscriptTurn,
                    UsefulUserText, StartsWith, text
      <4> QED
        BY <3>2, <4>2 DEF HeardOf
    <3> QED
      BY <3>1, <3>2
  <2> QED
    BY <2>4 DEF m, s
<1>2. Len(c.messages) = Len(said)
  BY DEF Mirrors
<1>3. [i \in 1..Len(said) |-> GeminiTurn(c.messages[i])]
        = [i \in 1..Len(said) |-> HeardOf("gemini", said[i])]
  BY <1>1
<1>4. GeminiTurns(c.messages)
        = FlattenSeq([i \in 1..Len(said) |-> GeminiTurn(c.messages[i])])
  BY <1>2 DEF GeminiTurns, Gathered
<1>5. Heard("gemini", said)
        = FlattenSeq([i \in 1..Len(said) |-> HeardOf("gemini", said[i])])
  BY DEF Heard, HeardOf, Gathered
<1> QED
  BY <1>3, <1>4, <1>5

-----------------------------------------------------------------------------
(* Pi: the line of parents of a record. *)
Ups(records, k) ==
    {j \in PiRead(records) : j < k /\ records[j].id = records[k].parent}

PathBody(records, path, k) ==
    IF Ups(records, k) = {} THEN <<k>>
    ELSE Append(path[Latest(Ups(records, k))], k)

(* A parent comes before its entry. *)
LEMMA UpsBefore ==
  ASSUME NEW records \in Seq(Records), NEW k \in 1..Len(records), Ups(records, k) # {}
  PROVE  /\ Latest(Ups(records, k)) \in Ups(records, k)
         /\ Latest(Ups(records, k)) \in 1..Len(records)
         /\ Latest(Ups(records, k)) < k
<1>1. Ups(records, k) \in SUBSET (1..Len(records)) /\ Len(records) \in Nat
      /\ \A j \in Ups(records, k) : j < k /\ j \in 1..Len(records)
  BY DEF Ups, PiRead
<1>2. Latest(Ups(records, k)) \in Ups(records, k)
  BY <1>1, LatestIs
<1> QED
  BY <1>1, <1>2

(* The line of parents of each entry: its own parent's line and itself. *)
LEMMA PathsAre ==
  ASSUME NEW records \in Seq(Records)
  PROVE  \A k \in 1..Len(records) :
            PiParents(records)[k] = PathBody(records, PiParents(records), k)
<1> DEFINE n == Len(records)
           Is(f, m) == f = [k \in 1..m |-> PathBody(records, f, k)]
           path == CHOOSE f : Is(f, n)
           S == {m \in 0..n : \E f : Is(f, m)}
<1>0. n \in Nat
  OBVIOUS
<1>1. 0 \in S
  <2> DEFINE f == [k \in 1..0 |-> 0]
  <2>1. Is(f, 0)
    OBVIOUS
  <2> HIDE DEF Is, f
  <2> QED
    BY <1>0, <2>1
<1>2. ASSUME NEW m \in 0..n - 1, m \in S PROVE m + 1 \in S
  <2>1. PICK f : Is(f, m)
    BY <1>2
  <2> DEFINE h == [k \in 1..m + 1 |-> PathBody(records, f, k)]
  <2>2. m \in Nat /\ m + 1 \in 0..n /\ m + 1 <= n
    BY <1>0
  <2>3. \A j \in 1..m : h[j] = f[j]
    <3>1. \A j \in 1..m : f[j] = PathBody(records, f, j)
      BY <2>1
    <3> HIDE DEF Is
    <3> QED
      BY <2>2, <3>1
  <2>4. ASSUME NEW k \in 1..m + 1 PROVE h[k] = PathBody(records, h, k)
    <3>1. h[k] = PathBody(records, f, k)
      OBVIOUS
    <3> HIDE DEF h
    <3>2. CASE Ups(records, k) = {}
      BY <3>1, <3>2 DEF PathBody
    <3>3. CASE Ups(records, k) # {}
      <4>1. k \in 1..n
        BY <2>2
      <4>2. Latest(Ups(records, k)) \in 1..m
        BY <2>2, <3>3, <4>1, UpsBefore
      <4> QED
        BY <2>3, <3>1, <3>3, <4>2 DEF PathBody
    <3> QED
      BY <3>2, <3>3
  <2>5. Is(h, m + 1)
    <3>1. h = [k \in 1..m + 1 |-> h[k]]
      OBVIOUS
    <3> HIDE DEF h
    <3> QED
      BY <2>4, <3>1
  <2> HIDE DEF Is, h
  <2> QED
    BY <2>2, <2>5
<1>3. n \in S
  <2>1. \A m \in 0..n - 1 : m \in S => m + 1 \in S
    BY <1>2
  <2> HIDE DEF S, n
  <2>2. 0..n \subseteq S
    BY <1>0, <1>1, <2>1, UpTo
  <2> QED
    BY <1>0, <2>2
<1>4. Is(path, n)
  <2>1. \E f : Is(f, n)
    BY <1>3
  <2> HIDE DEF Is
  <2> QED
    BY <2>1
<1>5. PiParents(records) = path
  BY DEF PiParents, PathBody, Ups
<1> HIDE DEF path
<1>6. \A k \in 1..n : path[k] = PathBody(records, path, k)
  BY <1>4
<1> QED
  BY <1>5, <1>6

(* What holds of a number whenever it holds of all before it holds of all. *)
LEMMA AllUpTo ==
  ASSUME NEW n \in Nat, NEW S,
         \A k \in 1..n : (\A j \in 1..n : j < k => j \in S) => k \in S
  PROVE  1..n \subseteq S
<1> DEFINE T == (1..n) \ S
<1> SUFFICES ASSUME T # {} PROVE FALSE
  OBVIOUS
<1>1. PICK k \in T : \A j \in T : k <= j
  <2>1. T \in SUBSET Nat
    OBVIOUS
  <2> HIDE DEF T
  <2> QED
    BY <2>1, LeastExists
<1>2. \A j \in 1..n : j < k => j \in S
  BY <1>1
<1> QED
  BY <1>1, <1>2

(* A line of parents names entries of the log. *)
LEMMA PathType ==
  ASSUME NEW records \in Seq(Records), NEW k \in 1..Len(records)
  PROVE  PiParents(records)[k] \in Seq(1..Len(records))
<1> DEFINE n == Len(records)
           path == PiParents(records)
           S == {i \in 1..n : path[i] \in Seq(1..n)}
<1>1. ASSUME NEW i \in 1..n, \A j \in 1..n : j < i => j \in S
      PROVE  i \in S
  <2>1. path[i] = PathBody(records, path, i)
    BY PathsAre
  <2>2. CASE Ups(records, i) = {}
    <3>1. path[i] = <<i>>
      BY <2>1, <2>2 DEF PathBody
    <3>2. <<i>> \in Seq(1..n)
      <4> HIDE DEF n, path, S
      <4> QED
        OBVIOUS
    <3> QED
      BY <3>1, <3>2
  <2>3. CASE Ups(records, i) # {}
    <3> DEFINE up == Latest(Ups(records, i))
    <3>1. up \in S
      BY <1>1, <2>3, UpsBefore
    <3> HIDE DEF up
    <3>2. path[up] \in Seq(1..n)
      BY <3>1
    <3>3. path[i] = Append(path[up], i)
      BY <2>1, <2>3 DEF PathBody, up
    <3> HIDE DEF path, n
    <3>4. path[i] \in Seq(1..n)
      BY <3>2, <3>3
    <3> QED
      BY <3>4
  <2> QED
    BY <2>2, <2>3
<1>2. 1..n \subseteq S
  <2>1. n \in Nat
    OBVIOUS
  <2>2. \A i \in 1..n : (\A j \in 1..n : j < i => j \in S) => i \in S
    BY <1>1
  <2> HIDE DEF n, S
  <2> QED
    BY <2>1, <2>2, AllUpTo
<1> QED
  BY <1>2

(* A record to come changes no line. *)
LEMMA LinesStay ==
  ASSUME NEW records \in Seq(Records), NEW r \in Records, NEW k \in 1..Len(records)
  PROVE  /\ PiParents(Append(records, r))[k] = PiParents(records)[k]
         /\ PiTurns(Append(records, r), PiParents(records)[k])
              = PiTurns(records, PiParents(records)[k])
<1> DEFINE n == Len(records)
           all == Append(records, r)
           old == PiParents(records)
           new == PiParents(all)
           S == {i \in 1..n : new[i] = old[i]}
<1>0. /\ n \in Nat /\ all \in Seq(Records) /\ Len(all) = n + 1
      /\ \A i \in 1..n : all[i] = records[i] /\ i \in 1..n + 1
  OBVIOUS
<1> HIDE DEF all
<1>1. ASSUME NEW i \in 1..n PROVE Ups(all, i) = Ups(records, i)
  <2>1. ASSUME NEW j, j < i, j \in 1..n + 1 PROVE j \in 1..n
    BY <1>0, <2>1
  <2>2. ASSUME NEW j, j < i PROVE j \in PiRead(all) <=> j \in PiRead(records)
    BY <1>0, <2>1, <2>2 DEF PiRead
  <2>3. \A j \in PiRead(records) : all[j] = records[j]
    BY <1>0 DEF PiRead
  <2> QED
    BY <1>0, <2>2, <2>3 DEF Ups
<1>2. ASSUME NEW i \in 1..n, \A j \in 1..n : j < i => j \in S
      PROVE  i \in S
  <2>1. new[i] = PathBody(all, new, i) /\ old[i] = PathBody(records, old, i)
    BY <1>0, PathsAre
  <2>2. CASE Ups(records, i) = {}
    BY <1>1, <2>1, <2>2 DEF PathBody
  <2>3. CASE Ups(records, i) # {}
    <3>1. Latest(Ups(records, i)) \in S
      BY <1>2, <2>3, UpsBefore
    <3>2. Ups(all, i) = Ups(records, i)
      BY <1>1
    <3> HIDE DEF old, new
    <3> QED
      BY <2>1, <2>3, <3>1, <3>2 DEF PathBody
  <2> QED
    BY <2>2, <2>3
<1>3. new[k] = old[k]
  <2>1. \A i \in 1..n : (\A j \in 1..n : j < i => j \in S) => i \in S
    BY <1>2
  <2>2. 1..n \subseteq S
    <3> HIDE DEF n, S
    <3> QED
      BY <1>0, <2>1, AllUpTo
  <2> QED
    BY <2>2
<1>4. PiTurns(all, old[k]) = PiTurns(records, old[k])
  <2> DEFINE q == old[k]
  <2>1. q \in Seq(1..n)
    BY PathType
  <2> HIDE DEF old, q, n
  <2>2. ASSUME NEW i \in 1..Len(q) PROVE q[i] \in 1..n
    BY <2>1, ElementOfSeq
  <2>3. \A i \in 1..Len(q) : all[q[i]] = records[q[i]]
    BY <1>0, <2>2
  <2>4. [i \in 1..Len(q) |-> TurnOf(all[q[i]])] = [i \in 1..Len(q) |-> TurnOf(records[q[i]])]
    BY <2>3
  <2>5. PiTurns(all, q) = PiTurns(records, q)
    BY <2>4 DEF PiTurns, Gathered
  <2> QED
    BY <2>5 DEF q
<1> QED
  BY <1>3, <1>4 DEF all

(* The line of a new record: its parent's and the record. *)
LEMMA NewLine ==
  ASSUME NEW records \in Seq(Records), NEW r \in Records
  PROVE  LET n == Len(records)
             all == Append(records, r)
         IN /\ Ups(all, n + 1) = {} =>
                  PiTurns(all, PiParents(all)[n + 1]) = TurnOf(r)
            /\ \A p \in 1..n : Ups(all, n + 1) = {p} =>
                  PiTurns(all, PiParents(all)[n + 1])
                    = PiTurns(records, PiParents(records)[p]) \o TurnOf(r)
<1> DEFINE n == Len(records)
           all == Append(records, r)
<1>0. /\ n \in Nat /\ all \in Seq(Records) /\ Len(all) = n + 1 /\ all[n + 1] = r
      /\ n + 1 \in 1..Len(all)
  OBVIOUS
<1> HIDE DEF all
<1>1. PiParents(all)[n + 1] = PathBody(all, PiParents(all), n + 1)
  BY <1>0, PathsAre
<1>2. ASSUME Ups(all, n + 1) = {}
      PROVE  PiTurns(all, PiParents(all)[n + 1]) = TurnOf(r)
  <2>1. PiParents(all)[n + 1] = <<n + 1>>
    BY <1>1, <1>2 DEF PathBody
  <2>2. PiTurns(all, <<n + 1>>) = TurnOf(all[n + 1])
    BY <1>0, PiTurnsSteps
  <2> QED
    BY <1>0, <2>1, <2>2
<1>3. ASSUME NEW p \in 1..n, Ups(all, n + 1) = {p}
      PROVE  PiTurns(all, PiParents(all)[n + 1])
               = PiTurns(records, PiParents(records)[p]) \o TurnOf(r)
  <2>1. Latest(Ups(all, n + 1)) = p
    <3>1. Ups(all, n + 1) # {}
      BY <1>3
    <3>2. Latest(Ups(all, n + 1)) \in Ups(all, n + 1)
      BY <1>0, <3>1, UpsBefore
    <3> QED
      BY <1>3, <3>2
  <2>2. PiParents(all)[n + 1] = Append(PiParents(all)[p], n + 1)
    BY <1>1, <1>3, <2>1 DEF PathBody
  <2>3. p \in 1..Len(all)
    BY <1>0
  <2>4. PiParents(all)[p] \in Seq(1..Len(all))
    BY <1>0, <2>3, PathType
  <2>5. PiTurns(all, Append(PiParents(all)[p], n + 1))
          = PiTurns(all, PiParents(all)[p]) \o TurnOf(all[n + 1])
    BY <1>0, <2>4, PiTurnsSteps
  <2>6. PiTurns(all, PiParents(all)[p]) = PiTurns(records, PiParents(records)[p])
    BY LinesStay DEF all
  <2> QED
    BY <1>0, <2>2, <2>5, <2>6
<1> QED
  BY <1>2, <1>3 DEF all

(* A suffix stays one when both go on alike. *)
LEMMA SuffixAppend ==
  ASSUME NEW A, NEW s \in Seq(A), NEW t \in Seq(A), NEW x \in Seq(A), IsSuffix(s, t)
  PROVE  IsSuffix(s \o x, t \o x)
<1>1. PICK u \in Seq(A) : t = u \o s
  BY SuffixHas
<1>2. (u \o s) \o x = u \o (s \o x)
  <2>1. \A a, b, c \in Seq(A) : (a \o b) \o c = a \o (b \o c)
    OBVIOUS
  <2> QED
    BY <2>1
<1>3. s \o x \in Seq(A)
  BY ConcatProperties
<1>4. IsSuffix(s \o x, u \o (s \o x))
  BY <1>3, SuffixIs
<1> QED
  BY <1>1, <1>2, <1>4

(* Everything, and nothing, is a suffix. *)
LEMMA SuffixSelf ==
  ASSUME NEW A, NEW s \in Seq(A)
  PROVE  IsSuffix(s, s) /\ IsSuffix(<<>>, s)
<1>1. <<>> \in Seq(A) /\ <<>> \o s = s /\ s \o <<>> = s
  BY ConcatEmptySeq
<1>2. IsSuffix(s, <<>> \o s) /\ IsSuffix(<<>>, s \o <<>>)
  BY <1>1, SuffixIs
<1> QED
  BY <1>1, <1>2

(* One more entry, of a known parent: its line fits what was said, and      *)
(* the other lines stay.                                                    *)
LEMMA PiAdd ==
  ASSUME NEW records \in Seq(Records), NEW conversations \in Seq(Seq(Sayings)),
         Len(conversations) = Len(records), LinesFit(records, conversations),
         \A i, j \in 1..Len(records) : records[i].id = records[j].id => i = j,
         NEW r \in Records, NEW base \in Seq(Sayings), NEW conversation \in Seq(Sayings),
         Heard("pi", conversation) = Heard("pi", base) \o TurnOf(r),
         r.kind = "long" =>
            conversation = IF records = <<>> THEN <<>> ELSE conversations[Len(records)],
         \/ records = <<>> /\ base = <<>>
         \/ \E p \in 1..Len(records) :
               r.parent = records[p].id /\ base = conversations[p]
  PROVE  LinesFit(Append(records, r), Append(conversations, conversation))
<1> DEFINE n == Len(records)
           all == Append(records, r)
           now == Append(conversations, conversation)
           Long(q) == \E i \in 1..Len(q) : q[i].kind = "long"
           T(k) == PiTurns(records, PiParents(records)[k])
           N(k) == PiTurns(all, PiParents(all)[k])
<1>0. /\ n \in Nat /\ all \in Seq(Records) /\ Len(all) = n + 1 /\ all[n + 1] = r
      /\ \A i \in 1..n : all[i] = records[i] /\ i \in 1..n + 1
      /\ now[n + 1] = conversation
      /\ \A i \in 1..n : now[i] = conversations[i] /\ conversations[i] \in Seq(Sayings)
      /\ n = 0 <=> records = <<>>
  OBVIOUS
<1>1. ASSUME NEW k \in 1..n PROVE N(k) = T(k)
  <2>1. PiParents(all)[k] = PiParents(records)[k]
    BY LinesStay
  <2>2. PiTurns(all, PiParents(records)[k]) = T(k)
    BY LinesStay
  <2> QED
    BY <2>1, <2>2
<1>2. ASSUME NEW k \in 1..n PROVE T(k) \in Seq(Turns)
  BY PathType, PiTurnsSteps
<1>3. TurnOf(r) \in Seq(Turns)
  BY TurnType
<1>4. ASSUME NEW k \in 1..n PROVE Heard("pi", conversations[k]) \in Seq(Turns)
  BY <1>0, HeardSteps
<1> HIDE DEF all, now, T, N
<1>5. Long(all) <=> Long(records) \/ r.kind = "long"
  <2>1. ASSUME Long(records) PROVE Long(all)
    BY <1>0, <2>1
  <2>2. ASSUME r.kind = "long" PROVE Long(all)
    <3>1. n + 1 \in 1..Len(all)
      BY <1>0
    <3> QED
      BY <1>0, <2>2, <3>1
  <2>3. ASSUME Long(all), r.kind # "long" PROVE Long(records)
    <3>1. PICK i \in 1..n + 1 : all[i].kind = "long"
      BY <1>0, <2>3
    <3>2. i \in 1..n
      BY <1>0, <2>3, <3>1
    <3> QED
      BY <1>0, <3>1, <3>2
  <2> QED
    BY <2>1, <2>2, <2>3
<1>6. PiRead(records) = {k \in 1..n : records[k].kind # "long"}
      /\ PiRead(all) = {k \in 1..n + 1 : all[k].kind # "long"}
  BY <1>0 DEF PiRead
<1> HIDE DEF n
<1>7. ASSUME NEW k \in PiRead(all), k # n + 1
      PROVE  LineFits(all, N(k), now[k])
  <2>1. k \in 1..n /\ all[k] = records[k] /\ now[k] = conversations[k] /\ k \in PiRead(records)
    BY <1>0, <1>6, <1>7
  <2>2. LineFits(records, T(k), conversations[k])
    BY <2>1 DEF LinesFit, T
  <2>3. N(k) = T(k)
    BY <1>1, <2>1
  <2> HIDE DEF Long
  <2>4. CASE Long(records)
    <3>1. IsSuffix(T(k), Heard("pi", conversations[k])) /\ Long(all)
      BY <1>5, <2>2, <2>4 DEF LineFits, Long
    <3> QED
      BY <2>1, <2>3, <3>1 DEF LineFits, Long
  <2>5. CASE ~Long(records)
    <3>1. T(k) = Heard("pi", conversations[k])
      BY <2>2, <2>5 DEF LineFits, Long
    <3>2. IsSuffix(N(k), Heard("pi", now[k]))
      BY <1>2, <2>1, <2>3, <3>1, SuffixSelf
    <3> QED
      BY <2>1, <2>3, <3>1, <3>2 DEF LineFits
  <2> QED
    BY <2>4, <2>5
<1>8. ASSUME r.kind # "long"
      PROVE  LineFits(all, N(n + 1), conversation)
  <2>1. Long(all) <=> Long(records)
    BY <1>5, <1>8
  <2>2. Ups(all, n + 1) = {j \in PiRead(records) : records[j].id = r.parent}
    <3>1. ASSUME NEW j PROVE j \in PiRead(all) /\ j < n + 1 <=> j \in PiRead(records)
      BY <1>0, <1>6
    <3>2. \A j \in PiRead(records) : all[j] = records[j]
      BY <1>0, <1>6
    <3> QED
      BY <1>0, <3>1, <3>2 DEF Ups
  <2>3. CASE records = <<>> /\ base = <<>>
    <3>1. Ups(all, n + 1) = {}
      BY <1>0, <1>6, <2>2, <2>3
    <3>2. N(n + 1) = TurnOf(r)
      BY <3>1, NewLine DEF all, N, n
    <3>3. Heard("pi", conversation) = TurnOf(r)
      <4>1. Heard("pi", base) = <<>>
        BY <2>3, HeardSteps
      <4> QED
        BY <1>3, <4>1, ConcatEmptySeq
    <3>4. ~Long(all)
      <4>1. ~Long(records)
        BY <2>3
      <4> QED
        BY <2>1, <4>1
    <3> QED
      BY <3>2, <3>3, <3>4 DEF LineFits
  <2>4. ASSUME NEW p \in 1..n, r.parent = records[p].id, base = conversations[p]
        PROVE  LineFits(all, N(n + 1), conversation)
    <3>1. /\ Heard("pi", base) \in Seq(Turns)
          /\ Heard("pi", conversation) = Heard("pi", base) \o TurnOf(r)
      BY <1>4, <2>4
    <3>2. CASE p \in PiRead(records)
      <4>1. Ups(all, n + 1) = {p}
        <5>1. ASSUME NEW j \in PiRead(records), records[j].id = r.parent PROVE j = p
          <6>1. j \in 1..n
            BY <1>6
          <6> QED
            BY <2>4, <5>1, <6>1 DEF n
        <5> QED
          BY <2>2, <2>4, <3>2, <5>1
      <4>2. N(n + 1) = T(p) \o TurnOf(r)
        BY <4>1, NewLine DEF all, N, n, T
      <4>3. LineFits(records, T(p), base)
        BY <2>4, <3>2 DEF LinesFit, T
      <4> HIDE DEF Long
      <4>4. CASE Long(records)
        <5>1. IsSuffix(T(p), Heard("pi", base))
          BY <4>3, <4>4 DEF LineFits, Long
        <5>2. IsSuffix(T(p) \o TurnOf(r), Heard("pi", base) \o TurnOf(r))
          BY <1>2, <1>3, <3>1, <5>1, SuffixAppend
        <5>3. Long(all)
          BY <2>1, <4>4
        <5> QED
          BY <3>1, <4>2, <5>2, <5>3 DEF LineFits, Long
      <4>5. CASE ~Long(records)
        <5>1. T(p) = Heard("pi", base)
          BY <4>3, <4>5 DEF LineFits, Long
        <5>2. ~Long(all)
          BY <2>1, <4>5
        <5> QED
          BY <3>1, <4>2, <5>1, <5>2 DEF LineFits, Long
      <4> QED
        BY <4>4, <4>5
    <3>3. CASE p \notin PiRead(records)
      <4>1. Ups(all, n + 1) = {}
        <5>1. ASSUME NEW j \in PiRead(records), records[j].id = r.parent PROVE FALSE
          <6>1. j \in 1..n
            BY <1>6
          <6>2. j = p
            BY <2>4, <5>1, <6>1 DEF n
          <6> QED
            BY <3>3, <6>2
        <5> QED
          BY <2>2, <5>1
      <4>2. N(n + 1) = TurnOf(r)
        BY <4>1, NewLine DEF all, N, n
      <4>3. Long(all)
        <5>1. records[p].kind = "long"
          BY <1>6, <3>3
        <5> QED
          BY <1>0, <2>1, <5>1 DEF n
      <4>4. IsSuffix(TurnOf(r), Heard("pi", base) \o TurnOf(r))
        BY <1>3, <3>1, SuffixIs
      <4> QED
        BY <3>1, <4>2, <4>3, <4>4 DEF LineFits
    <3> QED
      BY <3>2, <3>3
  <2> QED
    BY <2>3, <2>4 DEF n
<1>9. \A k \in PiRead(all) : LineFits(all, N(k), now[k])
  <2> SUFFICES ASSUME NEW k \in PiRead(all) PROVE LineFits(all, N(k), now[k])
    OBVIOUS
  <2>1. CASE k # n + 1
    BY <1>7, <2>1
  <2>2. CASE k = n + 1
    <3>1. r.kind # "long"
      BY <1>0, <1>6, <2>2
    <3> QED
      BY <1>0, <1>8, <2>2, <3>1
  <2> QED
    BY <2>1, <2>2
<1>10. ASSUME NEW k \in (1..Len(all)) \ PiRead(all)
       PROVE  now[k] = IF k = 1 THEN <<>> ELSE now[k - 1]
  <2>1. k \in 1..n + 1 /\ all[k].kind = "long"
    BY <1>0, <1>6
  <2>2. CASE k = n + 1
    <3>1. r.kind = "long"
      BY <1>0, <2>1, <2>2
    <3>2. conversation = IF records = <<>> THEN <<>> ELSE conversations[n]
      BY <3>1 DEF n
    <3>3. k = 1 <=> records = <<>>
      BY <1>0, <2>2
    <3>4. k # 1 => now[k - 1] = conversations[n]
      BY <1>0, <2>2
    <3> QED
      BY <1>0, <2>2, <3>2, <3>3, <3>4
  <2>3. CASE k # n + 1
    <3>1. k \in 1..n /\ k \notin PiRead(records)
      BY <1>0, <1>6, <2>1, <2>3
    <3>2. conversations[k] = IF k = 1 THEN <<>> ELSE conversations[k - 1]
      BY <3>1 DEF LinesFit, n
    <3>3. k # 1 => k - 1 \in 1..n
      BY <1>0, <3>1
    <3> QED
      BY <1>0, <3>1, <3>2, <3>3
  <2> QED
    BY <2>2, <2>3
<1>11. LinesFit(all, now)
  BY <1>9, <1>10 DEF LinesFit, N
<1> QED
  BY <1>11 DEF all, now

(* The last record that was read gives the transcript. *)
LEMMA PiFits ==
  ASSUME NEW records \in Seq(Records), NEW conversations \in Seq(Seq(Sayings)),
         Len(conversations) = Len(records), LinesFit(records, conversations)
  PROVE  LineFits(records, PiTranscript(records),
                  IF records = <<>> THEN <<>> ELSE conversations[Len(records)])
<1> DEFINE n == Len(records)
           said == IF records = <<>> THEN <<>> ELSE conversations[n]
<1>0. n \in Nat /\ (n = 0 <=> records = <<>>)
      /\ \A k \in 1..n : conversations[k] \in Seq(Sayings)
  OBVIOUS
<1>1. said \in Seq(Sayings)
  BY <1>0
<1>2. Heard("pi", said) \in Seq(Turns)
  BY <1>1, HeardSteps
<1>3. CASE PiRead(records) = {}
  <2>1. PiTranscript(records) = <<>>
    BY <1>3, PiTurnsSteps DEF PiTranscript, PiPath
  <2>2. CASE n = 0
    <3>1. Heard("pi", said) = <<>>
      BY <1>0, <2>2, HeardSteps
    <3>2. ~\E i \in 1..n : records[i].kind = "long"
      BY <2>2
    <3> QED
      BY <2>1, <3>1, <3>2 DEF LineFits
  <2>3. CASE n # 0
    <3>1. 1 \in 1..n /\ records[1].kind = "long"
      BY <1>0, <1>3, <2>3 DEF PiRead
    <3>2. IsSuffix(<<>>, Heard("pi", said))
      BY <1>2, SuffixSelf
    <3> QED
      BY <2>1, <3>1, <3>2 DEF LineFits
  <2> QED
    BY <2>2, <2>3
<1>4. CASE PiRead(records) # {}
  <2> DEFINE m == Latest(PiRead(records))
             S == {d \in 0..n - m : conversations[m + d] = conversations[m]}
  <2>1. m \in PiRead(records) /\ \A j \in PiRead(records) : j <= m
    <3>1. PiRead(records) \in SUBSET (1..n)
      BY DEF PiRead
    <3> HIDE DEF n
    <3> QED
      BY <1>0, <1>4, <3>1, LatestIs
  <2>2. m \in 1..n /\ \A k \in 1..n : k > m => k \notin PiRead(records)
    <3>1. m \in 1..n
      BY <2>1 DEF PiRead
    <3> HIDE DEF m, n
    <3>2. ASSUME NEW k \in 1..n, k > m, k \in PiRead(records) PROVE FALSE
      BY <1>0, <2>1, <3>1, <3>2
    <3> QED
      BY <3>1, <3>2
  <2> HIDE DEF m
  <2>3. 0 \in S
    <3>1. m \in Nat /\ m + 0 = m /\ 0 \in 0..n - m
      BY <1>0, <2>2
    <3> QED
      BY <3>1
  <2>4. ASSUME NEW d \in 0..(n - m) - 1, d \in S PROVE d + 1 \in S
    <3>1. /\ m + (d + 1) \in 1..n /\ m + (d + 1) > m /\ m + (d + 1) # 1
          /\ (m + (d + 1)) - 1 = m + d /\ d + 1 \in 0..n - m
      BY <1>0, <2>2
    <3>2. m + (d + 1) \in (1..n) \ PiRead(records)
      BY <2>2, <3>1
    <3>3. conversations[m + (d + 1)] = conversations[m + d]
      BY <3>1, <3>2 DEF LinesFit
    <3>4. conversations[m + d] = conversations[m]
      BY <2>4
    <3> QED
      BY <3>1, <3>3, <3>4
  <2>5. n - m \in S
    <3>1. n - m \in Nat
      BY <1>0, <2>2
    <3>2. \A d \in 0..(n - m) - 1 : d \in S => d + 1 \in S
      BY <2>4
    <3> DEFINE l == n - m
    <3> HIDE DEF S, l
    <3>3. 0..l \subseteq S
      BY <2>3, <3>1, <3>2, UpTo DEF l
    <3>4. l \in 0..l
      BY <3>1 DEF l
    <3> QED
      BY <3>3, <3>4 DEF l
  <2>6. conversations[n] = conversations[m]
    <3>1. m + (n - m) = n
      BY <1>0, <2>2
    <3>2. conversations[m + (n - m)] = conversations[m]
      BY <2>5
    <3> QED
      BY <3>1, <3>2
  <2>7. LineFits(records, PiTurns(records, PiParents(records)[m]), conversations[m])
    BY <2>1 DEF LinesFit
  <2>8. PiTranscript(records) = PiTurns(records, PiParents(records)[m])
    BY <1>4 DEF PiTranscript, PiPath, m
  <2>9. said = conversations[m]
    BY <1>0, <2>2, <2>6
  <2> HIDE DEF said, n
  <2>10. LineFits(records, PiTranscript(records), said)
    BY <2>7, <2>8, <2>9
  <2> QED
    BY <2>10 DEF said, n
<1> QED
  BY <1>3, <1>4

(* A written session of Pi: each message's parent is the one before. *)
LEMMA RetoldOne ==
  ASSUME NEW f, f # "gemini", NEW turns \in Seq(Turns), NEW i \in 1..Len(turns)
  PROVE  HeardOf(f, Retold(turns)[i]) = <<turns[i]>>
<1>1. turns[i] \in Turns
  OBVIOUS
<1>2. Retold(turns)[i].role = turns[i].role /\ Retold(turns)[i].text = turns[i].text
  BY RetoldType
<1>3. Transferable(f, Retold(turns)[i])
  BY <1>1, <1>2, TurnFacts DEF Transferable
<1> QED
  BY <1>1, <1>2, <1>3, TurnFacts DEF HeardOf

(* Pi's written session: every line of parents fits. *)
LEMMA PiWritten ==
  ASSUME NEW turns \in Seq(Turns)
  PROVE  LinesFit(Chained(turns),
                  [k \in 1..Len(turns) |-> SubSeq(Retold(turns), 1, k)])
<1> DEFINE n == Len(turns)
           chain == Chained(turns)
           conv == Retold(turns)
           told1 == [k \in 1..n |-> SubSeq(conv, 1, k)]
           Fine(k) == LinesFit(SubSeq(chain, 1, k), SubSeq(told1, 1, k))
           S == {k \in 0..n : Fine(k)}
<1>0. /\ n \in Nat /\ chain \in Seq(Records) /\ Len(chain) = n
      /\ conv \in Seq(Sayings) /\ Len(conv) = n
  <2>1. n \in Nat
    OBVIOUS
  <2>2. chain \in Seq(Records) /\ Len(chain) = n
    BY ChainedType, TurnsOfChained
  <2>3. conv \in Seq(Sayings) /\ Len(conv) = n
    BY RetoldType
  <2> QED
    BY <2>1, <2>2, <2>3
<1>1. \A i \in 1..n : /\ chain[i] \in Records /\ chain[i].id = i
                      /\ chain[i].parent = i - 1 /\ chain[i].kind = "message"
                      /\ TurnOf(chain[i]) = <<turns[i]>>
  <2>1. \A i \in 1..n : chain[i] \in Messages
    BY ChainedType
  <2>2. \A i \in 1..n : /\ chain[i].id = i
                        /\ chain[i].parent = i - 1 /\ chain[i].kind = "message"
                        /\ TurnOf(chain[i]) = <<turns[i]>>
    BY ChainedType
  <2> QED
    BY <2>1, <2>2, MessagesAreRecords
<1>2. \A i \in 1..n : /\ HeardOf("pi", conv[i]) = <<turns[i]>>
                      /\ conv[i] \in Sayings
  <2>1. \A i \in 1..n : HeardOf("pi", conv[i]) = <<turns[i]>>
    BY RetoldOne
  <2>2. \A i \in 1..n : conv[i] \in Sayings
    <3> HIDE DEF conv, n
    <3> QED
      BY <1>0
  <2> QED
    BY <2>1, <2>2
<1> HIDE DEF chain, conv, n
<1>3. told1 \in Seq(Seq(Sayings)) /\ Len(told1) = n
      /\ \A k \in 1..n : told1[k] = SubSeq(conv, 1, k)
  <2>1. \A k \in 1..n : SubSeq(conv, 1, k) \in Seq(Sayings)
    BY <1>0
  <2> QED
    BY <1>0, <2>1
<1> HIDE DEF told1
<1>4. 0 \in S
  <2>1. SubSeq(chain, 1, 0) = <<>> /\ SubSeq(told1, 1, 0) = <<>>
    BY <1>0, <1>3
  <2>2. LinesFit(<<>>, <<>>)
    BY DEF LinesFit, PiRead
  <2>3. Fine(0)
    BY <2>1, <2>2
  <2> HIDE DEF Fine
  <2> QED
    BY <1>0, <2>3
<1>5. ASSUME NEW k \in 0..n - 1, k \in S PROVE k + 1 \in S
  <2> DEFINE records == SubSeq(chain, 1, k)
             before == SubSeq(told1, 1, k)
             base == SubSeq(conv, 1, k)
             conversation == SubSeq(conv, 1, k + 1)
             r == chain[k + 1]
  <2>1. k \in Nat /\ k + 1 \in 1..n /\ k + 1 \in 0..n /\ k <= n
    BY <1>0
  <2>2. /\ records \in Seq(Records) /\ Len(records) = k
        /\ \A i \in 1..k : records[i] = chain[i] /\ i \in 1..n
    BY <1>0, <2>1
  <2>3. /\ before \in Seq(Seq(Sayings)) /\ Len(before) = k
        /\ \A i \in 1..k : before[i] = told1[i]
    BY <1>3, <2>1
  <2>4. base \in Seq(Sayings) /\ conversation \in Seq(Sayings)
        /\ conversation = Append(base, conv[k + 1])
    BY <1>0, <2>1
  <2>5. SubSeq(chain, 1, k + 1) = Append(records, r)
    BY <1>0, <2>1
  <2>6. SubSeq(told1, 1, k + 1) = Append(before, conversation)
    BY <1>3, <2>1
  <2>7. r \in Records /\ r.parent = k /\ r.kind = "message" /\ TurnOf(r) = <<turns[k + 1]>>
    BY <1>1, <2>1
  <2>8. LinesFit(records, before)
    BY <1>5
  <2> HIDE DEF records, before, base, conversation, r
  <2>9. Heard("pi", conversation) = Heard("pi", base) \o TurnOf(r)
    <3>1. conv[k + 1] \in Sayings /\ HeardOf("pi", conv[k + 1]) = TurnOf(r)
      BY <1>2, <2>1, <2>7
    <3>2. Heard("pi", Append(base, conv[k + 1]))
            = Heard("pi", base) \o HeardOf("pi", conv[k + 1])
      BY <2>4, <3>1, HeardSteps
    <3> QED
      BY <2>4, <3>1, <3>2
  <2>10. \A i, j \in 1..Len(records) : records[i].id = records[j].id => i = j
    BY <1>1, <2>2
  <2>11. \/ records = <<>> /\ base = <<>>
         \/ \E p \in 1..Len(records) : r.parent = records[p].id /\ base = before[p]
    <3>1. CASE k = 0
      <4>1. base = <<>>
        BY <1>0, <3>1 DEF base
      <4> QED
        BY <2>2, <3>1, <4>1
    <3>2. CASE k # 0
      <4>1. k \in 1..k /\ k \in 1..n
        BY <2>1, <3>2
      <4>2. records[k].id = k /\ before[k] = base
        BY <1>1, <1>3, <2>2, <2>3, <4>1 DEF base
      <4> QED
        BY <2>2, <2>7, <4>1, <4>2
    <3> QED
      BY <3>1, <3>2
  <2>12. LinesFit(Append(records, r), Append(before, conversation))
    BY <2>2, <2>3, <2>4, <2>7, <2>8, <2>9, <2>10, <2>11, PiAdd
  <2> QED
    BY <2>1, <2>5, <2>6, <2>12
<1>6. n \in S
  <2>1. \A k \in 0..n - 1 : k \in S => k + 1 \in S
    BY <1>5
  <2> HIDE DEF S
  <2>2. 0..n \subseteq S
    BY <1>0, <1>4, <2>1, UpTo
  <2> QED
    BY <1>0, <2>2
<1>7. SubSeq(chain, 1, n) = chain /\ SubSeq(told1, 1, n) = told1
  BY <1>0, <1>3
<1>8. LinesFit(chain, told1)
  BY <1>6, <1>7
<1> QED
  BY <1>8 DEF chain, told1, n, conv

-----------------------------------------------------------------------------
(* The inductive invariant gives the invariants. *)
LEMMA SaidType ==
  ASSUME TypeOK
  PROVE  /\ Said \in Seq(Sayings)
         /\ Said = IF log = <<>> THEN <<>> ELSE told[Len(log)]
<1>1. told \in Seq(Seq(Sayings)) /\ Len(told) = Len(log) /\ log \in Seq(Records)
  BY DEF TypeOK
<1>2. Said = IF log = <<>> THEN <<>> ELSE told[Len(log)]
  BY <1>1 DEF Said, Last
<1>3. CASE log = <<>>
  BY <1>2, <1>3
<1>4. CASE log # <<>>
  <2>1. Len(log) \in 1..Len(told)
    BY <1>1, <1>4
  <2>2. told[Len(log)] \in Seq(Sayings)
    BY <1>1, <2>1, ElementOfSeq
  <2> QED
    BY <1>2, <1>4, <2>2
<1> QED
  BY <1>2, <1>3, <1>4

(* For each format, the part of IInv about it is the reader's result. *)
LEMMA TranscriptFits ==
  ASSUME IInv
  PROVE  TranscriptIsConversation
<1>1. /\ TypeOK /\ IdInv /\ LinearInv /\ AntigravityInv /\ GeminiInv /\ PiInv
      /\ log \in Seq(Records) /\ format \in Formats /\ Said \in Seq(Sayings)
  BY SaidType DEF IInv, TypeOK
<1>2. CASE format \in {"codex", "claude", "pi1", "jcode", "opencode"}
  <2>1. Transcript(format, log) = TurnsOf(log)
    BY <1>2 DEF Transcript, CodexTranscript, ClaudeTranscript, LegacyPiTranscript,
                JCodeTranscript, OpenCodeTranscript
  <2> QED
    BY <1>1, <1>2, <2>1 DEF LinearInv, TranscriptIsConversation
<1>3. CASE format = "mimo"
  <2>1. Transcript(format, log) = MimoTranscript(log)
    BY <1>3 DEF Transcript
  <2>2. Distinct(log)
    BY <1>1, <1>3 DEF IdInv, Distinct
  <2>3. MimoTranscript(log) = IF CutOff(log) THEN <<>> ELSE TurnsOf(log)
    BY <1>1, <2>2, MimoIsTurns
  <2> QED
    BY <1>1, <1>3, <2>1, <2>3 DEF LinearInv, TranscriptIsConversation
<1>4. CASE format = "antigravity"
  BY <1>1, <1>4 DEF Transcript, AntigravityInv, TranscriptIsConversation
<1>5. CASE format = "gemini"
  <2>1. Transcript(format, log) = GeminiTurns(LoadGeminiConversation(log).messages)
    BY <1>5 DEF Transcript, GeminiTranscript, GeminiTurns
  <2>2. Mirrors(LoadGeminiConversation(log), Said)
    BY <1>1, <1>5 DEF GeminiInv
  <2>3. GeminiTurns(LoadGeminiConversation(log).messages) = Heard("gemini", Said)
    BY <1>1, <2>2, MirrorIsHeard
  <2> QED
    BY <1>5, <2>1, <2>3 DEF TranscriptIsConversation
<1>6. CASE format = "pi"
  <2>1. Transcript(format, log) = PiTranscript(log)
    BY <1>6 DEF Transcript
  <2>2. LinesFit(log, told)
    BY <1>1, <1>6 DEF PiInv
  <2>3. told \in Seq(Seq(Sayings)) /\ Len(told) = Len(log)
    BY <1>1 DEF TypeOK
  <2>4. LineFits(log, PiTranscript(log), IF log = <<>> THEN <<>> ELSE told[Len(log)])
    BY <1>1, <2>2, <2>3, PiFits
  <2>5. LineFits(log, PiTranscript(log), Said)
    BY <1>1, <2>4, SaidType
  <2> QED
    BY <1>6, <2>1, <2>5 DEF LineFits, TranscriptIsConversation
<1> QED
  BY <1>1, <1>2, <1>3, <1>4, <1>5, <1>6 DEF Formats

(* The lists of Pi, jcode and Antigravity are made from the transcript. *)
LEMMA GeminiListed ==
  ASSUME NEW messages \in Seq(Messages), GeminiTurns(messages) # <<>>,
         \A i \in DOMAIN messages :
            ~(messages[i].role = "assistant" /\ messages[i].parts # <<>>)
  PROVE  Users(GeminiTurns(messages)) # <<>>
  BY NoReplyAllUsers

(* What Preview makes is listed. *)
LEMMA PreviewListed ==
  /\ ~NoRow.listed
  /\ \A texts : Preview(texts).listed
  /\ \A turns : UserPreview(turns).listed
<1>1. \A texts : Preview(texts).listed
  BY DEF Preview, Listed
<1> QED
  BY <1>1 DEF NoRow, UserPreview

(* A head that cannot be read has an oversized record before the scan has   *)
(* all it waits for.                                                        *)
LEMMA HeadSettles ==
  ASSUME NEW f, NEW how, NEW records \in Seq(Records), ~HeadReadable(f, how, records)
  PROVE  \E i \in 1..Len(records) :
            records[i].kind = "long" /\ ~Settled(f, how, SubSeq(records, 1, i - 1))
<1>1. PICK i \in 1..Len(records) :
         /\ records[i].kind = "long"
         /\ \/ \A j \in 1..i-1 : ~UserRecord(records[j])
            \/ \A j \in 1..i-1 : ~(IF f = "codex" THEN Meta(records[j])
                                    ELSE NamesLaunch(how, records[j]))
  BY DEF HeadReadable
<1> DEFINE before == SubSeq(records, 1, i - 1)
<1>2. Len(before) = i - 1 /\ \A j \in 1..i-1 : before[j] = records[j]
  OBVIOUS
<1> HIDE DEF before
<1>3. CASE \A j \in 1..i-1 : ~UserRecord(records[j])
  <2>1. ~Settled(f, how, before)
    BY <1>2, <1>3 DEF Settled
  <2> QED
    BY <1>1, <2>1 DEF before
<1>4. CASE \A j \in 1..i-1 : ~(IF f = "codex" THEN Meta(records[j])
                               ELSE NamesLaunch(how, records[j]))
  <2>1. ~Settled(f, how, before)
    BY <1>2, <1>4 DEF Settled, NamesLaunch
  <2> QED
    BY <1>1, <2>1 DEF before
<1> QED
  BY <1>1, <1>3, <1>4

(* For each format, the row against the transcript. *)
LEMMA RowShows ==
  ASSUME IInv
  PROVE  RowShowsTranscript
<1> DEFINE turns == Transcript(format, log)
           users == Users(turns)
           row == RowOf(format, standing, log)
<1>1. /\ TypeOK /\ IdInv /\ LinearInv /\ AntigravityInv /\ GeminiInv /\ PiInv /\ PartsInv
      /\ log \in Seq(Records) /\ format \in Formats /\ Said \in Seq(Sayings)
  BY SaidType DEF IInv, TypeOK
<1>2. CASE format \in {"codex", "claude"}
  <2>1. turns = TurnsOf(log)
    BY <1>2 DEF Transcript, CodexTranscript, ClaudeTranscript
  <2>2. /\ row \in {NoRow, Preview(Prompts(log))}
        /\ row = NoRow => standing = "child" \/ ~HeadReadable(format, standing, log)
    <3>1. NoRow # Preview(Prompts(log))
      BY PreviewListed
    <3>2. CASE format = "codex"
      BY <3>1, <3>2 DEF RowOf, ParseCodex
    <3>3. CASE format = "claude"
      BY <3>1, <3>3 DEF RowOf, ParseClaude
    <3> QED
      BY <1>2, <3>2, <3>3
  <2>3. Preview(Prompts(log)) = UserPreview(turns)
    BY <1>1, <2>1, PromptsAreUsers DEF UserPreview
  <2> HIDE DEF turns, row
  <2>4. /\ row.listed => row = UserPreview(turns)
        /\ ~row.listed => standing = "child" \/ ~HeadReadable(format, standing, log)
    BY <2>2, <2>3, PreviewListed
  <2>5. ~row.listed =>
          \/ standing = "child"
          \/ \E i \in 1..Len(log) : /\ log[i].kind = "long"
                                   /\ ~Settled(format, standing, SubSeq(log, 1, i - 1))
    BY <1>1, <2>4, HeadSettles
  <2> QED
    BY <1>2, <2>4, <2>5 DEF RowShowsTranscript, turns, row
<1>3. CASE format = "gemini"
  <2> DEFINE messages == LoadGeminiConversation(log).messages
             replied == \E i \in DOMAIN messages :
                           messages[i].role = "assistant" /\ messages[i].parts # <<>>
  <2>1. turns = GeminiTurns(messages) /\ turns = GeminiTranscript(log)
    BY <1>3 DEF Transcript, GeminiTranscript, GeminiTurns
  <2>2. row = IF standing = "child" \/ (~replied /\ users = <<>>) THEN NoRow ELSE UserPreview(turns)
    BY <1>3, <2>1 DEF RowOf, ParseGemini
  <2>3. messages \in Seq(Messages)
    BY <1>1, <1>3 DEF GeminiInv, Mirrors
  <2>4. turns # <<>> /\ ~replied => users # <<>>
    <3> HIDE DEF messages
    <3> QED
      BY <2>1, <2>3, GeminiListed
  <2> HIDE DEF turns, row, users, messages
  <2>5. /\ row.listed => row = UserPreview(turns)
        /\ turns # <<>> /\ ~row.listed => standing = "child"
    BY <2>2, <2>4, PreviewListed
  <2> QED
    BY <1>3, <2>5 DEF RowShowsTranscript, turns, row, users
<1>4. CASE format \in {"pi", "pi1"}
  <2>1. row = IF turns = <<>> THEN NoRow ELSE UserPreview(turns)
    BY <1>4 DEF RowOf, ParsePi
  <2> HIDE DEF turns, row, users
  <2>2. /\ row.listed => row = UserPreview(turns)
        /\ turns # <<>> => row.listed
    BY <2>1, PreviewListed
  <2> QED
    BY <1>4, <2>2 DEF RowShowsTranscript, turns, row, users
<1>5. CASE format = "jcode"
  <2>1. row = IF users = <<>> THEN NoRow ELSE UserPreview(turns)
    BY <1>5 DEF RowOf, ParseJCode, Transcript
  <2> HIDE DEF turns, row, users
  <2>2. /\ row.listed => row = UserPreview(turns)
        /\ ~row.listed => users = <<>>
    BY <2>1, PreviewListed
  <2> QED
    BY <1>5, <2>2 DEF RowShowsTranscript, turns, row, users
<1>6. CASE format = "antigravity"
  <2>1. row = IF turns = <<>> THEN NoRow ELSE UserPreview(turns)
    BY <1>6 DEF RowOf, ParseAntigravity, Transcript
  <2> HIDE DEF turns, row, users
  <2>2. /\ row.listed => row = UserPreview(turns)
        /\ turns # <<>> => row.listed
    BY <2>1, PreviewListed
  <2> QED
    BY <1>6, <2>2 DEF RowShowsTranscript, turns, row, users
<1>7. CASE format \in {"opencode", "mimo"}
  <2> DEFINE texts == UserParts(log)
             Useful(text) == IF UsefulUserText(text) THEN text ELSE <<>>
             shown == Preview(texts)
             away == standing \in {"child", "archived", "imported"}
             cut == format = "mimo" /\ CutOff(log)
  <2>1. turns = IF cut THEN <<>> ELSE TurnsOf(log)
    <3>1. CASE format = "opencode"
      BY <3>1 DEF Transcript, OpenCodeTranscript
    <3>2. CASE format = "mimo"
      <4>1. Distinct(log)
        BY <1>1, <3>2 DEF IdInv, Distinct
      <4> QED
        BY <1>1, <3>2, <4>1, MimoIsTurns DEF Transcript
    <3> QED
      BY <1>7, <3>1, <3>2
  <2>2. row = IF away \/ (format = "mimo" /\ (TooLarge(shown.first) \/ TooLarge(shown.last)))
              THEN NoRow ELSE Listed(Useful(shown.first), Useful(shown.last))
    BY <1>7 DEF RowOf, ParseOpenCode
  <2>3. turns # <<>> /\ ~row.listed => away
    <3> SUFFICES ASSUME turns # <<>>, format = "mimo" PROVE ~TooLarge(shown.first) /\ ~TooLarge(shown.last)
      BY <1>7, <2>2 DEF Listed
    <3>1. ~CutOff(log)
      BY <2>1
    <3> QED
      BY <1>1, <3>1, QueryPrinted
  <2>4. CASE cut
    <3>1. turns = <<>>
      BY <2>1, <2>4
    <3> QED
      BY <1>7, <2>4, <3>1 DEF RowShowsTranscript
  <2> SUFFICES ASSUME ~cut PROVE RowShowsTranscript
    BY <2>4
  <2>5. texts \in Seq(Texts) /\ Finds(texts, users)
    <3>1. \A i \in 1..Len(log) : PartsFine(log[i])
      BY <1>1, <1>7 DEF PartsInv
    <3> QED
      BY <1>1, <2>1, <3>1, QueryOfRecords
  <2>6. users \in Seq(Turns)
    BY <1>1, <2>1, TurnsSteps, UsersSteps
  <2>7. \A i \in 1..Len(users) : users[i].text \in Seq(Marks)
    <3>1. \A i \in 1..Len(users) : users[i] \in Turns
      <4> HIDE DEF users
      <4> QED
        BY <2>6
    <3> QED
      BY <3>1, TurnFacts DEF Texts
  <2> HIDE DEF turns, row, users, texts, away, cut
  <2>8. shown = IF texts = <<>> THEN Listed(<<>>, <<>>)
                ELSE Listed(texts[1], texts[Len(texts)])
    BY DEF Preview, Last
  <2>9. ASSUME row.listed, NEW text \in {row.first, row.last} \ {<<>>}
        PROVE  \E i \in 1..Len(users) :
                  IsPrefix(text, users[i].text) \/ IsSuffix(text, users[i].text)
    <3>1. row.first = Useful(shown.first) /\ row.last = Useful(shown.last)
      BY <2>2, <2>9, PreviewListed DEF Listed
    <3>2. texts # <<>> /\ UsefulUserText(text)
          /\ (text = texts[1] \/ text = texts[Len(texts)])
      <4>1. CASE texts = <<>>
        <5>1. shown.first = <<>> /\ shown.last = <<>>
          BY <2>8, <4>1 DEF Listed
        <5> HIDE DEF shown
        <5> QED
          BY <2>9, <3>1, <5>1 DEF UsefulUserText
      <4>2. CASE texts # <<>>
        <5>1. shown.first = texts[1] /\ shown.last = texts[Len(texts)]
          BY <2>8, <4>2 DEF Listed
        <5> HIDE DEF shown
        <5> QED
          BY <2>9, <3>1, <4>2, <5>1
      <4> QED
        BY <4>1, <4>2
    <3>3. CASE text = texts[1]
      <4>1. PICK i \in 1..Len(users), u \in Texts : users[i].text = text \o u
        BY <2>5, <3>2, <3>3 DEF Finds
      <4>2. text \in Seq(Marks) /\ u \in Seq(Marks)
        BY <2>5, <3>2, <3>3 DEF Texts
      <4>3. IsPrefix(text, text \o u)
        BY <4>2, PrefixIs
      <4> QED
        BY <4>1, <4>3
    <3>4. CASE text = texts[Len(texts)]
      <4>1. PICK i \in 1..Len(users), u \in Texts : users[i].text = u \o text
        BY <2>5, <3>2, <3>4 DEF Finds
      <4>2. text \in Seq(Marks) /\ u \in Seq(Marks)
        BY <2>5, <3>2, <3>4 DEF Texts
      <4>3. IsSuffix(text, u \o text)
        BY <4>2, SuffixIs
      <4> QED
        BY <4>1, <4>3
    <3> QED
      BY <3>2, <3>3, <3>4
  <2> QED
    BY <1>7, <2>9, <2>3 DEF RowShowsTranscript, turns, row, users, away, cut
<1> QED
  BY <1>1, <1>2, <1>3, <1>4, <1>5, <1>6, <1>7 DEF Formats

-----------------------------------------------------------------------------
(* At the beginning. *)
LEMMA InitInv ==
  ASSUME Init
  PROVE  IInv
<1>1. /\ format \in Formats /\ standing \in Standings(format)
      /\ log = <<>> /\ told = <<>> /\ handed = NoRow /\ left = MaxRecords
  BY DEF Init
<1>2. Said = <<>> /\ Len(log) = 0
  BY <1>1 DEF Said
<1>3. TypeOK
  <2>1. NoRow \in [listed : BOOLEAN, first : Texts, last : Texts]
    BY DEF NoRow, Texts
  <2> QED
    BY <1>1, <2>1, ConversionsAssumption DEF TypeOK
<1>4. IdInv
  BY <1>1, <1>2 DEF IdInv
<1>5. PartsInv /\ SizeInv
  BY <1>1, <1>2 DEF PartsInv, SizeInv
<1>6. LinearInv
  BY <1>1, <1>2, TurnsSteps, HeardSteps DEF LinearInv
<1>7. AntigravityInv
  BY <1>1, <1>2, AntigravitySteps, HeardSteps DEF AntigravityInv
<1>8. GeminiInv
  BY <1>1, <1>2, ReplaySteps, MirrorsNothing DEF GeminiInv
<1>9. PiInv
  BY <1>1, <1>2 DEF PiInv, LinesFit, PiRead
<1>10. HandedRowIsFound
  BY <1>1 DEF HandedRowIsFound
<1> QED
  BY <1>3, <1>4, <1>5, <1>6, <1>7, <1>8, <1>9, <1>10 DEF IInv

(* What a record r that leaves the conversation as c must be like. *)
Fits(r, c) ==
    /\ r \in Records /\ c \in Seq(Sayings)
    /\ r.id <= Len(log) + 1 + MaxRecords
    /\ \A i \in 1..Len(c) : c[i].id <= Len(log) + 1 + MaxRecords
    /\ Len(c) + left <= MaxRecords + 1
    /\ format \in {"pi", "mimo"} => r.id = Len(log) + 1 + MaxRecords
    /\ format \in {"opencode", "mimo"} => PartsFine(r)
    /\ format \in {"codex", "claude", "pi1", "jcode", "opencode", "mimo"} =>
          Heard(format, c) = Heard(format, Said) \o TurnOf(r)
    /\ format = "antigravity" =>
          Heard(format, c) = Heard(format, Said) \o AntigravityTurn(r)
    /\ format = "gemini" => Mirrors(GeminiReplay(LoadGeminiConversation(log), r), c)
    /\ format = "pi" =>
          /\ r.kind = "long" => c = Said
          /\ \E base \in Seq(Sayings) :
                /\ Heard("pi", c) = Heard("pi", base) \o TurnOf(r)
                /\ \/ log = <<>> /\ base = <<>>
                   \/ \E p \in 1..Len(log) : r.parent = log[p].id /\ base = told[p]

(* Such a record keeps every part of the invariant. *)
LEMMA AddKeeps ==
  ASSUME IInv, NEW r, NEW c, Fits(r, c), left > 0, left' = left - 1,
         log' = Append(log, r), told' = Append(told, c), handed' = NoRow,
         format' = format, standing' = standing
  PROVE  IInv'
<1>1. /\ TypeOK /\ IdInv /\ LinearInv /\ AntigravityInv /\ GeminiInv /\ PiInv /\ PartsInv /\ SizeInv
      /\ log \in Seq(Records) /\ told \in Seq(Seq(Sayings)) /\ Len(told) = Len(log)
      /\ format \in Formats /\ left \in 0..MaxRecords
      /\ Said \in Seq(Sayings) /\ Len(log) \in Nat
  BY SaidType DEF IInv, TypeOK
<1>2. r \in Records /\ c \in Seq(Sayings)
  BY DEF Fits
<1>3. /\ log' \in Seq(Records) /\ Len(log') = Len(log) + 1 /\ log' # <<>>
      /\ told' \in Seq(Seq(Sayings)) /\ Len(told') = Len(log')
      /\ log'[Len(log) + 1] = r
      /\ \A i \in 1..Len(log) : log'[i] = log[i]
      /\ told'[Len(log')] = c
  <2>1. log \in Seq(Records) /\ told \in Seq(Seq(Sayings)) /\ Len(told) = Len(log)
    BY <1>1
  <2>2. log' = Append(log, r) /\ told' = Append(told, c)
    OBVIOUS
  <2>3. /\ log' \in Seq(Records) /\ Len(log') = Len(log) + 1 /\ log' # <<>>
        /\ log'[Len(log) + 1] = r
        /\ \A i \in 1..Len(log) : log'[i] = log[i]
    BY <1>2, <2>1, <2>2
  <2>4. told' \in Seq(Seq(Sayings)) /\ Len(told') = Len(told) + 1 /\ told'[Len(told) + 1] = c
    BY <1>2, <2>1, <2>2
  <2> QED
    BY <2>1, <2>3, <2>4
<1>4. Said' = c
  BY <1>3 DEF Said, Last
<1>5. TypeOK'
  <2>1. NoRow \in [listed : BOOLEAN, first : Texts, last : Texts]
    BY DEF NoRow, Texts
  <2>2. left' \in 0..MaxRecords
    BY <1>1, ConversionsAssumption
  <2>3. standing \in Standings(format)
    BY <1>1 DEF TypeOK
  <2> QED
    BY <1>1, <1>3, <2>1, <2>2, <2>3 DEF TypeOK
<1>6. IdInv'
  <2>0. MaxRecords \in Nat
    BY ConversionsAssumption
  <2>1. /\ \A i \in 1..Len(log) : log[i].id <= i + MaxRecords
        /\ \A k \in 1..Len(told) : \A i \in 1..Len(told[k]) :
              told[k][i].id <= k + MaxRecords
        /\ format \in {"pi", "mimo"} =>
              \A i, j \in 1..Len(log) : log[i].id = log[j].id => i = j
        /\ format = "mimo" => \A i \in 1..Len(log) : log[i].id # 0
    BY <1>1 DEF IdInv
  <2>2. /\ r.id <= Len(log) + 1 + MaxRecords
        /\ \A i \in 1..Len(c) : c[i].id <= Len(log) + 1 + MaxRecords
        /\ format \in {"pi", "mimo"} => r.id = Len(log) + 1 + MaxRecords
    BY DEF Fits
  <2>3. ASSUME NEW i \in 1..Len(log')
        PROVE  log'[i].id <= i + MaxRecords
    <3>1. i \in 1..Len(log) \/ i = Len(log) + 1
      BY <1>1, <1>3
    <3>2. CASE i \in 1..Len(log)
      BY <1>3, <2>1, <3>2
    <3>3. CASE i = Len(log) + 1
      BY <1>3, <2>2, <3>3
    <3> QED
      BY <3>1, <3>2, <3>3
  <2>4. ASSUME NEW k \in 1..Len(told'), NEW i \in 1..Len(told'[k])
        PROVE  told'[k][i].id <= k + MaxRecords
    <3>1. k \in 1..Len(told) \/ k = Len(log) + 1
      <4>1. k \in 1..Len(log) + 1
        BY <1>3, <2>4
      <4> QED
        BY <1>1, <4>1
    <3>2. CASE k \in 1..Len(told)
      <4>1. told'[k] = told[k]
        BY <1>1, <1>2, <3>2
      <4> QED
        BY <2>1, <2>4, <3>2, <4>1
    <3>3. CASE k = Len(log) + 1
      <4>1. told'[k] = c
        BY <1>3, <3>3
      <4> QED
        BY <2>2, <2>4, <3>3, <4>1
    <3> QED
      BY <3>1, <3>2, <3>3
  <2>5. ASSUME format \in {"pi", "mimo"}, NEW i \in 1..Len(log'), NEW j \in 1..Len(log'),
               log'[i].id = log'[j].id
        PROVE  i = j
    <3>1. \A k \in 1..Len(log) : log[k].id \in Nat /\ log[k].id <= Len(log) + MaxRecords
      <4>1. \A k \in 1..Len(log) : log[k] \in Records
        BY <1>1
      <4>2. \A k \in 1..Len(log) : log[k].id \in Nat
        BY <4>1, RecordParts
      <4> QED
        BY <1>1, <2>0, <2>1, <4>2
    <3>2. i \in 1..Len(log) \/ i = Len(log) + 1
      BY <1>1, <1>3
    <3>3. j \in 1..Len(log) \/ j = Len(log) + 1
      BY <1>1, <1>3
    <3>4. r.id = Len(log) + 1 + MaxRecords
      BY <2>2, <2>5
    <3>5. CASE i \in 1..Len(log) /\ j \in 1..Len(log)
      BY <1>3, <2>1, <2>5, <3>5
    <3>6. CASE i \in 1..Len(log) /\ j = Len(log) + 1
      <4>1. log[i].id = Len(log) + 1 + MaxRecords
        BY <1>3, <2>5, <3>4, <3>6
      <4> QED
        BY <1>1, <2>0, <3>1, <3>6, <4>1
    <3>7. CASE i = Len(log) + 1 /\ j \in 1..Len(log)
      <4>1. log[j].id = Len(log) + 1 + MaxRecords
        BY <1>3, <2>5, <3>4, <3>7
      <4> QED
        BY <1>1, <2>0, <3>1, <3>7, <4>1
    <3> QED
      BY <3>2, <3>3, <3>5, <3>6, <3>7
  <2>6. ASSUME format = "mimo", NEW i \in 1..Len(log')
        PROVE  log'[i].id # 0
    <3>1. i \in 1..Len(log) \/ i = Len(log) + 1
      BY <1>1, <1>3
    <3>2. r.id # 0
      BY <1>1, <2>0, <2>2, <2>6
    <3> QED
      BY <1>3, <2>1, <2>6, <3>1, <3>2
  <2> QED
    BY <2>3, <2>4, <2>5, <2>6 DEF IdInv
<1>13. SizeInv'
  <2> SUFFICES ASSUME NEW k \in 1..Len(told')
               PROVE  Len(told'[k]) + left' <= MaxRecords
    BY DEF SizeInv
  <2>1. k \in 1..Len(told) \/ k = Len(log) + 1
    BY <1>1, <1>3
  <2>2. CASE k \in 1..Len(told)
    <3>1. told'[k] = told[k]
      BY <1>1, <1>2, <2>2
    <3>2. Len(told[k]) + left <= MaxRecords
      BY <1>1, <2>2 DEF SizeInv
    <3>3. told[k] \in Seq(Sayings)
      BY <1>1, <2>2, ElementOfSeq
    <3>4. Len(told[k]) \in Nat /\ MaxRecords \in Nat
      BY <3>3, ConversionsAssumption
    <3> QED
      BY <1>1, <3>1, <3>2, <3>4
  <2>3. CASE k = Len(log) + 1
    <3>1. told'[k] = c
      BY <1>3, <2>3
    <3>2. Len(c) + left <= MaxRecords + 1
      BY DEF Fits
    <3>3. Len(c) \in Nat /\ MaxRecords \in Nat
      BY <1>2, ConversionsAssumption
    <3> QED
      BY <1>1, <3>1, <3>2, <3>3
  <2> QED
    BY <2>1, <2>2, <2>3
<1>7. PartsInv'
  <2> SUFFICES ASSUME format \in {"opencode", "mimo"}, NEW i \in 1..Len(log')
               PROVE  PartsFine(log'[i])
    BY DEF PartsInv
  <2>1. PartsFine(r) /\ \A k \in 1..Len(log) : PartsFine(log[k])
    BY <1>1 DEF Fits, PartsInv
  <2>2. i \in 1..Len(log) \/ i = Len(log) + 1
    BY <1>1, <1>3
  <2> QED
    BY <1>3, <2>1, <2>2
<1>8. LinearInv'
  <2> SUFFICES ASSUME format \in {"codex", "claude", "pi1", "jcode", "opencode", "mimo"}
               PROVE  TurnsOf(log') = Heard(format, c)
    BY <1>4 DEF LinearInv
  <2>1. TurnsOf(log) = Heard(format, Said)
    BY <1>1 DEF LinearInv
  <2>2. Heard(format, c) = Heard(format, Said) \o TurnOf(r)
    BY DEF Fits
  <2>3. TurnsOf(Append(log, r)) = TurnsOf(log) \o TurnOf(r)
    BY <1>1, <1>2, TurnsSteps
  <2> QED
    BY <2>1, <2>2, <2>3
<1>9. AntigravityInv'
  <2> SUFFICES ASSUME format = "antigravity"
               PROVE  AntigravityTranscript(log') = Heard(format, c)
    BY <1>4 DEF AntigravityInv
  <2>1. AntigravityTranscript(log) = Heard(format, Said)
    BY <1>1 DEF AntigravityInv
  <2>2. Heard(format, c) = Heard(format, Said) \o AntigravityTurn(r)
    BY DEF Fits
  <2>3. AntigravityTranscript(Append(log, r))
          = AntigravityTranscript(log) \o AntigravityTurn(r)
    BY <1>1, <1>2, AntigravitySteps
  <2> QED
    BY <2>1, <2>2, <2>3
<1>10. GeminiInv'
  <2> SUFFICES ASSUME format = "gemini"
               PROVE  Mirrors(LoadGeminiConversation(log'), c)
    BY <1>4 DEF GeminiInv
  <2>1. LoadGeminiConversation(Append(log, r)) = GeminiReplay(LoadGeminiConversation(log), r)
    BY <1>1, <1>2, ReplaySteps
  <2>2. Mirrors(GeminiReplay(LoadGeminiConversation(log), r), c)
    BY DEF Fits
  <2> QED
    BY <2>1, <2>2
<1>11. PiInv'
  <2> SUFFICES ASSUME format = "pi"
               PROVE  LinesFit(Append(log, r), Append(told, c))
    BY DEF PiInv
  <2>1. LinesFit(log, told)
    BY <1>1 DEF PiInv
  <2>2. \A i, j \in 1..Len(log) : log[i].id = log[j].id => i = j
    BY <1>1 DEF IdInv
  <2>3. r.kind = "long" => c = IF log = <<>> THEN <<>> ELSE told[Len(log)]
    BY <1>1, SaidType DEF Fits
  <2>4. PICK base \in Seq(Sayings) :
          /\ Heard("pi", c) = Heard("pi", base) \o TurnOf(r)
          /\ \/ log = <<>> /\ base = <<>>
             \/ \E p \in 1..Len(log) : r.parent = log[p].id /\ base = told[p]
    BY DEF Fits
  <2> QED
    BY <1>1, <1>2, <2>1, <2>2, <2>3, <2>4, PiAdd
<1>12. HandedRowIsFound'
  BY DEF HandedRowIsFound
<1> QED
  BY <1>5, <1>6, <1>7, <1>8, <1>9, <1>10, <1>11, <1>12, <1>13 DEF IInv

-----------------------------------------------------------------------------
(* What the agents write is read back as what was said. *)
LEMMA WordIs ==
  ASSUME TypeOK, left > 0
  PROVE  Word \in Marks \ {"context", "slash", "open", "close", "block", "huge"}
<1>1. left + 1 \in 1..Len(Words)
  BY ConversionsAssumption DEF TypeOK
<1>2. Words \in Seq(Range(Words))
  BY ConversionsAssumption
<1>3. Words[left + 1] \in Range(Words)
  BY <1>1, <1>2, ElementOfSeq
<1> QED
  BY <1>1, <1>3, ConversionsAssumption DEF Word, Marks

(* A message, field by field. *)
LEMMA MessageIs ==
  ASSUME NEW id \in Nat, NEW parent \in Nat, NEW role \in Speakers, NEW parts \in Seq(Parts)
  PROVE  /\ Message(id, parent, role, parts) \in Messages
         /\ Message(id, parent, role, parts) \in Records
         /\ Message(id, parent, role, parts).kind = "message"
         /\ Message(id, parent, role, parts).id = id
         /\ Message(id, parent, role, parts).parent = parent
         /\ Message(id, parent, role, parts).role = role
         /\ Message(id, parent, role, parts).parts = parts
<1>1. Message(id, parent, role, parts)
        = [kind |-> "message", id |-> id, parent |-> parent, role |-> role,
           parts |-> parts, body |-> <<>>]
  BY DEF Message, Record
<1> QED
  BY <1>1, MessagesAreRecords DEF Messages

(* A part of a message. *)
LEMMA PartIs ==
  ASSUME NEW text \in Texts, NEW shown \in BOOLEAN
  PROVE  Part(text, shown) \in Parts
  BY DEF Part, Parts

(* A message is kept as a turn if and only if it can be given to others. *)
LEMMA MessageTurn ==
  ASSUME NEW f, f # "gemini", NEW r \in Messages, NEW s \in Sayings,
         s.role = r.role, s.text = TextFromContent(r.parts)
  PROVE  TurnOf(r) = HeardOf(f, s)
<1>1. r.kind = "message" /\ r.role \in Speakers
  BY DEF Messages
<1>2. s.text \in Seq(Marks)
  BY DEF Sayings, Texts
<1>3. KeepTranscriptTurn(r.role, s.text) <=> Transferable(f, s)
  BY <1>1, <1>2 DEF KeepTranscriptTurn, Transferable, UsefulUserText, StartsWith, Speakers
<1> QED
  BY <1>1, <1>3 DEF TurnOf, HeardOf

(* So is a step of Antigravity, when unwrapping gives what was typed. *)
LEMMA PromptRead ==
  ASSUME NEW r \in Messages, NEW s \in Sayings, s.role = r.role,
         s.text = IF r.role = "user" THEN AntigravityUserText(TextFromContent(r.parts))
                  ELSE TextFromContent(r.parts)
  PROVE  AntigravityTurn(r) = HeardOf("antigravity", s)
<1>1. CASE r.role # "user"
  BY <1>1, MessageTurn DEF AntigravityTurn
<1>2. CASE r.role = "user"
  <2> DEFINE p == Part(s.text, TRUE)
             m == [r EXCEPT !.parts = <<p>>]
  <2>1. s.text \in Texts
    BY DEF Sayings
  <2>2. p \in Parts /\ p.text = s.text /\ p.shown
    BY <2>1, PartIs DEF Part
  <2> HIDE DEF p
  <2>3. m \in Messages /\ m.role = r.role /\ m.parts = <<p>>
    <3>1. <<p>> \in Seq(Parts)
      BY <2>2
    <3>2. m \in Messages
      BY <3>1 DEF Messages
    <3>3. m.role = r.role /\ m.parts = <<p>>
      BY DEF Messages
    <3> QED
      BY <3>2, <3>3
  <2>4. TextFromContent(<<p>>) = s.text
    BY <2>2, TextSteps DEF ShownText
  <2>5. TurnOf(m) = HeardOf("antigravity", s)
    <3> HIDE DEF m
    <3> QED
      BY <2>3, <2>4, MessageTurn
  <2> QED
    BY <1>2, <2>5 DEF AntigravityTurn, p
<1> QED
  BY <1>1, <1>2

(* Unwrapping gives what was typed, even if that quotes the closing mark. *)
LEMMA WrappedRead ==
  ASSUME NEW text \in Texts, NEW blocks \in Seq({"block"})
  PROVE  AntigravityUserText(<<"open">> \o text \o <<"close">> \o blocks) = text
<1> DEFINE content == <<"open">> \o text \o <<"close">> \o blocks
           body == text \o <<"close">> \o blocks
           ends == {i \in 1..Len(body) :
                      /\ body[i] = "close"
                      /\ i = Len(body) \/ body[i + 1] = "block"}
<1>1. /\ text \in Seq(Marks) /\ "open" \in Marks /\ "close" \in Marks
      /\ blocks \in Seq(Marks)
  <2>1. {"block"} \subseteq Marks
    BY DEF Marks
  <2> QED
    BY <2>1 DEF Texts, Marks
<1>2. /\ body \in Seq(Marks) /\ Len(body) = Len(text) + 1 + Len(blocks)
      /\ \A i \in 1..Len(text) : body[i] = text[i]
      /\ body[Len(text) + 1] = "close"
      /\ \A i \in 1..Len(blocks) : body[Len(text) + 1 + i] = blocks[i]
  BY <1>1
<1>3. \A i \in 1..Len(blocks) : blocks[i] = "block"
  OBVIOUS
<1>4. content = <<"open">> \o body
  BY <1>1
<1>5. /\ content # <<>> /\ Head(content) = "open" /\ Tail(content) = body
  BY <1>1, <1>2, <1>4
<1> HIDE DEF body, content
<1>6. Len(text) \in Nat /\ Len(blocks) \in Nat /\ Len(body) \in Nat
  BY <1>1, <1>2
<1>7. Len(text) + 1 \in ends
  <2>1. CASE Len(blocks) = 0
    BY <1>2, <1>6, <2>1
  <2>2. CASE Len(blocks) # 0
    <3>1. 1 \in 1..Len(blocks)
      BY <1>6, <2>2
    <3>2. body[Len(text) + 1 + 1] = "block"
      BY <1>2, <1>3, <3>1
    <3> QED
      BY <1>2, <1>6, <3>2
  <2> QED
    BY <2>1, <2>2
<1>8. \A i \in ends : i <= Len(text) + 1
  <2> SUFFICES ASSUME NEW i \in ends, i > Len(text) + 1
               PROVE  FALSE
    BY <1>6
  <2>1. i - (Len(text) + 1) \in 1..Len(blocks)
    BY <1>2, <1>6
  <2>2. body[Len(text) + 1 + (i - (Len(text) + 1))] = "block"
    BY <1>2, <1>3, <2>1
  <2>3. Len(text) + 1 + (i - (Len(text) + 1)) = i
    BY <1>6
  <2> QED
    BY <2>2, <2>3
<1>9. Latest(ends) = Len(text) + 1
  <2>1. ends \in SUBSET (1..Len(body))
    OBVIOUS
  <2> HIDE DEF ends
  <2>2. Latest(ends) \in ends /\ \A j \in ends : j <= Latest(ends)
    BY <1>6, <1>7, <2>1, LatestIs
  <2>3. Latest(ends) \in 1..Len(body)
    BY <2>1, <2>2
  <2>4. Latest(ends) <= Len(text) + 1 /\ Len(text) + 1 <= Latest(ends)
    BY <1>7, <1>8, <2>2
  <2> QED
    BY <1>6, <2>3, <2>4
<1>10. SubSeq(body, 1, Len(text)) = text
  BY <1>1, <1>2
<1>11. ends # {}
  BY <1>7
<1>12. AntigravityUserText(content) = SubSeq(body, 1, Latest(ends) - 1)
  <2>1. StartsWith(content, {"open"})
    BY <1>5 DEF StartsWith
  <2> QED
    BY <1>5, <1>11, <2>1 DEF AntigravityUserText
<1> HIDE DEF ends
<1>13. Latest(ends) - 1 = Len(text)
  BY <1>6, <1>9
<1> QED
  BY <1>10, <1>12, <1>13 DEF content

-----------------------------------------------------------------------------
(* An utterance: its parts make its text, whatever is put between them. *)
LEMMA UtteranceIs ==
  ASSUME TypeOK, left > 0, NEW role \in Speakers, NEW u \in Utterances(role)
  PROVE  /\ u.text \in Texts /\ u.parts \in Seq(Parts)
         /\ u.text = IF format = "antigravity" /\ role = "user"
                     THEN AntigravityUserText(TextFromContent(u.parts))
                     ELSE TextFromContent(u.parts)
         /\ format # "antigravity" =>
               \A j \in 1..Len(u.parts) :
                  u.parts[j].shown /\ UsefulUserText(u.parts[j].text) =>
                      UsefulUserText(u.text)
<1>1. /\ Word \in Marks /\ Word # "context"
      /\ {"context", "slash", "open", "close", "block", "huge"} \subseteq Marks
  BY WordIs DEF Marks
<1>2. Hidden \in Parts /\ Hidden.shown = FALSE
  <2>1. <<"block">> \in Texts
    BY <1>1 DEF Texts
  <2> QED
    BY <2>1, PartIs DEF Hidden, Part
<1>3. ASSUME NEW text \in Texts, u = Plain(text),
             ~(format = "antigravity" /\ role = "user")
      PROVE  /\ u.text \in Texts /\ u.parts \in Seq(Parts)
             /\ u.text = TextFromContent(u.parts)
             /\ \A j \in 1..Len(u.parts) : u.parts[j].text = u.text
  <2>1. u.text = text /\ u.parts = <<Part(text, TRUE)>>
    BY <1>3 DEF Plain, Utterance
  <2>2. Part(text, TRUE) \in Parts
    BY PartIs
  <2>3. TextFromContent(<<Part(text, TRUE)>>) = text
    <3>1. TextFromContent(<<Part(text, TRUE)>>) = ShownText(Part(text, TRUE))
      BY <2>2, TextSteps
    <3> QED
      BY <3>1 DEF ShownText, Part
  <2>4. Part(text, TRUE).text = text
    BY DEF Part
  <2> DEFINE p == Part(text, TRUE)
  <2> HIDE DEF p
  <2>5. <<p>> \in Seq(Parts) /\ \A j \in 1..Len(<<p>>) : <<p>>[j].text = text
    <3>1. p \in Parts /\ p.text = text
      BY <2>2, <2>4 DEF p
    <3>2. \A j \in 1..Len(<<p>>) : <<p>>[j] = p
      OBVIOUS
    <3> QED
      BY <3>1, <3>2
  <2>6. u.text = text /\ u.parts = <<p>> /\ TextFromContent(<<p>>) = text
    BY <2>1, <2>3 DEF p
  <2> QED
    BY <2>5, <2>6
<1>4. CASE format = "antigravity" /\ role = "user"
  <2>1. PICK text \in {<<Word>>, <<"context">>, <<"close", Word>>},
             blocks \in {<<>>, <<"block">>} : u = Wrapped(text, blocks)
    BY <1>4 DEF Utterances
  <2>2. text \in Texts /\ blocks \in Seq({"block"}) /\ blocks \in Texts
    <3>1. \A w \in Marks : <<w>> \in Seq(Marks) /\ <<"close", w>> \in Seq(Marks)
      BY <1>1
    <3>2. /\ <<>> \in Seq({"block"}) /\ <<"block">> \in Seq({"block"})
          /\ <<>> \in Seq(Marks)
      OBVIOUS
    <3>3. "context" \in Marks /\ "block" \in Marks
      BY <1>1
    <3>4. <<Word>> \in Texts /\ <<"close", Word>> \in Texts /\ <<"context">> \in Texts
      BY <1>1, <3>1, <3>3 DEF Texts
    <3>5. <<"block">> \in Texts /\ <<>> \in Texts
      BY <3>1, <3>2, <3>3 DEF Texts
    <3> QED
      BY <3>2, <3>4, <3>5
  <2> DEFINE content == <<"open">> \o text \o <<"close">> \o blocks
  <2>3. content \in Texts
    BY <1>1, <2>2 DEF Texts
  <2>4. AntigravityUserText(content) = text
    BY <2>2, WrappedRead
  <2> HIDE DEF content
  <2>5. u.text = text /\ u.parts = <<Part(content, TRUE)>>
    BY <2>1 DEF Wrapped, Utterance, content
  <2>6. Part(content, TRUE) \in Parts
    BY <2>3, PartIs
  <2>7. TextFromContent(<<Part(content, TRUE)>>) = content
    <3>1. TextFromContent(<<Part(content, TRUE)>>) = ShownText(Part(content, TRUE))
      BY <2>6, TextSteps
    <3> QED
      BY <3>1 DEF ShownText, Part
  <2> DEFINE p == Part(content, TRUE)
  <2> HIDE DEF p
  <2>8. u.parts = <<p>> /\ p \in Parts /\ TextFromContent(<<p>>) = content
    BY <2>5, <2>6, <2>7 DEF p
  <2>9. u.parts \in Seq(Parts)
    BY <2>8
  <2>10. TextFromContent(u.parts) = content
    BY <2>8
  <2> QED
    BY <1>4, <2>2, <2>4, <2>5, <2>9, <2>10
<1>5. CASE ~(format = "antigravity" /\ role = "user")
  <2>1. \/ \E text \in {<<Word>>, <<"context">>, <<"huge">>, <<"slash">>} : u = Plain(text)
        \/ u = Utterance(<<>>, <<Hidden>>)
        \/ u = Utterance(<<Word, "close">>,
                         <<Part(<<Word>>, TRUE), Hidden, Part(<<"close">>, TRUE)>>)
    BY <1>5 DEF Utterances
  <2>2. CASE \E text \in {<<Word>>, <<"context">>, <<"huge">>, <<"slash">>} : u = Plain(text)
    <3>1. PICK text \in {<<Word>>, <<"context">>, <<"huge">>, <<"slash">>} : u = Plain(text)
      BY <2>2
    <3>2. text \in Texts
      <4>1. \A w \in Marks : <<w>> \in Seq(Marks)
        OBVIOUS
      <4> QED
        BY <1>1, <3>1, <4>1 DEF Texts
    <3>3. /\ u.text \in Texts /\ u.parts \in Seq(Parts)
          /\ u.text = TextFromContent(u.parts)
          /\ \A j \in 1..Len(u.parts) : u.parts[j].text = u.text
      BY <1>3, <1>5, <3>1, <3>2
    <3> QED
      BY <1>5, <3>3
  <2>3. CASE u = Utterance(<<>>, <<Hidden>>)
    <3>1. u.text = <<>> /\ u.parts = <<Hidden>>
      BY <2>3 DEF Utterance
    <3>2. TextFromContent(<<Hidden>>) = <<>>
      BY <1>2, TextSteps DEF ShownText
    <3>3. <<Hidden>> \in Seq(Parts) /\ <<>> \in Texts
      BY <1>2 DEF Texts
    <3>4. \A j \in 1..Len(u.parts) : ~u.parts[j].shown
      BY <1>2, <3>1
    <3> QED
      BY <1>5, <3>1, <3>2, <3>3, <3>4
  <2>4. CASE u = Utterance(<<Word, "close">>,
                           <<Part(<<Word>>, TRUE), Hidden, Part(<<"close">>, TRUE)>>)
    <3> DEFINE a == Part(<<Word>>, TRUE)
               b == Part(<<"close">>, TRUE)
    <3>1. u.text = <<Word, "close">> /\ u.parts = <<a, Hidden, b>>
      BY <2>4 DEF Utterance
    <3>2. /\ a \in Parts /\ a.shown = TRUE /\ a.text = <<Word>>
          /\ b \in Parts /\ b.shown = TRUE /\ b.text = <<"close">>
      <4>1. <<Word>> \in Texts /\ <<"close">> \in Texts
        BY <1>1 DEF Texts
      <4> QED
        BY <4>1, PartIs DEF Part
    <3> HIDE DEF a, b
    <3>3. TextFromContent(<<a>>) = <<Word>>
      BY <3>2, TextSteps DEF ShownText
    <3>4. TextFromContent(<<a, Hidden>>) = <<Word>>
      <4>1. <<a, Hidden>> = Append(<<a>>, Hidden) /\ <<a>> \in Seq(Parts)
        BY <3>2
      <4>2. TextFromContent(Append(<<a>>, Hidden)) = TextFromContent(<<a>>) \o ShownText(Hidden)
        BY <1>2, <4>1, TextSteps
      <4>3. ShownText(Hidden) = <<>> /\ <<Word>> \o <<>> = <<Word>>
        BY <1>2 DEF ShownText
      <4> QED
        BY <3>3, <4>1, <4>2, <4>3
    <3>5. TextFromContent(<<a, Hidden, b>>) = <<Word, "close">>
      <4>1. <<a, Hidden, b>> = Append(<<a, Hidden>>, b) /\ <<a, Hidden>> \in Seq(Parts)
        BY <1>2, <3>2
      <4>2. TextFromContent(Append(<<a, Hidden>>, b))
              = TextFromContent(<<a, Hidden>>) \o ShownText(b)
        BY <3>2, <4>1, TextSteps
      <4>3. ShownText(b) = <<"close">>
        BY <3>2 DEF ShownText
      <4>4. \A v, w \in Marks : <<w>> \o <<v>> = <<w, v>>
        <5>1. \A v \in Marks : \A q \in Seq(Marks) : q \o <<v>> = Append(q, v)
          OBVIOUS
        <5>2. ASSUME NEW v \in Marks, NEW w \in Marks
              PROVE  <<w, v>> = Append(<<w>>, v)
          OBVIOUS
        <5>3. \A w \in Marks : <<w>> \in Seq(Marks)
          OBVIOUS
        <5> QED
          BY <5>1, <5>2, <5>3
      <4>5. <<Word>> \o <<"close">> = <<Word, "close">>
        BY <1>1, <4>4
      <4> QED
        BY <3>4, <4>1, <4>2, <4>3, <4>5
    <3>6. <<a, Hidden, b>> \in Seq(Parts) /\ <<Word, "close">> \in Texts
      BY <1>1, <1>2, <3>2 DEF Texts
    <3>7. UsefulUserText(<<Word, "close">>)
      BY <1>1 DEF UsefulUserText, StartsWith
    <3> QED
      BY <1>5, <3>1, <3>5, <3>6, <3>7
  <2> QED
    BY <2>1, <2>2, <2>3, <2>4
<1> QED
  BY <1>4, <1>5

-----------------------------------------------------------------------------
(* Saying something. *)
LEMMA SayingIs ==
  ASSUME NEW id \in Nat, NEW role \in Speakers, NEW text \in Texts
  PROVE  /\ [id |-> id, role |-> role, text |-> text] \in Sayings
         /\ [id |-> id, role |-> role, text |-> text].id = id
         /\ [id |-> id, role |-> role, text |-> text].role = role
         /\ [id |-> id, role |-> role, text |-> text].text = text
  BY DEF Sayings

(* One more saying. *)
LEMMA HeardAppend ==
  ASSUME NEW f, NEW q \in Seq(Sayings), NEW s \in Sayings
  PROVE  Heard(f, Append(q, s)) = Heard(f, q) \o HeardOf(f, s)
  BY HeardSteps

(* A message goes into the conversation after base, which is the whole of   *)
(* it except where Pi branches.                                             *)
LEMMA MessageFits ==
  ASSUME IInv, NEW r \in Messages, NEW s \in Sayings, NEW base \in Seq(Sayings),
         r.id = Len(log) + 1 + MaxRecords, s.id = r.id, s.role = r.role,
         s.text = IF format = "antigravity" /\ r.role = "user"
                  THEN AntigravityUserText(TextFromContent(r.parts))
                  ELSE TextFromContent(r.parts),
         format # "antigravity" => PartsFine(r),
         format # "pi" => base = Said,
         \A i \in 1..Len(base) : base[i].id <= Len(log) + MaxRecords,
         Len(base) + left <= MaxRecords,
         \/ log = <<>> /\ base = <<>>
         \/ \E p \in 1..Len(log) : r.parent = log[p].id /\ base = told[p]
  PROVE  Fits(r, Append(base, s))
<1>1. /\ TypeOK /\ IdInv /\ GeminiInv /\ log \in Seq(Records) /\ Said \in Seq(Sayings)
      /\ Len(log) \in Nat /\ MaxRecords \in Nat
  BY SaidType, ConversionsAssumption DEF IInv, TypeOK
<1>2. r \in Records /\ Append(base, s) \in Seq(Sayings) /\ r.kind = "message"
  BY MessagesAreRecords DEF Messages
<1>3. \A i \in 1..Len(Append(base, s)) : Append(base, s)[i].id <= Len(log) + 1 + MaxRecords
  <2> SUFFICES ASSUME NEW i \in 1..Len(Append(base, s))
               PROVE  Append(base, s)[i].id <= Len(log) + 1 + MaxRecords
    OBVIOUS
  <2>1. CASE i \in 1..Len(base)
    <3>1. Append(base, s)[i] = base[i] /\ base[i] \in Sayings
      BY <2>1
    <3>2. base[i].id \in Nat /\ base[i].id <= Len(log) + MaxRecords
      BY <2>1, <3>1 DEF Sayings
    <3> QED
      BY <1>1, <3>1, <3>2
  <2>2. CASE i = Len(base) + 1
    <3>1. Append(base, s)[i] = s
      BY <2>2
    <3> QED
      BY <1>1, <3>1
  <2> QED
    BY <2>1, <2>2
<1>4. format \in {"codex", "claude", "pi1", "jcode", "opencode", "mimo"} =>
         Heard(format, Append(base, s)) = Heard(format, Said) \o TurnOf(r)
  <2> SUFFICES ASSUME format \in {"codex", "claude", "pi1", "jcode", "opencode", "mimo"}
               PROVE  Heard(format, Append(base, s)) = Heard(format, Said) \o TurnOf(r)
    OBVIOUS
  <2>1. TurnOf(r) = HeardOf(format, s)
    BY MessageTurn
  <2> QED
    BY <2>1, HeardAppend
<1>5. format = "antigravity" =>
         Heard(format, Append(base, s)) = Heard(format, Said) \o AntigravityTurn(r)
  <2> SUFFICES ASSUME format = "antigravity"
               PROVE  Heard(format, Append(base, s)) = Heard(format, Said) \o AntigravityTurn(r)
    OBVIOUS
  <2>1. AntigravityTurn(r) = HeardOf(format, s)
    BY PromptRead
  <2> QED
    BY <2>1, HeardAppend
<1>6. format = "gemini" =>
         Mirrors(GeminiReplay(LoadGeminiConversation(log), r), Append(base, s))
  <2> SUFFICES ASSUME format = "gemini"
               PROVE  Mirrors(GeminiReplay(LoadGeminiConversation(log), r), Append(base, s))
    OBVIOUS
  <2>1. Mirrors(LoadGeminiConversation(log), base)
    BY <1>1 DEF GeminiInv
  <2>2. \A i \in 1..Len(base) : base[i].id # r.id
    <3>1. \A i \in 1..Len(base) : base[i].id \in Nat
      <4>1. \A i \in 1..Len(base) : base[i] \in Sayings
        OBVIOUS
      <4> QED
        BY <4>1 DEF Sayings
    <3> QED
      BY <1>1, <3>1
  <2> QED
    BY <2>1, <2>2, MirrorsSay
<1>7. format = "pi" =>
         \E b \in Seq(Sayings) :
            /\ Heard("pi", Append(base, s)) = Heard("pi", b) \o TurnOf(r)
            /\ \/ log = <<>> /\ b = <<>>
               \/ \E p \in 1..Len(log) : r.parent = log[p].id /\ b = told[p]
  <2> SUFFICES ASSUME format = "pi"
               PROVE  \E b \in Seq(Sayings) :
                        /\ Heard("pi", Append(base, s)) = Heard("pi", b) \o TurnOf(r)
                        /\ \/ log = <<>> /\ b = <<>>
                           \/ \E p \in 1..Len(log) : r.parent = log[p].id /\ b = told[p]
    OBVIOUS
  <2>1. TurnOf(r) = HeardOf("pi", s)
    BY MessageTurn
  <2>2. Heard("pi", Append(base, s)) = Heard("pi", base) \o TurnOf(r)
    BY <2>1, HeardAppend
  <2> QED
    BY <2>2
<1>8. format \in {"opencode", "mimo"} => PartsFine(r)
  OBVIOUS
<1>9. r.id <= Len(log) + 1 + MaxRecords
  BY <1>1
<1>10. Len(Append(base, s)) + left <= MaxRecords + 1
  <2>1. Len(Append(base, s)) = Len(base) + 1
    OBVIOUS
  <2>2. left \in Nat
    BY <1>1 DEF TypeOK
  <2> QED
    BY <1>1, <2>1, <2>2
<1> QED
  BY <1>2, <1>3, <1>4, <1>5, <1>6, <1>7, <1>8, <1>9, <1>10 DEF Fits

-----------------------------------------------------------------------------
(* Each action of the agents adds a record that fits. *)
Adding(r, c) ==
    /\ Fits(r, c) /\ left > 0 /\ left' = left - 1
    /\ log' = Append(log, r) /\ told' = Append(told, c)
    /\ handed' = NoRow /\ format' = format /\ standing' = standing

(* A step that adds a record that fits. *)
LEMMA AddingKeeps ==
  ASSUME IInv, NEW r, NEW c, Adding(r, c)
  PROVE  IInv'
  BY AddKeeps DEF Adding

(* Ids and sizes of a session that satisfies the invariant. *)
LEMMA Ids ==
  ASSUME IInv
  PROVE  /\ NewId \in Nat /\ NewId = Len(log) + 1 + MaxRecords /\ LastId \in Nat
         /\ log # <<>> => Len(log) \in 1..Len(log) /\ LastId = log[Len(log)].id
         /\ \A i \in 1..Len(Said) : Said[i] \in Sayings /\ Said[i].id <= Len(log) + MaxRecords
         /\ \A k \in 1..Len(told) : \A i \in 1..Len(told[k]) :
               told[k][i].id <= Len(log) + MaxRecords
         /\ \A k \in 1..Len(told) : Len(told[k]) + left <= MaxRecords
         /\ Len(Said) + left <= MaxRecords
         /\ MaxRecords \in Nat /\ left \in Nat
         /\ Said \in Seq(Sayings) /\ log \in Seq(Records)
         /\ told \in Seq(Seq(Sayings)) /\ Len(told) = Len(log) /\ Len(log) \in Nat
         /\ Said = IF log = <<>> THEN <<>> ELSE told[Len(log)]
         /\ TypeOK /\ IdInv
<1>1. /\ TypeOK /\ IdInv /\ Said \in Seq(Sayings) /\ log \in Seq(Records)
      /\ told \in Seq(Seq(Sayings)) /\ Len(told) = Len(log) /\ Len(log) \in Nat
      /\ Said = IF log = <<>> THEN <<>> ELSE told[Len(log)]
  BY SaidType DEF IInv, TypeOK
<1>2. log # <<>> => Len(log) \in 1..Len(log) /\ LastId = log[Len(log)].id /\ LastId \in Nat
  <2> SUFFICES ASSUME log # <<>>
               PROVE  Len(log) \in 1..Len(log) /\ LastId = log[Len(log)].id /\ LastId \in Nat
    OBVIOUS
  <2>1. Len(log) \in 1..Len(log)
    BY <1>1
  <2>2. LastId = log[Len(log)].id
    BY DEF LastId, Last
  <2>3. log[Len(log)] \in Records
    BY <1>1, <2>1, ElementOfSeq
  <2> QED
    BY <2>1, <2>2, <2>3, RecordParts
<1>3. log = <<>> => LastId = 0
  BY DEF LastId
<1>4. \A i \in 1..Len(Said) : Said[i] \in Sayings
  BY <1>1
<1>5. MaxRecords \in Nat /\ left \in Nat /\ left <= MaxRecords
  BY <1>1, ConversionsAssumption DEF TypeOK
<1>6. ASSUME NEW k \in 1..Len(told), NEW i \in 1..Len(told[k])
      PROVE  told[k][i].id <= Len(log) + MaxRecords
  <2>1. told[k][i].id <= k + MaxRecords
    BY <1>1 DEF IdInv
  <2>2. told[k][i].id \in Nat
    <3>1. told[k] \in Seq(Sayings)
      BY <1>1, ElementOfSeq
    <3>2. told[k][i] \in Sayings
      BY <3>1, ElementOfSeq
    <3> QED
      BY <3>2 DEF Sayings
  <2> QED
    BY <1>1, <1>5, <2>1, <2>2
<1>7. \A k \in 1..Len(told) : Len(told[k]) + left <= MaxRecords
  BY DEF IInv, SizeInv
<1>8. \A i \in 1..Len(Said) : Said[i].id <= Len(log) + MaxRecords
  BY <1>1, <1>2, <1>6
<1>9. Len(Said) + left <= MaxRecords
  <2>1. CASE log = <<>>
    BY <1>1, <1>5, <2>1
  <2>2. CASE log # <<>>
    BY <1>1, <1>2, <1>7, <2>2
  <2> QED
    BY <2>1, <2>2
<1>10. NewId \in Nat /\ NewId = Len(log) + 1 + MaxRecords
  BY <1>1, <1>5 DEF NewId
<1> QED
  BY <1>1, <1>2, <1>3, <1>4, <1>5, <1>6, <1>7, <1>8, <1>9, <1>10

(* A word as a part of a message. *)
LEMMA WordShown ==
  ASSUME TypeOK, left > 0
  PROVE  /\ <<Word>> \in Texts /\ Part(<<Word>>, TRUE) \in Parts
         /\ TextFromContent(<<Part(<<Word>>, TRUE)>>) = <<Word>>
         /\ UsefulUserText(<<Word>>)
<1>1. Word \in Marks /\ Word # "context"
  BY WordIs
<1>2. \A w \in Marks : <<w>> \in Seq(Marks)
  OBVIOUS
<1>3. <<Word>> \in Texts
  BY <1>1, <1>2 DEF Texts
<1>4. Part(<<Word>>, TRUE) \in Parts
  BY <1>3, PartIs
<1>5. TextFromContent(<<Part(<<Word>>, TRUE)>>) = ShownText(Part(<<Word>>, TRUE))
  BY <1>4, TextSteps
<1>6. ShownText(Part(<<Word>>, TRUE)) = <<Word>>
  BY DEF ShownText, Part
<1>7. UsefulUserText(<<Word>>)
  BY <1>1 DEF UsefulUserText, StartsWith
<1> QED
  BY <1>3, <1>4, <1>5, <1>6, <1>7

(* An agent says something. *)
LEMMA SayKeeps ==
  ASSUME IInv, NEW role \in Speakers, Say(role)
  PROVE  IInv'
<1>1. left > 0
  BY DEF Say, Add
<1>2. PICK u \in Utterances(role) :
        Add(Message(NewId, LastId, role, u.parts),
            Append(Said, [id |-> NewId, role |-> role, text |-> u.text]))
  BY DEF Say
<1>3. /\ u.text \in Texts /\ u.parts \in Seq(Parts)
      /\ u.text = IF format = "antigravity" /\ role = "user"
                  THEN AntigravityUserText(TextFromContent(u.parts))
                  ELSE TextFromContent(u.parts)
      /\ format # "antigravity" =>
            \A j \in 1..Len(u.parts) :
               u.parts[j].shown /\ UsefulUserText(u.parts[j].text) =>
                   UsefulUserText(u.text)
  BY <1>1, Ids, UtteranceIs
<1>4. PICK r : r = Message(NewId, LastId, role, u.parts)
  OBVIOUS
<1>5. PICK s : s = [id |-> NewId, role |-> role, text |-> u.text]
  OBVIOUS
<1>6. PICK base : base = Said
  OBVIOUS
<1>7. /\ r \in Messages /\ r.id = NewId /\ r.parent = LastId /\ r.role = role
      /\ r.parts = u.parts
  BY <1>3, <1>4, Ids, MessageIs
<1>8. s \in Sayings /\ s.id = NewId /\ s.role = role /\ s.text = u.text
  BY <1>3, <1>5, Ids, SayingIs
<1>9. format # "antigravity" => PartsFine(r)
  BY <1>3, <1>7 DEF PartsFine
<1>10. /\ base \in Seq(Sayings) /\ \A i \in 1..Len(base) : base[i].id <= Len(log) + MaxRecords
       /\ Len(base) + left <= MaxRecords
       /\ \/ log = <<>> /\ base = <<>>
          \/ \E p \in 1..Len(log) : r.parent = log[p].id /\ base = told[p]
  BY <1>6, <1>7, Ids
<1>11. s.text = IF format = "antigravity" /\ r.role = "user"
                THEN AntigravityUserText(TextFromContent(r.parts))
                ELSE TextFromContent(r.parts)
  BY <1>3, <1>7, <1>8
<1>12. r.id = Len(log) + 1 + MaxRecords /\ s.id = r.id /\ s.role = r.role
  BY <1>7, <1>8, Ids
<1>13. Fits(r, Append(base, s))
  BY <1>6, <1>7, <1>8, <1>9, <1>10, <1>11, <1>12, MessageFits
<1>14. Adding(r, Append(base, s))
  BY <1>2, <1>4, <1>5, <1>6, <1>13 DEF Adding, Add
<1> QED
  BY <1>14, AddingKeeps

(* Pi goes on from an earlier entry. *)
LEMMA PiBranchKeeps ==
  ASSUME IInv, NEW role \in Speakers, PiBranch(role)
  PROVE  IInv'
<1>1. left > 0 /\ format = "pi"
  BY DEF PiBranch, Add
<1>2. PICK k \in 1..Len(log) - 1 :
        Add(Message(NewId, log[k].id, role, <<Part(<<Word>>, TRUE)>>),
            Append(told[k], [id |-> NewId, role |-> role, text |-> <<Word>>]))
  BY DEF PiBranch
<1>3. PICK text : text = <<Word>>
  OBVIOUS
<1>4. PICK r : r = Message(NewId, log[k].id, role, <<Part(<<Word>>, TRUE)>>)
  OBVIOUS
<1>5. PICK s : s = [id |-> NewId, role |-> role, text |-> <<Word>>]
  OBVIOUS
<1>6. PICK base : base = told[k]
  OBVIOUS
<1>7. k \in 1..Len(log) /\ log[k].id \in Nat /\ base \in Seq(Sayings)
  <2>1. k \in 1..Len(log) /\ k \in 1..Len(told)
    BY Ids
  <2>2. log[k] \in Records /\ told[k] \in Seq(Sayings)
    BY <2>1, Ids, ElementOfSeq
  <2> QED
    BY <1>6, <2>1, <2>2, RecordParts
<1>8. text \in Texts /\ Part(text, TRUE) \in Parts
      /\ TextFromContent(<<Part(text, TRUE)>>) = text
      /\ UsefulUserText(text)
  BY <1>1, <1>3, WordShown, Ids
<1>9. /\ r \in Messages /\ r.id = NewId /\ r.parent = log[k].id /\ r.role = role
      /\ r.parts = <<Part(text, TRUE)>>
  <2>1. <<Part(text, TRUE)>> \in Seq(Parts)
    <3>1. \A p \in Parts : <<p>> \in Seq(Parts)
      OBVIOUS
    <3> QED
      BY <1>8, <3>1
  <2> QED
    <3>1. /\ NewId \in Nat /\ <<Part(<<Word>>, TRUE)>> \in Seq(Parts)
          /\ log[k].id \in Nat
      BY <1>3, <1>7, <2>1, Ids
    <3>2. PICK parts : parts = <<Part(<<Word>>, TRUE)>>
      OBVIOUS
    <3>3. r = Message(NewId, log[k].id, role, parts) /\ parts \in Seq(Parts)
      BY <1>4, <3>1, <3>2
    <3>4. /\ r \in Messages /\ r.id = NewId /\ r.parent = log[k].id
          /\ r.role = role /\ r.parts = parts
      BY <3>1, <3>3, MessageIs
    <3>5. parts = <<Part(text, TRUE)>>
      BY <1>3, <3>2
    <3> QED
      BY <3>4, <3>5
<1>10. s \in Sayings /\ s.id = NewId /\ s.role = role /\ s.text = text
  BY <1>3, <1>5, <1>8, Ids, SayingIs
<1>11. /\ r.id = Len(log) + 1 + MaxRecords /\ s.id = r.id /\ s.role = r.role
       /\ s.text = TextFromContent(r.parts)
  BY <1>8, <1>9, <1>10, Ids
<1>12. PartsFine(r)
  BY <1>8, <1>9 DEF PartsFine
<1>13. /\ \A i \in 1..Len(base) : base[i].id <= Len(log) + MaxRecords
       /\ Len(base) + left <= MaxRecords
       /\ r.parent = log[k].id /\ base = told[k]
  BY <1>6, <1>7, <1>9, Ids
<1>14. Fits(r, Append(base, s))
  BY <1>1, <1>7, <1>9, <1>10, <1>11, <1>12, <1>13, MessageFits
<1>15. Adding(r, Append(base, s))
  BY <1>2, <1>4, <1>5, <1>6, <1>14 DEF Adding, Add
<1> QED
  BY <1>15, AddingKeeps

-----------------------------------------------------------------------------
(* Gemini's log mirrors what was said. *)
LEMMA SaidDistinct ==
  ASSUME IInv, format = "gemini"
  PROVE  Mirrors(LoadGeminiConversation(log), Said) /\ DistinctIds(Said)
<1>1. Mirrors(LoadGeminiConversation(log), Said)
  BY DEF IInv, GeminiInv
<1> QED
  BY <1>1, Ids, MirrorsDistinct

(* Gemini changes a message in place. *)
LEMMA GeminiEditKeeps ==
  ASSUME IInv, GeminiEdit
  PROVE  IInv'
<1>1. left > 0 /\ format = "gemini"
  BY DEF GeminiEdit, Add
<1>2. PICK i \in 1..Len(Said) :
        Add(Message(Said[i].id, 0, Said[i].role, <<Part(<<Word>>, TRUE)>>),
            [Said EXCEPT ![i].text = <<Word>>])
  BY DEF GeminiEdit
<1>3. PICK said : said = Said
  OBVIOUS
<1>4. PICK text : text = <<Word>>
  OBVIOUS
<1>5. PICK parts : parts = <<Part(<<Word>>, TRUE)>>
  OBVIOUS
<1>6. PICK r : r = Message(said[i].id, 0, said[i].role, parts)
  OBVIOUS
<1>7. PICK now : now = [said EXCEPT ![i].text = text]
  OBVIOUS
<1>8. /\ said \in Seq(Sayings) /\ i \in 1..Len(said)
      /\ \A j \in 1..Len(said) : said[j] \in Sayings /\ said[j].id <= Len(log) + MaxRecords
      /\ Len(said) + left <= MaxRecords /\ MaxRecords \in Nat /\ left \in Nat
      /\ Len(log) \in Nat
  BY <1>3, Ids
<1>9. said[i] \in Sayings /\ said[i].id \in Nat /\ said[i].role \in Speakers
  BY <1>8 DEF Sayings
<1>10. text \in Texts /\ parts \in Seq(Parts) /\ TextFromContent(parts) = text
  <2>1. /\ text \in Texts /\ Part(text, TRUE) \in Parts
        /\ TextFromContent(<<Part(text, TRUE)>>) = text
    BY <1>1, <1>4, WordShown, Ids
  <2>2. parts = <<Part(text, TRUE)>>
    BY <1>4, <1>5
  <2>3. \A p \in Parts : <<p>> \in Seq(Parts)
    OBVIOUS
  <2> QED
    BY <2>1, <2>2, <2>3
<1>11. /\ r \in Messages /\ r.id = said[i].id /\ r.role = said[i].role /\ r.parts = parts
  <2>1. PICK id, role : id = said[i].id /\ role = said[i].role
    OBVIOUS
  <2>2. r = Message(id, 0, role, parts) /\ id \in Nat /\ role \in Speakers
    BY <1>6, <1>9, <2>1
  <2>3. r \in Messages /\ r.id = id /\ r.role = role /\ r.parts = parts
    BY <1>10, <2>2, MessageIs
  <2> QED
    BY <2>1, <2>3
<1>12. [said[i] EXCEPT !.text = text] \in Sayings
  BY <1>9, <1>10 DEF Sayings
<1>13. /\ now \in Seq(Sayings) /\ Len(now) = Len(said)
       /\ now[i] = [said[i] EXCEPT !.text = text]
       /\ \A j \in 1..Len(said) : j # i => now[j] = said[j]
  BY <1>7, <1>8, <1>12
<1>14. now[i].id = said[i].id /\ now[i].role = said[i].role /\ now[i].text = text
  <2>1. /\ [said[i] EXCEPT !.text = text].id = said[i].id
        /\ [said[i] EXCEPT !.text = text].role = said[i].role
        /\ [said[i] EXCEPT !.text = text].text = text
    BY <1>9 DEF Sayings
  <2> QED
    BY <1>13, <2>1
<1>15. Mirrors(GeminiReplay(LoadGeminiConversation(log), r), now)
  <2>1. PICK c : c = LoadGeminiConversation(log)
    OBVIOUS
  <2>2. Mirrors(c, said)
    BY <1>1, <1>3, <2>1, SaidDistinct
  <2>3. /\ r.id = said[i].id /\ Len(now) = Len(said) /\ now[i].id = said[i].id
        /\ now[i].role = r.role /\ now[i].text = TextFromContent(r.parts)
    BY <1>10, <1>11, <1>13, <1>14
  <2>4. Mirrors(GeminiReplay(c, r), now)
    BY <1>8, <1>11, <1>13, <2>2, <2>3, MirrorsEdit
  <2> QED
    BY <2>1, <2>4
<1>16. \A j \in 1..Len(now) : now[j].id <= Len(log) + 1 + MaxRecords
  <2>1. \A j \in 1..Len(said) : said[j].id \in Nat
    BY <1>8 DEF Sayings
  <2>2. \A j \in 1..Len(said) : now[j].id = said[j].id
    BY <1>13, <1>14
  <2> QED
    BY <1>8, <1>13, <2>1, <2>2
<1>17. r \in Records /\ r.id <= Len(log) + 1 + MaxRecords
  BY <1>8, <1>9, <1>11, MessagesAreRecords
<1>18. Len(now) + left <= MaxRecords + 1
  BY <1>8, <1>13
<1>19. Fits(r, now)
  BY <1>1, <1>13, <1>15, <1>16, <1>17, <1>18 DEF Fits
<1>20. Adding(r, now)
  BY <1>2, <1>3, <1>4, <1>5, <1>6, <1>7, <1>19 DEF Adding, Add
<1> QED
  BY <1>20, AddingKeeps

(* Gemini goes back. *)
LEMMA GeminiGoBackKeeps ==
  ASSUME IInv, GeminiGoBack
  PROVE  IInv'
<1>1. left > 0 /\ format = "gemini"
  BY DEF GeminiGoBack, Add
<1>2. PICK i \in 0..Len(Said) :
        Add(Other("rewind", IF i = 0 THEN NewId ELSE Said[i].id, 0),
            SubSeq(Said, 1, IF i = 0 THEN 0 ELSE i - 1))
  BY DEF GeminiGoBack
<1>3. PICK said : said = Said
  OBVIOUS
<1>4. PICK k : k = IF i = 0 THEN 0 ELSE i - 1
  OBVIOUS
<1>5. PICK id : id = IF i = 0 THEN NewId ELSE said[i].id
  OBVIOUS
<1>6. PICK r : r = Other("rewind", id, 0)
  OBVIOUS
<1>7. PICK now : now = SubSeq(said, 1, k)
  OBVIOUS
<1>8. /\ said \in Seq(Sayings) /\ i \in 0..Len(said) /\ Len(said) \in Nat
      /\ \A j \in 1..Len(said) : said[j] \in Sayings /\ said[j].id <= Len(log) + MaxRecords
      /\ Len(said) + left <= MaxRecords /\ MaxRecords \in Nat /\ left \in Nat
      /\ Len(log) \in Nat /\ NewId = Len(log) + 1 + MaxRecords
  BY <1>3, Ids
<1>9. k \in 0..Len(said) /\ (i # 0 => k < Len(said) /\ i = k + 1 /\ i \in 1..Len(said))
  BY <1>4, <1>8
<1>10. \A j \in 1..Len(said) : said[j].id \in Nat
  BY <1>8 DEF Sayings
<1>11. id \in Nat /\ id <= Len(log) + 1 + MaxRecords
  BY <1>5, <1>8, <1>9, <1>10
<1>12. r \in Records /\ r.kind = "rewind" /\ r.id = id
  BY <1>6, <1>11, OtherType
<1>13. \/ k < Len(said) /\ r.id = said[k + 1].id
       \/ k = 0 /\ \A j \in 1..Len(said) : said[j].id # r.id
  <2>1. CASE i = 0
    <3>1. r.id = Len(log) + 1 + MaxRecords /\ k = 0
      BY <1>4, <1>5, <1>8, <1>12, <2>1
    <3>2. \A j \in 1..Len(said) : said[j].id # Len(log) + 1 + MaxRecords
      BY <1>8, <1>10
    <3> QED
      BY <3>1, <3>2
  <2>2. CASE i # 0
    BY <1>5, <1>9, <1>12, <2>2
  <2> QED
    BY <2>1, <2>2
<1>14. Mirrors(GeminiReplay(LoadGeminiConversation(log), r), now)
  <2>1. PICK c : c = LoadGeminiConversation(log)
    OBVIOUS
  <2>2. Mirrors(c, said)
    BY <1>1, <1>3, <2>1, SaidDistinct
  <2>3. Mirrors(GeminiReplay(c, r), SubSeq(said, 1, k))
    BY <1>8, <1>9, <1>12, <1>13, <2>2, MirrorsGoBack
  <2> QED
    BY <1>7, <2>1, <2>3
<1>15. /\ now \in Seq(Sayings) /\ Len(now) = k
       /\ \A j \in 1..k : now[j] = said[j]
  BY <1>7, <1>8, <1>9
<1>16. \A j \in 1..Len(now) : now[j].id <= Len(log) + 1 + MaxRecords
  <2>1. \A j \in 1..k : j \in 1..Len(said)
    BY <1>8, <1>9
  <2> QED
    BY <1>8, <1>10, <1>15, <2>1
<1>17. Len(now) + left <= MaxRecords + 1
  BY <1>8, <1>9, <1>15
<1>18. Fits(r, now)
  BY <1>1, <1>11, <1>12, <1>14, <1>15, <1>16, <1>17 DEF Fits
<1>19. Adding(r, now)
  BY <1>2, <1>3, <1>4, <1>5, <1>6, <1>7, <1>18 DEF Adding, Add
<1> QED
  BY <1>19, AddingKeeps

(* Gemini replaces the conversation by a snapshot. *)
LEMMA GeminiCompressKeeps ==
  ASSUME IInv, GeminiCompress
  PROVE  IInv'
<1>1. left > 0 /\ format = "gemini" /\ Said # <<>>
  BY DEF GeminiCompress, Add
<1>2. PICK said : said = Said
  OBVIOUS
<1>3. PICK body : body = [i \in 1..Len(said) - 1 |->
                     Message(said[i + 1].id, 0, said[i + 1].role,
                             IF said[i + 1].text = <<>> THEN <<>>
                             ELSE <<Part(said[i + 1].text, TRUE)>>)]
  OBVIOUS
<1>4. PICK r : r = Record("snapshot", 0, 0, "none", <<>>, body)
  OBVIOUS
<1>5. PICK now : now = Tail(said)
  OBVIOUS
<1>6. /\ said \in Seq(Sayings) /\ Len(said) \in Nat /\ said # <<>>
      /\ \A j \in 1..Len(said) : said[j] \in Sayings /\ said[j].id <= Len(log) + MaxRecords
      /\ Len(said) + left <= MaxRecords /\ MaxRecords \in Nat /\ left \in Nat
      /\ Len(log) \in Nat
  BY <1>1, <1>2, Ids
<1>7. /\ now \in Seq(Sayings) /\ Len(now) = Len(said) - 1 /\ Len(now) \in Nat
      /\ \A j \in 1..Len(now) : j + 1 \in 1..Len(said) /\ now[j] = said[j + 1]
  BY <1>5, <1>6
<1>8. ASSUME NEW j \in 1..Len(now)
      PROVE  /\ body[j] \in Messages /\ body[j].id = now[j].id
             /\ body[j].role = now[j].role
             /\ TextFromContent(body[j].parts) = now[j].text
  <2>1. now[j] = said[j + 1] /\ now[j] \in Sayings
    BY <1>6, <1>7
  <2>2. PICK parts : parts = IF now[j].text = <<>> THEN <<>>
                             ELSE <<Part(now[j].text, TRUE)>>
    OBVIOUS
  <2>3. body[j] = Message(now[j].id, 0, now[j].role, parts)
    BY <1>3, <1>7, <2>1, <2>2
  <2>4. now[j].id \in Nat /\ now[j].role \in Speakers /\ now[j].text \in Texts
    BY <2>1 DEF Sayings
  <2>5. parts \in Seq(Parts) /\ TextFromContent(parts) = now[j].text
    <3>1. CASE now[j].text = <<>>
      BY <2>2, <3>1, TextSteps
    <3>2. CASE now[j].text # <<>>
      <4>1. PICK p : p = Part(now[j].text, TRUE)
        OBVIOUS
      <4>2. p \in Parts /\ p.shown = TRUE /\ p.text = now[j].text
        BY <2>4, <4>1, PartIs DEF Part
      <4>3. parts = <<p>>
        BY <2>2, <3>2, <4>1
      <4>4. <<p>> \in Seq(Parts)
        BY <4>2
      <4>5. TextFromContent(<<p>>) = now[j].text
        BY <4>2, TextSteps DEF ShownText
      <4> QED
        BY <4>3, <4>4, <4>5
    <3> QED
      BY <3>1, <3>2
  <2> QED
    BY <2>3, <2>4, <2>5, MessageIs
<1>9. body \in Seq(Messages) /\ Len(body) = Len(now)
  <2>1. body = [j \in 1..Len(now) |-> body[j]]
    BY <1>3, <1>7
  <2>2. \A j \in 1..Len(now) : body[j] \in Messages
    BY <1>8
  <2> QED
    BY <1>7, <2>1, <2>2
<1>10. SameMessages(body, now)
  BY <1>8, <1>9 DEF SameMessages
<1>11. DistinctIds(now)
  <2>1. DistinctIds(said)
    BY <1>1, <1>2, SaidDistinct
  <2>2. SUFFICES ASSUME NEW i \in 1..Len(now), NEW j \in 1..Len(now), now[i].id = now[j].id
                 PROVE  i = j
    BY DEF DistinctIds
  <2>3. i + 1 = j + 1
    BY <1>7, <2>1, <2>2 DEF DistinctIds
  <2> QED
    BY <2>3
<1>12. r \in Records /\ r.kind = "snapshot" /\ r.id = 0 /\ r.body = body
  <2>1. r = [kind |-> "snapshot", id |-> 0, parent |-> 0, role |-> "none",
             parts |-> <<>>, body |-> body]
    BY <1>4 DEF Record
  <2> QED
    BY <1>9, <2>1 DEF Records
<1>13. Mirrors(GeminiReplay(LoadGeminiConversation(log), r), now)
  BY <1>7, <1>10, <1>11, <1>12, MirrorsSnapshot
<1>14. \A j \in 1..Len(now) : now[j].id <= Len(log) + 1 + MaxRecords
  <2>1. \A j \in 1..Len(said) : said[j].id \in Nat
    BY <1>6 DEF Sayings
  <2> SUFFICES ASSUME NEW j \in 1..Len(now)
               PROVE  now[j].id <= Len(log) + 1 + MaxRecords
    OBVIOUS
  <2>2. j + 1 \in 1..Len(said) /\ now[j] = said[j + 1]
    BY <1>7
  <2>3. said[j + 1].id \in Nat /\ said[j + 1].id <= Len(log) + MaxRecords
    BY <1>6, <2>1, <2>2
  <2> QED
    BY <1>6, <2>2, <2>3
<1>15. Len(now) + left <= MaxRecords + 1 /\ r.id <= Len(log) + 1 + MaxRecords
  BY <1>6, <1>7, <1>12
<1>16. Fits(r, now)
  BY <1>1, <1>7, <1>12, <1>13, <1>14, <1>15 DEF Fits
<1>17. Adding(r, now)
  BY <1>2, <1>3, <1>4, <1>5, <1>16 DEF Adding, Add, GeminiCompress
<1> QED
  BY <1>17, AddingKeeps

(* A record that says nothing, perhaps one over the limit. *)
LEMMA AsideKeeps ==
  ASSUME IInv, Aside
  PROVE  IInv'
<1>1. left > 0
  BY DEF Aside, Add
<1>2. PICK kind \in {"tool", "long", "meta"} : Add(Other(kind, NewId, LastId), Said)
  BY DEF Aside
<1>3. PICK said : said = Said
  OBVIOUS
<1>4. PICK r : r = Other(kind, NewId, LastId)
  OBVIOUS
<1>5. /\ said \in Seq(Sayings) /\ Len(said) \in Nat
      /\ \A j \in 1..Len(said) : said[j] \in Sayings /\ said[j].id <= Len(log) + MaxRecords
      /\ Len(said) + left <= MaxRecords /\ MaxRecords \in Nat /\ left \in Nat
      /\ Len(log) \in Nat
  BY <1>3, Ids
<1>6. /\ r \in Records /\ r.kind = kind /\ r.id = NewId /\ r.parts = <<>>
      /\ r.role = "none" /\ TurnOf(r) = <<>> /\ r.parent = LastId
  <2>1. NewId \in Nat /\ LastId \in Nat
    BY Ids
  <2> QED
    BY <1>2, <1>4, <2>1, OtherType DEF Other, Record
<1>7. AntigravityTurn(r) = <<>>
  BY <1>6 DEF AntigravityTurn
<1>8. Heard(format, said) = Heard(format, said) \o <<>>
      /\ Heard("pi", said) = Heard("pi", said) \o <<>>
  <2>1. \A s \in Seq(Turns) : s = s \o <<>>
    OBVIOUS
  <2> QED
    BY <1>5, <2>1, HeardSteps
<1>9. format = "gemini" => Mirrors(GeminiReplay(LoadGeminiConversation(log), r), said)
  <2>1. GeminiReplay(LoadGeminiConversation(log), r) = LoadGeminiConversation(log)
    BY <1>2, <1>6 DEF GeminiReplay
  <2> QED
    BY <1>3, <2>1, SaidDistinct
<1>10. format = "pi" =>
         \E base \in Seq(Sayings) :
            /\ Heard("pi", said) = Heard("pi", base) \o TurnOf(r)
            /\ \/ log = <<>> /\ base = <<>>
               \/ \E p \in 1..Len(log) : r.parent = log[p].id /\ base = told[p]
  <2>1. \/ log = <<>> /\ said = <<>>
        \/ \E p \in 1..Len(log) : r.parent = log[p].id /\ said = told[p]
    BY <1>3, <1>6, Ids
  <2> QED
    BY <1>5, <1>6, <1>8, <2>1
<1>11. \A j \in 1..Len(said) : said[j].id <= Len(log) + 1 + MaxRecords
  <2>1. \A j \in 1..Len(said) : said[j].id \in Nat
    BY <1>5 DEF Sayings
  <2> QED
    BY <1>5, <2>1
<1>12. r.id <= Len(log) + 1 + MaxRecords /\ r.id = Len(log) + 1 + MaxRecords
  BY <1>5, <1>6, Ids
<1>13. Len(said) + left <= MaxRecords + 1
  BY <1>5
<1>14. PartsFine(r)
  BY <1>6 DEF PartsFine
<1>15. Fits(r, said)
  BY <1>3, <1>5, <1>6, <1>7, <1>8, <1>9, <1>10, <1>11, <1>12, <1>13, <1>14 DEF Fits
<1>16. Adding(r, said)
  BY <1>2, <1>3, <1>4, <1>15 DEF Adding, Add
<1> QED
  BY <1>16, AddingKeeps

-----------------------------------------------------------------------------
(* What is handed over: the turns of the transcript, or the last of them. *)
LEMMA HeardShort ==
  ASSUME NEW f, NEW q \in Seq(Sayings)
  PROVE  Len(Heard(f, q)) <= Len(q)
<1> DEFINE S == {s \in Seq(Sayings) : Len(Heard(f, s)) <= Len(s)}
<1>1. <<>> \in S
  BY HeardSteps
<1>2. ASSUME NEW s \in Seq(Sayings), NEW x \in Sayings, s \in S
      PROVE  Append(s, x) \in S
  <2>1. /\ Heard(f, s) \in Seq(Turns) /\ Len(Heard(f, s)) <= Len(s)
        /\ HeardOf(f, x) \in Seq(Turns)
    BY <1>2, HeardSteps, HeardType
  <2>2. Heard(f, Append(s, x)) = Heard(f, s) \o HeardOf(f, x)
    BY HeardAppend
  <2>3. Len(HeardOf(f, x)) <= 1 /\ Len(HeardOf(f, x)) \in Nat
    BY DEF HeardOf
  <2>4. Len(Heard(f, s) \o HeardOf(f, x)) = Len(Heard(f, s)) + Len(HeardOf(f, x))
    BY <2>1
  <2>5. Append(s, x) \in Seq(Sayings) /\ Len(Append(s, x)) = Len(s) + 1 /\ Len(s) \in Nat
    OBVIOUS
  <2>6. Len(Heard(f, s)) \in Nat
    BY <2>1
  <2>7. Len(Heard(f, Append(s, x))) <= Len(Append(s, x))
    BY <2>1, <2>2, <2>3, <2>4, <2>5, <2>6
  <2> QED
    BY <2>5, <2>7
<1>3. Seq(Sayings) \subseteq S
  <2>1. \A s \in Seq(Sayings) : \A x \in Sayings : s \in S => Append(s, x) \in S
    BY <1>2
  <2> HIDE DEF S
  <2> QED
    BY <1>1, <2>1, AllSequences
<1> QED
  BY <1>3

(* Pi's transcript is made of turns. *)
LEMMA PiTranscriptType ==
  ASSUME NEW records \in Seq(Records)
  PROVE  PiTranscript(records) \in Seq(Turns)
<1>1. PiPath(records) \in Seq(1..Len(records))
  <2>1. CASE PiRead(records) = {}
    BY <2>1 DEF PiPath
  <2>2. CASE PiRead(records) # {}
    <3>1. PiRead(records) \in SUBSET (1..Len(records)) /\ Len(records) \in Nat
      BY DEF PiRead
    <3>2. Latest(PiRead(records)) \in 1..Len(records)
      BY <2>2, <3>1, LatestIs
    <3>3. PiParents(records)[Latest(PiRead(records))] \in Seq(1..Len(records))
      BY <3>2, PathType
    <3> QED
      BY <2>2, <3>3 DEF PiPath
  <2> QED
    BY <2>1, <2>2
<1> QED
  BY <1>1, PiTurnsSteps DEF PiTranscript

(* A transcript has no more turns than records were added. *)
LEMMA TranscriptIs ==
  ASSUME IInv
  PROVE  /\ Transcript(format, log) \in Seq(Turns)
         /\ Len(Transcript(format, log)) + left <= MaxRecords
<1> DEFINE T == Transcript(format, log)
           H == Heard(format, Said)
<1>1. H \in Seq(Turns) /\ Len(H) <= Len(Said)
  BY Ids, HeardSteps, HeardShort
<1>2. T \in Seq(Turns) /\ Len(T) <= Len(H)
  <2>1. CASE T = H
    BY <1>1, <2>1
  <2>2. CASE T = <<>>
    BY <1>1, <2>2
  <2>3. CASE T # H /\ T # <<>>
    <3>1. format = "pi" /\ IsSuffix(T, H)
      BY <2>3, TranscriptFits DEF TranscriptIsConversation
    <3>2. T \in Seq(Turns)
      BY <3>1, Ids, PiTranscriptType DEF Transcript
    <3> HIDE DEF T, H
    <3>3. PICK u \in Seq(Turns) : H = u \o T
      BY <1>1, <3>1, <3>2, SuffixHas
    <3> QED
      BY <3>2, <3>3
  <2> QED
    BY <2>1, <2>3, <2>2
<1> HIDE DEF T, H
<1>3. Len(T) \in Nat /\ Len(H) \in Nat /\ Len(Said) \in Nat
  BY <1>1, <1>2, Ids
<1>4. Len(Said) + left <= MaxRecords /\ left \in Nat /\ MaxRecords \in Nat
  BY Ids
<1>5. Len(T) + left <= MaxRecords
  BY <1>1, <1>2, <1>3, <1>4
<1> QED
  BY <1>2, <1>5 DEF T

(* HandoffOptions.apply keeps the last turns. *)
LEMMA GivenIs ==
  ASSUME NEW n \in Nat, NEW turns \in Seq(Turns), turns # <<>>
  PROVE  /\ LastTurns(n, turns) = Apply(n, turns)
         /\ LastTurns(n, turns) \in Seq(Turns) /\ LastTurns(n, turns) # <<>>
         /\ Len(LastTurns(n, turns)) <= Len(turns)
<1>1. Len(turns) \in Nat /\ Len(turns) # 0
  OBVIOUS
<1>2. CASE n = 0 \/ n >= Len(turns)
  <2>1. SubSeq(turns, 1, Len(turns)) = turns
    OBVIOUS
  <2>2. LastTurns(n, turns) = turns
    <3>1. CASE n = 0 \/ n > Len(turns)
      BY <2>1, <3>1 DEF LastTurns
    <3>2. CASE n = Len(turns) /\ n # 0
      <4>1. ~(n = 0 \/ n > Len(turns)) /\ Len(turns) - n + 1 = 1
        BY <1>1, <3>2
      <4> QED
        BY <2>1, <4>1 DEF LastTurns
    <3> QED
      BY <1>1, <1>2, <3>1, <3>2
  <2>3. Apply(n, turns) = turns
    BY <1>1, <1>2 DEF Apply
  <2> QED
    BY <1>1, <2>2, <2>3
<1>3. CASE n # 0 /\ n < Len(turns)
  <2> DEFINE s == SubSeq(turns, Len(turns) - n + 1, Len(turns))
  <2>1. Len(turns) - n + 1 \in 1..Len(turns)
    BY <1>1, <1>3
  <2>2. s \in Seq(Turns) /\ Len(s) = n
    BY <1>1, <1>3, <2>1
  <2>3. ~(n = 0 \/ n > Len(turns)) /\ ~(n = 0 \/ Len(turns) <= n)
    BY <1>1, <1>3
  <2>4. LastTurns(n, turns) = s
    BY <2>3 DEF LastTurns
  <2>5. Apply(n, turns) = s
    BY <2>3 DEF Apply
  <2> HIDE DEF s
  <2>6. s # <<>>
    BY <1>3, <2>2
  <2>7. Len(s) <= Len(turns)
    BY <1>1, <1>3, <2>2
  <2> QED
    BY <2>2, <2>4, <2>5, <2>6, <2>7
<1> QED
  BY <1>1, <1>2, <1>3

(* A session that was just written. *)
ToldOf(target, turns, n) ==
    [k \in 1..n |-> IF target = "pi" /\ k <= Len(turns)
                    THEN SubSeq(Retold(turns), 1, k) ELSE Retold(turns)]

Converting(target, turns) ==
    /\ target \in Targets /\ turns \in Seq(Turns) /\ turns # <<>>
    /\ Len(turns) + left <= MaxRecords
    /\ format' = target /\ standing' = "own"
    /\ log' = WriteConverted(target, turns)
    /\ told' = ToldOf(target, turns, Len(log'))
    /\ handed' = UserPreview(turns) /\ left' = left

(* Convert writes such a session. *)
LEMMA ConvertConverts ==
  ASSUME IInv, Convert
  PROVE  \E target, turns : Converting(target, turns)
<1>1. PICK transcript \in {Transcript(format, log)} \ {<<>>} :
        \E target \in Targets, maxTurns \in {0, 2} :
           /\ format' = target /\ standing' = "own"
           /\ log' = WriteConverted(target, Apply(maxTurns, transcript))
           /\ told' = [k \in 1..Len(log') |->
                         IF target = "pi" /\ k <= Len(LastTurns(maxTurns, transcript))
                         THEN SubSeq([i \in 1..Len(LastTurns(maxTurns, transcript)) |->
                                [id |-> i, role |-> LastTurns(maxTurns, transcript)[i].role,
                                 text |-> LastTurns(maxTurns, transcript)[i].text]], 1, k)
                         ELSE [i \in 1..Len(LastTurns(maxTurns, transcript)) |->
                                [id |-> i, role |-> LastTurns(maxTurns, transcript)[i].role,
                                 text |-> LastTurns(maxTurns, transcript)[i].text]]]
           /\ handed' = UserPreview(Apply(maxTurns, transcript))
  BY Zenon DEF Convert
<1>2. transcript # <<>> /\ transcript \in Seq(Turns) /\ Len(transcript) + left <= MaxRecords
  BY <1>1, TranscriptIs
<1>3. PICK target \in Targets, maxTurns \in {0, 2} :
        /\ format' = target /\ standing' = "own"
        /\ log' = WriteConverted(target, Apply(maxTurns, transcript))
        /\ told' = [k \in 1..Len(log') |->
                      IF target = "pi" /\ k <= Len(LastTurns(maxTurns, transcript))
                      THEN SubSeq(Retold(LastTurns(maxTurns, transcript)), 1, k)
                      ELSE Retold(LastTurns(maxTurns, transcript))]
        /\ handed' = UserPreview(Apply(maxTurns, transcript))
  BY <1>1 DEF Retold
<1>4. PICK turns : turns = LastTurns(maxTurns, transcript)
  OBVIOUS
<1>5. /\ turns = Apply(maxTurns, transcript) /\ turns \in Seq(Turns) /\ turns # <<>>
      /\ Len(turns) <= Len(transcript)
  BY <1>2, <1>4, GivenIs
<1>6. Len(turns) + left <= MaxRecords
  <2>1. Len(turns) \in Nat /\ Len(transcript) \in Nat
    BY <1>2, <1>5
  <2>2. left \in Nat /\ MaxRecords \in Nat
    BY Ids
  <2> QED
    BY <1>2, <1>5, <2>1, <2>2
<1>7. left' = left
  BY DEF Convert
<1>8. told' = ToldOf(target, turns, Len(log'))
  BY <1>3, <1>4 DEF ToldOf
<1>9. Converting(target, turns)
  BY <1>3, <1>5, <1>6, <1>7, <1>8 DEF Converting
<1> QED
  BY <1>9

(* After its last record the whole conversation was said. *)
LEMMA ToldOfIs ==
  ASSUME NEW target, NEW turns \in Seq(Turns), NEW n \in Nat \ {0},
         target = "pi" => n = Len(turns)
  PROVE  /\ ToldOf(target, turns, n) \in Seq(Seq(Sayings))
         /\ Len(ToldOf(target, turns, n)) = n
         /\ Last(ToldOf(target, turns, n)) = Retold(turns)
         /\ \A k \in 1..n :
               /\ ToldOf(target, turns, n)[k] \in Seq(Sayings)
               /\ Len(ToldOf(target, turns, n)[k]) <= Len(turns)
               /\ \A i \in 1..Len(ToldOf(target, turns, n)[k]) :
                     ToldOf(target, turns, n)[k][i].id = i
<1> DEFINE R == Retold(turns)
           X(k) == ToldOf(target, turns, n)[k]
<1>1. /\ R \in Seq(Sayings) /\ Len(R) = Len(turns) /\ Len(turns) \in Nat
      /\ \A i \in 1..Len(turns) : R[i].id = i
  BY RetoldType
<1>2. ASSUME NEW k \in 1..n
      PROVE  /\ X(k) \in Seq(Sayings) /\ Len(X(k)) <= Len(turns)
             /\ \A i \in 1..Len(X(k)) : X(k)[i].id = i
  <2>1. X(k) = IF target = "pi" /\ k <= Len(turns) THEN SubSeq(R, 1, k) ELSE R
    BY DEF ToldOf
  <2> HIDE DEF R, X
  <2>2. CASE target = "pi" /\ k <= Len(turns)
    <3>1. k \in 0..Len(R) /\ X(k) = SubSeq(R, 1, k)
      BY <1>1, <2>1, <2>2
    <3>2. /\ SubSeq(R, 1, k) \in Seq(Sayings) /\ Len(SubSeq(R, 1, k)) = k
          /\ \A i \in 1..k : SubSeq(R, 1, k)[i] = R[i] /\ i \in 1..Len(turns)
      BY <1>1, <3>1
    <3> QED
      BY <1>1, <2>2, <3>1, <3>2
  <2>3. CASE ~(target = "pi" /\ k <= Len(turns))
    BY <1>1, <2>1, <2>3
  <2> QED
    BY <2>2, <2>3
<1>3. ToldOf(target, turns, n) = [k \in 1..n |-> X(k)] /\ Len(ToldOf(target, turns, n)) = n
  BY DEF ToldOf
<1>4. ToldOf(target, turns, n) \in Seq(Seq(Sayings))
  <2>1. \A k \in 1..n : X(k) \in Seq(Sayings)
    BY <1>2
  <2> HIDE DEF X
  <2> QED
    BY <1>3, <2>1
<1>5. Last(ToldOf(target, turns, n)) = R
  <2>1. Last(ToldOf(target, turns, n)) = X(n)
    BY <1>3 DEF Last
  <2>2. X(n) = IF target = "pi" /\ n <= Len(turns) THEN SubSeq(R, 1, n) ELSE R
    BY DEF ToldOf
  <2> HIDE DEF R, X
  <2>3. SubSeq(R, 1, Len(R)) = R
    BY <1>1
  <2> QED
    BY <1>1, <2>1, <2>2, <2>3
<1> QED
  BY <1>2, <1>3, <1>4, <1>5

-----------------------------------------------------------------------------
(* The row of a session that was just written. *)
LEMMA ChainedQuery ==
  ASSUME NEW turns \in Seq(Turns)
  PROVE  UserParts(Chained(turns)) = TextsOf(Users(turns))
<1> DEFINE Same(q) == UserTexts(MimoParts(Chained(q))) = TextsOf(Users(q))
           S == {q \in Seq(Turns) : Same(q)}
<1>1. <<>> \in S
  <2>1. Chained(<<>>) = <<>>
    BY DEF Chained
  <2> QED
    BY <2>1, MimoPartsSteps, UserTextsSteps, UsersSteps, TextsOfSteps
<1>2. ASSUME NEW q \in Seq(Turns), NEW t \in Turns, Same(q)
      PROVE  Same(Append(q, t))
  <2> DEFINE now == Append(q, t)
             m == Chained(now)[Len(q) + 1]
             row == [id |-> m.id, role |-> m.role, text |-> t.text]
  <2>1. /\ now \in Seq(Turns) /\ Len(now) = Len(q) + 1 /\ Len(q) \in Nat
        /\ now[Len(q) + 1] = t /\ \A i \in 1..Len(q) : now[i] = q[i]
    OBVIOUS
  <2> HIDE DEF now
  <2>2. Chained(now) \in Seq(Messages) /\ Len(Chained(now)) = Len(q) + 1
        /\ Chained(q) \in Seq(Messages) /\ Len(Chained(q)) = Len(q)
    BY <2>1, ChainedType
  <2>3. Len(q) + 1 \in 1..Len(now)
    BY <2>1
  <2>4. /\ m \in Messages /\ m.role = t.role /\ m.id \in Nat
        /\ m.parts = <<Part(t.text, TRUE)>> /\ Part(t.text, TRUE) \in Parts
    <3>1. /\ m \in Messages /\ m.role = now[Len(q) + 1].role
          /\ m.parts = <<Part(now[Len(q) + 1].text, TRUE)>>
          /\ Part(now[Len(q) + 1].text, TRUE) \in Parts
      BY <2>1, <2>3, ChainedType
    <3> HIDE DEF m
    <3>2. m.id \in Nat
      BY <3>1 DEF Messages
    <3> QED
      BY <2>1, <3>1, <3>2
  <2>5. Chained(now) = Append(Chained(q), m)
    <3>1. ASSUME NEW i \in 1..Len(q) PROVE Chained(now)[i] = Chained(q)[i]
      <4>1. i \in 1..Len(now) /\ now[i] = q[i]
        BY <2>1
      <4>2. Chained(now)[i] = Message(i, i - 1, now[i].role, <<Part(now[i].text, TRUE)>>)
        BY <4>1 DEF Chained
      <4>3. Chained(q)[i] = Message(i, i - 1, q[i].role, <<Part(q[i].text, TRUE)>>)
        BY DEF Chained
      <4> QED
        BY <4>1, <4>2, <4>3
    <3>2. /\ Append(Chained(q), m) \in Seq(Messages)
          /\ Len(Append(Chained(q), m)) = Len(q) + 1
          /\ \A i \in 1..Len(q) : Append(Chained(q), m)[i] = Chained(q)[i]
          /\ Append(Chained(q), m)[Len(q) + 1] = m
      <4> HIDE DEF m
      <4> QED
        BY <2>1, <2>2, <2>4
    <3>3. \A i \in 1..Len(q) + 1 : Chained(now)[i] = Append(Chained(q), m)[i]
      <4>1. \A i \in 1..Len(q) + 1 : i \in 1..Len(q) \/ i = Len(q) + 1
        BY <2>1
      <4> QED
        BY <3>1, <3>2, <4>1
    <3> HIDE DEF m
    <3> QED
      BY <2>2, <3>2, <3>3, SeqEqual
  <2> HIDE DEF m
  <2>6. MimoPartsOf(m) = <<row>> /\ row \in PartRows
    <3>1. MimoPartsOf(m) = RowsOf(m, m.parts)
      BY DEF MimoPartsOf, RowsOf
    <3>2. m \in Records
      BY <2>4, MessagesAreRecords
    <3>3. RowsOf(m, <<Part(t.text, TRUE)>>) = RowOfPart(m, Part(t.text, TRUE))
      BY <2>4, <3>2, RowsSteps
    <3>4. RowOfPart(m, Part(t.text, TRUE)) = <<row>>
      BY DEF RowOfPart, Part
    <3>5. row \in PartRows
      BY <2>4, TurnFacts DEF PartRows
    <3> QED
      BY <2>4, <3>1, <3>3, <3>4, <3>5
  <2>7. MimoParts(Chained(now)) = MimoParts(Chained(q)) \o <<row>>
    <3>1. Chained(q) \in Seq(Records) /\ m \in Records
      BY <2>4, MessagesAreRecords, TurnsOfChained
    <3> QED
      BY <2>5, <2>6, <3>1, MimoPartsSteps
  <2>8. MimoParts(Chained(q)) \in Seq(PartRows)
    BY TurnsOfChained, MimoPartsSteps
  <2> HIDE DEF row
  <2>9. UserTexts(MimoParts(Chained(now))) = UserTexts(MimoParts(Chained(q))) \o UserText(row)
    <3>1. <<row>> \in Seq(PartRows)
      BY <2>6
    <3> QED
      BY <2>6, <2>7, <2>8, <3>1, UserTextsSteps
  <2>10. Users(now) = Users(q) \o UserTurn(t)
    BY UsersSteps DEF now
  <2>11. Users(q) \in Seq(Turns) /\ UserTurn(t) \in Seq(Turns)
    BY UsersSteps DEF UserTurn
  <2>12. TextsOf(Users(now)) = TextsOf(Users(q)) \o TextsOf(UserTurn(t))
    BY <2>10, <2>11, TextsOfSteps
  <2>13. TextsOf(UserTurn(t)) = UserText(row)
    <3>1. row.role = t.role /\ row.text = t.text
      BY <2>4 DEF row
    <3> QED
      BY <3>1, TextsOfSteps DEF UserTurn, UserText
  <2>14. Same(now)
    BY <1>2, <2>9, <2>12, <2>13
  <2> QED
    BY <2>14 DEF now
<1>3. Seq(Turns) \subseteq S
  <2>1. \A q \in Seq(Turns) : \A t \in Turns : q \in S => Append(q, t) \in S
    <3> HIDE DEF Same
    <3>1. \A q \in Seq(Turns) : \A t \in Turns : Append(q, t) \in Seq(Turns)
      OBVIOUS
    <3> QED
      BY <1>2, <3>1
  <2> HIDE DEF S
  <2> QED
    BY <1>1, <2>1, AllSequences
<1>4. UserTexts(MimoParts(Chained(turns))) = TextsOf(Users(turns))
  BY <1>3
<1> QED
  BY <1>4 DEF UserParts, UserTexts

(* Prompts are turns of the user. *)
LEMMA UsersAre ==
  ASSUME NEW turns \in Seq(Turns)
  PROVE  \A i \in 1..Len(Users(turns)) : Users(turns)[i].role = "user"
<1> DEFINE Good(q) == \A i \in 1..Len(Users(q)) : Users(q)[i].role = "user"
           S == {q \in Seq(Turns) : Good(q)}
<1>1. <<>> \in S
  BY UsersSteps
<1>2. ASSUME NEW q \in Seq(Turns), NEW t \in Turns, Good(q)
      PROVE  Good(Append(q, t))
  <2>1. Users(Append(q, t)) = Users(q) \o UserTurn(t)
    BY UsersSteps
  <2>2. Users(q) \in Seq(Turns)
    BY UsersSteps
  <2> DEFINE u == Users(q)
  <2>3. \A i \in 1..Len(u) : u[i].role = "user"
    BY <1>2
  <2> HIDE DEF u, Good
  <2>4. CASE t.role = "user"
    <3>1. u \o <<t>> \in Seq(Turns) /\ Len(u \o <<t>>) = Len(u) + 1 /\ Len(u) \in Nat
          /\ \A i \in 1..Len(u) : (u \o <<t>>)[i] = u[i]
          /\ (u \o <<t>>)[Len(u) + 1] = t
      BY <2>2 DEF u
    <3>2. \A i \in 1..Len(u) + 1 : (u \o <<t>>)[i].role = "user"
      <4>1. \A i \in 1..Len(u) + 1 : i \in 1..Len(u) \/ i = Len(u) + 1
        BY <3>1
      <4> QED
        BY <2>3, <2>4, <3>1, <4>1
    <3>3. Users(Append(q, t)) = u \o <<t>>
      BY <2>1, <2>4 DEF UserTurn, u
    <3> QED
      BY <3>1, <3>2, <3>3 DEF Good
  <2>5. CASE t.role # "user"
    <3>1. Users(Append(q, t)) = u
      BY <2>1, <2>2, <2>5, ConcatEmptySeq DEF UserTurn, u
    <3> QED
      BY <2>3, <3>1 DEF Good
  <2> QED
    BY <2>4, <2>5
<1>3. Seq(Turns) \subseteq S
  <2>1. \A q \in Seq(Turns) : \A t \in Turns : q \in S => Append(q, t) \in S
    <3> HIDE DEF Good
    <3>1. \A q \in Seq(Turns) : \A t \in Turns : Append(q, t) \in Seq(Turns)
      OBVIOUS
    <3> QED
      BY <1>2, <3>1
  <2> HIDE DEF S
  <2> QED
    BY <1>1, <2>1, AllSequences
<1> QED
  BY <1>3

(* A row of the list. *)
LEMMA PreviewType ==
  ASSUME NEW turns \in Seq(Turns)
  PROVE  UserPreview(turns) \in [listed : BOOLEAN, first : Texts, last : Texts]
<1> DEFINE texts == TextsOf(Users(turns))
<1>1. texts \in Seq(Texts)
  BY UsersSteps, TextsOfSteps
<1>2. <<>> \in Texts
  BY DEF Texts
<1>3. UserPreview(turns) = Preview(texts)
  BY DEF UserPreview
<1> HIDE DEF texts
<1>4. CASE texts = <<>>
  BY <1>2, <1>3, <1>4 DEF Preview, Listed
<1>5. CASE texts # <<>>
  <2>1. 1 \in 1..Len(texts) /\ Len(texts) \in 1..Len(texts)
    BY <1>1, <1>5
  <2>2. texts[1] \in Texts /\ texts[Len(texts)] \in Texts
    BY <1>1, <2>1, ElementOfSeq
  <2> QED
    BY <1>3, <1>5, <2>2 DEF Preview, Listed, Last
<1> QED
  BY <1>4, <1>5

(* OpenCode's query of a written session. *)
LEMMA QueryOfWritten ==
  ASSUME NEW f, NEW turns \in Seq(Turns),
         f = "mimo" => /\ ~TooLarge(UserPreview(turns).first)
                       /\ ~TooLarge(UserPreview(turns).last)
  PROVE  ParseOpenCode(f, "own", Chained(turns)) = UserPreview(turns)
<1> DEFINE users == Users(turns)
           texts == TextsOf(users)
           Useful(text) == IF UsefulUserText(text) THEN text ELSE <<>>
           shown == Preview(texts)
<1>1. UserPreview(turns) = shown
  BY DEF UserPreview
<1>2. ParseOpenCode(f, "own", Chained(turns)) = Listed(Useful(shown.first), Useful(shown.last))
  BY <1>1, ChainedQuery DEF ParseOpenCode
<1>3. users \in Seq(Turns) /\ \A i \in 1..Len(users) : users[i].role = "user"
  BY UsersSteps, UsersAre
<1> HIDE DEF users
<1>4. \A i \in 1..Len(users) : UsefulUserText(users[i].text)
  <2>1. \A i \in 1..Len(users) : users[i] \in Turns
    BY <1>3
  <2> QED
    BY <1>3, <2>1, TurnFacts
<1>5. /\ texts \in Seq(Texts) /\ Len(texts) = Len(users)
      /\ \A i \in 1..Len(users) : texts[i] = users[i].text
  BY <1>3, TextsOfSteps
<1> HIDE DEF texts
<1>6. CASE texts = <<>>
  <2>1. shown = Listed(<<>>, <<>>)
    BY <1>6 DEF Preview
  <2>2. shown.first = <<>> /\ shown.last = <<>>
    BY <2>1 DEF Listed
  <2>3. Useful(<<>>) = <<>>
    OBVIOUS
  <2> HIDE DEF shown, Useful
  <2> QED
    BY <1>2, <1>1, <2>1, <2>2, <2>3
<1>7. CASE texts # <<>>
  <2>1. shown = Listed(texts[1], texts[Len(texts)])
    BY <1>7 DEF Preview, Last
  <2>2. shown.first = texts[1] /\ shown.last = texts[Len(texts)]
    BY <2>1 DEF Listed
  <2>3. 1 \in 1..Len(users) /\ Len(texts) \in 1..Len(users)
    BY <1>5, <1>7
  <2>4. UsefulUserText(texts[1]) /\ UsefulUserText(texts[Len(texts)])
    BY <1>4, <1>5, <2>3
  <2>5. Useful(texts[1]) = texts[1] /\ Useful(texts[Len(texts)]) = texts[Len(texts)]
    BY <2>4
  <2> HIDE DEF shown, Useful
  <2> QED
    BY <1>2, <1>1, <2>1, <2>2, <2>5
<1> QED
  BY <1>6, <1>7

-----------------------------------------------------------------------------
(* Handing over keeps the invariant. *)
LEMMA NoSlashIsHeard ==
  ASSUME NEW turns \in Seq(Turns),
         \A i \in 1..Len(turns) : ~(turns[i].role = "user" /\ turns[i].text[1] = "slash")
  PROVE  Heard("gemini", Retold(turns)) = turns
<1>1. ASSUME NEW i \in 1..Len(turns)
      PROVE  HeardOf("gemini", Retold(turns)[i]) = <<turns[i]>>
  <2>1. turns[i] \in Turns
    OBVIOUS
  <2>2. Retold(turns)[i].role = turns[i].role /\ Retold(turns)[i].text = turns[i].text
    BY RetoldType
  <2>3. Transferable("gemini", Retold(turns)[i])
    BY <2>1, <2>2, TurnFacts DEF Transferable
  <2> QED
    BY <2>1, <2>2, <2>3, TurnFacts DEF HeardOf
<1>2. Len(Retold(turns)) = Len(turns)
  BY RetoldType
<1>3. [i \in 1..Len(turns) |-> HeardOf("gemini", Retold(turns)[i])]
        = [i \in 1..Len(turns) |-> <<turns[i]>>]
  BY <1>1
<1>4. Heard("gemini", Retold(turns))
        = FlattenSeq([i \in 1..Len(turns) |-> HeardOf("gemini", Retold(turns)[i])])
  BY <1>2 DEF Heard, Gathered, HeardOf
<1> QED
  BY <1>3, <1>4, FlattenSingles

(* Gemini's written session is one snapshot, which is read as the turns. *)
LEMMA SnapshotIs ==
  ASSUME NEW turns \in Seq(Turns)
  PROVE  LET records == WriteConverted("gemini", turns)
         IN /\ records \in Seq(Records) /\ Len(records) = 1 /\ records[1].id = 0
            /\ Mirrors(LoadGeminiConversation(records), Retold(turns))
            /\ LoadGeminiConversation(records).messages = Chained(turns)
<1> DEFINE body == Chained(turns)
           said == Retold(turns)
           r == Record("snapshot", 0, 0, "none", <<>>, body)
<1>1. body \in Seq(Messages) /\ Len(body) = Len(turns)
  BY ChainedType
<1>2. said \in Seq(Sayings) /\ Len(said) = Len(turns)
  BY RetoldType
<1>3. SameMessages(body, said)
  <2>1. \A i \in 1..Len(turns) :
          /\ body[i].id = i /\ body[i].role = turns[i].role
          /\ TextFromContent(body[i].parts) = turns[i].text
    BY ChainedType
  <2>2. \A i \in 1..Len(turns) :
          /\ said[i].id = i /\ said[i].role = turns[i].role /\ said[i].text = turns[i].text
    BY RetoldType
  <2> HIDE DEF body, said
  <2> QED
    BY <1>1, <1>2, <2>1, <2>2 DEF SameMessages
<1>4. DistinctIds(said)
  <2>1. \A i \in 1..Len(said) : said[i].id = i
    BY RetoldType
  <2> HIDE DEF said
  <2> QED
    BY <2>1 DEF DistinctIds
<1>5. r \in Records /\ r.kind = "snapshot" /\ r.id = 0 /\ r.body = body
  <2>1. r = [kind |-> "snapshot", id |-> 0, parent |-> 0, role |-> "none",
             parts |-> <<>>, body |-> body]
    BY DEF Record
  <2> HIDE DEF body, r
  <2> QED
    BY <1>1, <2>1 DEF Records
<1>6. WriteConverted("gemini", turns) = <<r>>
  BY DEF WriteConverted, WriteGemini
<1> HIDE DEF r, body, said
<1>7. LoadGeminiConversation(<<r>>) = GeminiReplay(Indexed(<<>>), r)
  <2>1. Append(<<>>, r) = <<r>> /\ <<>> \in Seq(Records)
    OBVIOUS
  <2> QED
    BY <1>5, <2>1, ReplaySteps
<1>8. Mirrors(GeminiReplay(Indexed(<<>>), r), said)
  BY <1>2, <1>3, <1>4, <1>5, MirrorsSnapshot
<1>9. GeminiReplay(Indexed(<<>>), r).messages = body
  BY <1>5 DEF GeminiReplay, GeminiSnapshot, Indexed
<1>10. <<r>> \in Seq(Records) /\ Len(<<r>>) = 1 /\ <<r>>[1] = r
  BY <1>5
<1> QED
  BY <1>5, <1>6, <1>7, <1>8, <1>9, <1>10 DEF body, said

(* What every writer writes: numbered records, none over the limit, that    *)
(* are read as the turns.                                                   *)
LEMMA LogWritten ==
  ASSUME NEW target \in Targets, NEW turns \in Seq(Turns), turns # <<>>
  PROVE  LET records == WriteConverted(target, turns)
         IN /\ records \in Seq(Records) /\ Len(records) \in Nat \ {0}
            /\ target \in {"pi", "opencode", "mimo"} => records = Chained(turns)
            /\ target = "pi" => Len(records) = Len(turns)
            /\ \A i \in 1..Len(records) : records[i].id \in Nat /\ records[i].id <= i
            /\ target # "gemini" => Numbered(records) /\ TurnsOf(records) = turns
<1> DEFINE records == WriteConverted(target, turns)
<1>1. target \in {"pi", "opencode", "mimo"} => records = Chained(turns)
  BY DEF WriteConverted, WritePi, WriteOpenCode
<1>2. target = "pi" => Len(records) = Len(turns)
  BY <1>1, ChainedType
<1>3. CASE target = "gemini"
  <2>1. records \in Seq(Records) /\ Len(records) = 1 /\ records[1].id = 0
    BY <1>3, SnapshotIs
  <2> HIDE DEF records
  <2>2. \A i \in 1..Len(records) : records[i].id = 0
    BY <2>1
  <2> QED
    BY <1>1, <1>2, <1>3, <2>1, <2>2 DEF records
<1>4. CASE target # "gemini"
  <2>1. /\ records \in Seq(Records) /\ records # <<>> /\ Numbered(records)
        /\ TurnsOf(records) = turns
    BY <1>4, WrittenIsRead
  <2> HIDE DEF records
  <2>2. Len(records) \in Nat \ {0}
    BY <2>1
  <2>3. \A i \in 1..Len(records) : records[i] \in Records
    BY <2>1
  <2>4. \A i \in 1..Len(records) : records[i].id \in Nat /\ records[i].id <= i
    BY <2>1, <2>3, RecordParts DEF Numbered
  <2> QED
    BY <1>1, <1>2, <1>4, <2>1, <2>2, <2>4 DEF records
<1> QED
  BY <1>3, <1>4

(* The row that Convert returns is the one a scan makes. *)
LEMMA RowOfWritten ==
  ASSUME NEW target \in Targets, NEW turns \in Seq(Turns), turns # <<>>
  PROVE  \/ RowOf(target, "own", WriteConverted(target, turns)) = UserPreview(turns)
         \/ target = "jcode" /\ UserPreview(turns).first = <<>>
         \/ target = "mimo" /\ (\/ TooLarge(UserPreview(turns).first)
                                \/ TooLarge(UserPreview(turns).last))
         \/ target = "gemini" /\ \E i \in 1..Len(Retold(turns)) :
               Retold(turns)[i].role = "user" /\ Retold(turns)[i].text[1] = "slash"
<1> DEFINE records == WriteConverted(target, turns)
<1>1. CASE target \in {"codex", "claude"}
  <2>1. records \in Seq(Records) /\ Numbered(records) /\ TurnsOf(records) = turns
    BY <1>1, LogWritten
  <2> HIDE DEF records
  <2>2. HeadReadable(target, "own", records)
    BY <2>1 DEF HeadReadable, Numbered
  <2>3. RowOf(target, "own", records) = Preview(Prompts(records))
    BY <1>1, <2>2 DEF RowOf, ParseCodex, ParseClaude
  <2>4. Preview(Prompts(records)) = UserPreview(turns)
    BY <2>1, PromptsAreUsers DEF UserPreview
  <2> QED
    BY <2>3, <2>4 DEF records
<1>2. CASE target = "pi"
  <2>1. records = Chained(turns) /\ records \in Seq(Records) /\ Numbered(records)
        /\ Len(records) = Len(turns)
    BY <1>2, LogWritten
  <2> DEFINE tolds == [k \in 1..Len(turns) |-> SubSeq(Retold(turns), 1, k)]
  <2>2. LinesFit(records, tolds)
    BY <2>1, PiWritten
  <2>3. tolds \in Seq(Seq(Sayings)) /\ Len(tolds) = Len(turns)
        /\ tolds[Len(turns)] = Retold(turns) /\ Len(turns) # 0
    <3>1. Retold(turns) \in Seq(Sayings) /\ Len(Retold(turns)) = Len(turns)
      BY RetoldType
    <3>2. Len(turns) \in Nat /\ Len(turns) # 0
      OBVIOUS
    <3>3. \A k \in 1..Len(turns) : SubSeq(Retold(turns), 1, k) \in Seq(Sayings)
      BY <3>1, <3>2
    <3>4. SubSeq(Retold(turns), 1, Len(turns)) = Retold(turns)
      BY <3>1
    <3> QED
      BY <3>2, <3>3, <3>4
  <2> HIDE DEF tolds, records
  <2>4. LineFits(records, PiTranscript(records), Retold(turns))
    <3>1. records # <<>>
      BY <2>1, <2>3
    <3>2. LineFits(records, PiTranscript(records),
                   IF records = <<>> THEN <<>> ELSE tolds[Len(records)])
      BY <2>1, <2>2, <2>3, PiFits
    <3> QED
      BY <2>1, <2>3, <3>1, <3>2
  <2>5. \A i \in 1..Len(records) : records[i].kind # "long"
    BY <2>1 DEF Numbered
  <2>6. PiTranscript(records) = Heard("pi", Retold(turns))
    BY <2>4, <2>5 DEF LineFits
  <2>7. PiTranscript(records) = turns
    BY <2>6, RetoldIsHeard
  <2>8. RowOf(target, "own", records) = UserPreview(turns)
    BY <1>2, <2>7 DEF RowOf, ParsePi, Transcript
  <2> QED
    BY <2>8 DEF records
<1>3. CASE target = "jcode"
  <2>1. TurnsOf(records) = turns
    BY <1>3, LogWritten
  <2> HIDE DEF records
  <2>2. RowOf(target, "own", records)
          = IF Users(turns) = <<>> THEN NoRow ELSE UserPreview(turns)
    BY <1>3, <2>1 DEF RowOf, ParseJCode, JCodeTranscript
  <2>3. Users(turns) = <<>> => UserPreview(turns).first = <<>>
    BY TextsOfSteps DEF UserPreview, Preview, Listed
  <2> QED
    BY <1>3, <2>2, <2>3 DEF records
<1>4. CASE target \in {"opencode", "mimo"}
  <2>1. records = Chained(turns)
    BY <1>4, LogWritten
  <2> HIDE DEF records
  <2>2. RowOf(target, "own", records) = ParseOpenCode(target, "own", Chained(turns))
    BY <1>4, <2>1 DEF RowOf
  <2> QED
    BY <2>2, QueryOfWritten DEF records
<1>5. CASE target = "gemini"
  <2>1. CASE \E i \in 1..Len(Retold(turns)) :
               Retold(turns)[i].role = "user" /\ Retold(turns)[i].text[1] = "slash"
    BY <1>5, <2>1
  <2>2. CASE ~\E i \in 1..Len(Retold(turns)) :
                Retold(turns)[i].role = "user" /\ Retold(turns)[i].text[1] = "slash"
    <3>1. \A i \in 1..Len(turns) : ~(turns[i].role = "user" /\ turns[i].text[1] = "slash")
      BY <2>2, RetoldType
    <3>2. Heard("gemini", Retold(turns)) = turns
      BY <3>1, NoSlashIsHeard
    <3> DEFINE messages == LoadGeminiConversation(records).messages
    <3>3. /\ Mirrors(LoadGeminiConversation(records), Retold(turns))
          /\ messages = Chained(turns)
      BY <1>5, SnapshotIs
    <3>4. messages \in Seq(Messages)
      BY <3>3, ChainedType
    <3> HIDE DEF records
    <3>5. GeminiTurns(messages) = turns
      BY <3>2, <3>3, RetoldType, MirrorIsHeard
    <3>6. GeminiTranscript(records) = turns
      BY <3>5 DEF GeminiTranscript, GeminiTurns
    <3> DEFINE replied == \E i \in DOMAIN messages :
                 messages[i].role = "assistant" /\ messages[i].parts # <<>>
    <3>7. RowOf(target, "own", records)
            = IF ~replied /\ Users(turns) = <<>> THEN NoRow ELSE UserPreview(turns)
      BY <1>5, <3>6 DEF RowOf, ParseGemini
    <3>8. ~replied => Users(turns) # <<>>
      <4> HIDE DEF messages
      <4> QED
        BY <3>4, <3>5, NoReplyAllUsers
    <3> HIDE DEF replied
    <3>9. RowOf(target, "own", records) = UserPreview(turns)
      BY <3>7, <3>8
    <3> QED
      BY <3>9 DEF records
  <2> QED
    BY <2>1, <2>2
<1> QED
  BY <1>1, <1>2, <1>3, <1>4, <1>5 DEF Targets, Formats

(* A session that was just written satisfies the invariant. *)
LEMMA ConvertingKeeps ==
  ASSUME IInv, NEW target, NEW turns, Converting(target, turns)
  PROVE  IInv'
<1>1. /\ target \in Targets /\ turns \in Seq(Turns) /\ turns # <<>>
      /\ Len(turns) + left <= MaxRecords
      /\ format' = target /\ standing' = "own"
      /\ log' = WriteConverted(target, turns)
      /\ told' = ToldOf(target, turns, Len(log'))
      /\ handed' = UserPreview(turns) /\ left' = left
  BY DEF Converting
<1>2. /\ Len(turns) \in Nat /\ left \in Nat /\ MaxRecords \in Nat /\ TypeOK
  BY <1>1, Ids
<1>3. /\ log' \in Seq(Records) /\ Len(log') \in Nat \ {0} /\ log' # <<>>
      /\ target \in {"pi", "opencode", "mimo"} => log' = Chained(turns)
      /\ target = "pi" => Len(log') = Len(turns)
      /\ \A i \in 1..Len(log') : log'[i].id \in Nat /\ log'[i].id <= i
      /\ target # "gemini" => Numbered(log') /\ TurnsOf(log') = turns
  <2>1. PICK records : records = WriteConverted(target, turns)
    OBVIOUS
  <2>2. /\ records \in Seq(Records) /\ Len(records) \in Nat \ {0}
        /\ target \in {"pi", "opencode", "mimo"} => records = Chained(turns)
        /\ target = "pi" => Len(records) = Len(turns)
        /\ \A i \in 1..Len(records) : records[i].id \in Nat /\ records[i].id <= i
        /\ target # "gemini" => Numbered(records) /\ TurnsOf(records) = turns
    BY <1>1, <2>1, LogWritten
  <2>3. records # <<>>
    BY <2>2
  <2> QED
    BY <1>1, <2>1, <2>2, <2>3
<1>4. /\ told' \in Seq(Seq(Sayings)) /\ Len(told') = Len(log')
      /\ Last(told') = Retold(turns)
      /\ \A k \in 1..Len(log') :
            /\ told'[k] \in Seq(Sayings) /\ Len(told'[k]) <= Len(turns)
            /\ \A i \in 1..Len(told'[k]) : told'[k][i].id = i
  <2>1. PICK n : n = Len(log')
    OBVIOUS
  <2>2. n \in Nat \ {0} /\ (target = "pi" => n = Len(turns))
    BY <1>3, <2>1
  <2>3. told' = ToldOf(target, turns, n)
    BY <1>1, <2>1
  <2>4. /\ ToldOf(target, turns, n) \in Seq(Seq(Sayings))
        /\ Len(ToldOf(target, turns, n)) = n
        /\ Last(ToldOf(target, turns, n)) = Retold(turns)
        /\ \A k \in 1..n :
              /\ ToldOf(target, turns, n)[k] \in Seq(Sayings)
              /\ Len(ToldOf(target, turns, n)[k]) <= Len(turns)
              /\ \A i \in 1..Len(ToldOf(target, turns, n)[k]) :
                    ToldOf(target, turns, n)[k][i].id = i
    BY <1>1, <2>2, ToldOfIs
  <2> QED
    BY <2>1, <2>3, <2>4
<1>5. Said' = Retold(turns)
  BY <1>3, <1>4 DEF Said
<1>6. TypeOK'
  <2>1. target \in Formats
    BY <1>1 DEF Targets
  <2>2. UserPreview(turns) \in [listed : BOOLEAN, first : Texts, last : Texts]
    BY <1>1, PreviewType
  <2>3. left \in 0..MaxRecords
    BY <1>2 DEF TypeOK
  <2> QED
    BY <1>1, <1>3, <1>4, <2>1, <2>2, <2>3 DEF TypeOK, Standings
<1>7. IdInv'
  <2>1. \A i \in 1..Len(log') : log'[i].id <= i + MaxRecords
    <3> SUFFICES ASSUME NEW i \in 1..Len(log')
                 PROVE  log'[i].id <= i + MaxRecords
      OBVIOUS
    <3>1. log'[i].id \in Nat /\ log'[i].id <= i
      BY <1>3
    <3> QED
      BY <1>2, <3>1
  <2>2. \A k \in 1..Len(told') : \A i \in 1..Len(told'[k]) : told'[k][i].id <= k + MaxRecords
    <3> SUFFICES ASSUME NEW k \in 1..Len(told'), NEW i \in 1..Len(told'[k])
                 PROVE  told'[k][i].id <= k + MaxRecords
      OBVIOUS
    <3>1. /\ told'[k][i].id = i /\ told'[k] \in Seq(Sayings)
          /\ Len(told'[k]) <= Len(turns)
      BY <1>4
    <3>2. i \in Nat /\ i <= Len(told'[k]) /\ Len(told'[k]) \in Nat /\ k \in Nat
      BY <3>1
    <3> QED
      BY <1>1, <1>2, <3>1, <3>2
  <2>3. target \in {"pi", "mimo"} =>
          /\ \A i, j \in 1..Len(log') : log'[i].id = log'[j].id => i = j
          /\ \A i \in 1..Len(log') : log'[i].id # 0
    <3> SUFFICES ASSUME target \in {"pi", "mimo"}
                 PROVE  /\ \A i, j \in 1..Len(log') : log'[i].id = log'[j].id => i = j
                        /\ \A i \in 1..Len(log') : log'[i].id # 0
      OBVIOUS
    <3>1. Len(log') = Len(turns) /\ \A i \in 1..Len(turns) : log'[i].id = i
      <4>1. log' = Chained(turns)
        BY <1>3
      <4>2. /\ Len(Chained(turns)) = Len(turns)
            /\ \A i \in 1..Len(turns) : Chained(turns)[i].id = i
        BY <1>1, ChainedType
      <4> QED
        BY <4>1, <4>2
    <3>2. \A i, j \in 1..Len(log') : log'[i].id = log'[j].id => i = j
      BY <3>1
    <3>3. \A i \in 1..Len(log') : log'[i].id # 0
      BY <1>2, <3>1
    <3> QED
      BY <3>2, <3>3
  <2> QED
    BY <1>1, <2>1, <2>2, <2>3 DEF IdInv
<1>8. SizeInv'
  <2> SUFFICES ASSUME NEW k \in 1..Len(told')
               PROVE  Len(told'[k]) + left' <= MaxRecords
    BY DEF SizeInv
  <2>1. Len(told'[k]) <= Len(turns) /\ told'[k] \in Seq(Sayings)
    BY <1>4
  <2>2. Len(told'[k]) \in Nat
    BY <2>1
  <2> QED
    BY <1>1, <1>2, <2>1, <2>2
<1>9. PartsInv'
  <2> SUFFICES ASSUME target \in {"opencode", "mimo"}, NEW i \in 1..Len(turns)
               PROVE  PartsFine(Chained(turns)[i])
    <3>1. Len(Chained(turns)) = Len(turns)
      BY <1>1, ChainedType
    <3> QED
      BY <1>1, <1>3, <3>1 DEF PartsInv
  <2>1. PICK r : r = Chained(turns)[i]
    OBVIOUS
  <2>2. PICK p : p = Part(turns[i].text, TRUE)
    OBVIOUS
  <2>3. r.parts = <<p>> /\ TextFromContent(r.parts) = turns[i].text
    BY <1>1, <2>1, <2>2, ChainedType
  <2>4. p.text = turns[i].text
    BY <2>2 DEF Part
  <2>5. \A j \in 1..Len(r.parts) : r.parts[j].text = turns[i].text
    BY <2>3, <2>4
  <2>6. PartsFine(r)
    BY <2>3, <2>5 DEF PartsFine
  <2> QED
    BY <2>1, <2>6
<1>10. LinearInv'
  <2> SUFFICES ASSUME target # "gemini"
               PROVE  TurnsOf(log') = Heard(target, Retold(turns))
    BY <1>1, <1>5 DEF LinearInv
  <2> QED
    BY <1>1, <1>3, RetoldIsHeard
<1>11. AntigravityInv'
  BY <1>1 DEF AntigravityInv, Targets
<1>12. GeminiInv'
  <2> SUFFICES ASSUME target = "gemini"
               PROVE  Mirrors(LoadGeminiConversation(log'), Retold(turns))
    BY <1>1, <1>5 DEF GeminiInv
  <2>1. Mirrors(LoadGeminiConversation(WriteConverted("gemini", turns)), Retold(turns))
    BY <1>1, SnapshotIs
  <2> QED
    BY <1>1, <2>1
<1>13. PiInv'
  <2> SUFFICES ASSUME target = "pi"
               PROVE  LinesFit(log', told')
    BY <1>1 DEF PiInv
  <2>1. log' = Chained(turns) /\ Len(log') = Len(turns)
    BY <1>3
  <2>2. told' = [k \in 1..Len(turns) |-> SubSeq(Retold(turns), 1, k)]
    <3>1. told' = ToldOf("pi", turns, Len(turns))
      BY <1>1, <2>1
    <3>2. ToldOf("pi", turns, Len(turns))
            = [k \in 1..Len(turns) |-> SubSeq(Retold(turns), 1, k)]
      BY <1>2 DEF ToldOf
    <3> QED
      BY <3>1, <3>2
  <2> QED
    BY <1>1, <2>1, <2>2, PiWritten
<1>14. HandedRowIsFound'
  <2>1. \/ RowOf(target, "own", WriteConverted(target, turns)) = UserPreview(turns)
        \/ target = "jcode" /\ UserPreview(turns).first = <<>>
        \/ target = "mimo" /\ (\/ TooLarge(UserPreview(turns).first)
                               \/ TooLarge(UserPreview(turns).last))
        \/ target = "gemini" /\ \E i \in 1..Len(Retold(turns)) :
              Retold(turns)[i].role = "user" /\ Retold(turns)[i].text[1] = "slash"
    BY <1>1, RowOfWritten
  <2> QED
    BY <1>1, <1>5, <2>1 DEF HandedRowIsFound
<1> QED
  BY <1>6, <1>7, <1>8, <1>9, <1>10, <1>11, <1>12, <1>13, <1>14 DEF IInv

-----------------------------------------------------------------------------
(* Every step keeps the invariant. *)
LEMMA NextKeeps ==
  ASSUME IInv, [Next]_vars
  PROVE  IInv'
<1>1. CASE \E role \in {"user", "assistant"} : Say(role)
  BY <1>1, SayKeeps DEF Speakers
<1>2. CASE \E role \in {"user", "assistant"} : PiBranch(role)
  BY <1>2, PiBranchKeeps DEF Speakers
<1>3. CASE GeminiEdit
  BY <1>3, GeminiEditKeeps
<1>4. CASE GeminiGoBack
  BY <1>4, GeminiGoBackKeeps
<1>5. CASE GeminiCompress
  BY <1>5, GeminiCompressKeeps
<1>6. CASE Aside
  BY <1>6, AsideKeeps
<1>7. CASE Convert
  BY <1>7, ConvertConverts, ConvertingKeeps
<1>8. CASE Archive \/ OriginalGone
  <2>1. /\ format' = format /\ standing' \in Standings(format)
        /\ log' = log /\ told' = told /\ handed' = NoRow /\ left' = left
    BY <1>8 DEF Archive, OriginalGone, Standings, IInv, TypeOK
  <2>2. Said' = Said
    BY <2>1 DEF Said
  <2>3. TypeOK' /\ IdInv' /\ SizeInv' /\ PartsInv'
    <3>1. NoRow \in [listed : BOOLEAN, first : Texts, last : Texts]
      BY DEF NoRow, Texts
    <3> QED
      BY <2>1, <3>1 DEF IInv, TypeOK, IdInv, SizeInv, PartsInv
  <2>4. LinearInv' /\ AntigravityInv' /\ GeminiInv' /\ PiInv'
    BY <2>1, <2>2 DEF IInv, LinearInv, AntigravityInv, GeminiInv, PiInv
  <2>5. HandedRowIsFound'
    BY <2>1 DEF HandedRowIsFound
  <2> QED
    BY <2>3, <2>4, <2>5 DEF IInv
<1>9. CASE UNCHANGED vars
  <2>1. /\ format' = format /\ standing' = standing /\ log' = log
        /\ told' = told /\ handed' = handed /\ left' = left
    BY <1>9 DEF vars
  <2>2. Said' = Said
    BY <2>1 DEF Said
  <2>3. TypeOK' /\ IdInv' /\ SizeInv' /\ PartsInv'
    BY <2>1 DEF IInv, TypeOK, IdInv, SizeInv, PartsInv
  <2>4. LinearInv' /\ AntigravityInv' /\ GeminiInv' /\ PiInv'
    BY <2>1, <2>2 DEF IInv, LinearInv, AntigravityInv, GeminiInv, PiInv
  <2>5. HandedRowIsFound'
    BY <2>1, <2>2 DEF IInv, HandedRowIsFound
  <2> QED
    BY <2>3, <2>4, <2>5 DEF IInv
<1> QED
  BY <1>1, <1>2, <1>3, <1>4, <1>5, <1>6, <1>7, <1>8, <1>9 DEF Next

(* The inductive invariant holds for every number of records, all lengths of *)
(* messages, every page size and every cut-off of the mimo CLI.             *)
THEOREM Invariance == Spec => []IInv
<1>1. Init => IInv
  BY InitInv
<1>2. IInv /\ [Next]_vars => IInv'
  BY NextKeeps
<1> QED
  BY <1>1, <1>2, PTL DEF Spec

(* Records, conversations and rows are what the readers take them for. *)
THEOREM TypeCorrect == Spec => []TypeOK
<1>1. IInv => TypeOK
  BY DEF IInv
<1> QED
  BY <1>1, Invariance, PTL

(* Whatever an agent appended, edited, rewound, compressed or branched, and  *)
(* however often the session was handed over, Transcript gives the          *)
(* conversation as it stands; of a Pi session with an oversized record the  *)
(* end of it, and of a MiMo session with a part that its CLI cuts off       *)
(* nothing.                                                                 *)
THEOREM TranscriptIsConversationHolds == Spec => []TranscriptIsConversation
<1>1. IInv => TranscriptIsConversation
  BY TranscriptFits
<1> QED
  BY <1>1, Invariance, PTL

(* The row of the list shows the first and the last prompt of the            *)
(* transcript, and no session with turns is left out but for the reasons    *)
(* the code has: a tool call's session, an archived one, MiMo's copy of a   *)
(* Claude session that is still there, a jcode session without a prompt,    *)
(* and an oversized record before the head scan has what it waits for.      *)
THEOREM RowShowsTranscriptHolds == Spec => []RowShowsTranscript
<1>1. IInv => RowShowsTranscript
  BY RowShows
<1> QED
  BY <1>1, Invariance, PTL

(* The row that Convert returns for the new session is the one a rescan      *)
(* makes from its file, but for jcode without a prompt, a prompt that       *)
(* Gemini takes for a command, and one that the mimo CLI cuts off.          *)
THEOREM HandedRowIsFoundHolds == Spec => []HandedRowIsFound
<1>1. IInv => HandedRowIsFound
  BY DEF IInv
<1> QED
  BY <1>1, Invariance, PTL
=============================================================================
