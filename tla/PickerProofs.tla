---------------------------- MODULE PickerProofs ----------------------------
(***************************************************************************)
(* Safety of the picker for every list, search, provider and scope, and any *)
(* activity of other programs.  First what the lists of the model contain   *)
(* (FlattenSeq by induction, in Flattened), then one lemma for each part of *)
(* IInv.  GhostInv and PreviewInv need CommandInv, because a message is only*)
(* up to date when no other command ran beside its own; NewSessionSelected  *)
(* and DeleteKeepsPlace are read off the items that GroupedElements gives.  *)
(***************************************************************************)
EXTENDS Picker, FiniteSetTheorems, SequenceTheorems, TLAPS

-----------------------------------------------------------------------------
(* Every set of numbers has a least one. *)
LEMMA LeastExists ==
  ASSUME NEW S \in SUBSET Nat, S # {}
  PROVE  \E n \in S : \A m \in S : n <= m
<1> DEFINE R == StrictSubsetOrdering(Nat)
           T == {1..n : n \in S}
<1>1. IsWellFoundedOn(R, FiniteSubsetsOf(Nat))
  BY FS_StrictSubsetOrderingWellFounded
<1>2. T \subseteq FiniteSubsetsOf(Nat) /\ T # {}
  <2>1. ASSUME NEW n \in S PROVE 1..n \in FiniteSubsetsOf(Nat)
    BY FS_Interval DEF FiniteSubsetsOf
  <2> QED
    BY <2>1
<1>3. PICK x \in T : \A y \in T : <<y, x>> \notin R
  <2> HIDE DEF R, T
  <2> QED
    BY <1>1, <1>2, WFMin
<1>4. PICK n \in S : x = 1..n
  OBVIOUS
<1>5. ASSUME NEW m \in S, m < n
      PROVE  FALSE
  <2>1. 1..m \subseteq 1..n /\ 1..m # 1..n
    <3>1. n \in 1..n /\ n \notin 1..m
      BY <1>5
    <3> QED
      BY <1>5, <3>1
  <2>2. <<1..m, 1..n>> \in R
    BY <2>1 DEF StrictSubsetOrdering
  <2> QED
    BY <1>3, <1>4, <2>2
<1> QED
  BY <1>5

(* Induction along a sequence: what holds of 1, and of each number after    *)
(* one of which it holds, holds up to n.                                    *)
LEMMA UpTo ==
  ASSUME NEW n \in Nat, NEW S, 1 \in S,
         \A i \in 1..n - 1 : i \in S => i + 1 \in S
  PROVE  1..n \subseteq S
<1> DEFINE T == (1..n) \ S
<1> SUFFICES ASSUME T # {} PROVE FALSE
  OBVIOUS
<1>1. PICK i \in T : \A j \in T : i <= j
  <2>1. T \in SUBSET Nat
    OBVIOUS
  <2> HIDE DEF T
  <2> QED
    BY <2>1, LeastExists
<1>2. i \in 2..n
  BY <1>1
<1>3. i - 1 \in 1..n - 1 /\ i - 1 \notin T
  BY <1>1, <1>2
<1> QED
  BY <1>1, <1>2, <1>3

(* A concatenation has the elements of both. *)
LEMMA Concatenated ==
  ASSUME NEW A, NEW s \in Seq(A), NEW t \in Seq(A)
  PROVE  s \o t \in Seq(A) /\ Range(s \o t) = Range(s) \cup Range(t)
  BY RangeConcatenation, ConcatProperties

(* FlattenSeq of sequences over A is one, with the elements of all of them. *)
LEMMA Flattened ==
  ASSUME NEW A, NEW seqs \in Seq(Seq(A))
  PROVE  /\ FlattenSeq(seqs) \in Seq(A)
         /\ Range(FlattenSeq(seqs)) = UNION {Range(seqs[i]) : i \in DOMAIN seqs}
<1> DEFINE n == Len(seqs)
<1>0. n \in Nat /\ DOMAIN seqs = 1..n /\ \A i \in 1..n : seqs[i] \in Seq(A)
  OBVIOUS
<1>1. CASE n = 0
  <2>1. seqs = <<>>
    BY <1>1, EmptySeq
  <2>2. FlattenSeq(seqs) = <<>>
    BY <2>1, <1>1 DEF FlattenSeq
  <2> QED
    <3>1. DOMAIN seqs = {} /\ FlattenSeq(seqs) \in Seq(A)
      BY <1>0, <1>1, <2>2, EmptySeq
    <3>2. Range(FlattenSeq(seqs)) = {}
      BY <2>2 DEF Range
    <3> QED
      BY <3>1, <3>2
<1>2. CASE n # 0
  <2> DEFINE Body(g, i) == IF i = 1 THEN seqs[i] ELSE g[i - 1] \o seqs[i]
             Is(g, m) == g = [i \in 1..m |-> Body(g, i)]
             flatten == CHOOSE g : Is(g, n)
             S == {m \in 1..n : \E g : Is(g, m)}
             All(m) == UNION {Range(seqs[i]) : i \in 1..m}
             T == {m \in 1..n : /\ flatten[m] \in Seq(A)
                                /\ Range(flatten[m]) = All(m)}
  <2>1. FlattenSeq(seqs) = flatten[n]
    BY <1>2 DEF FlattenSeq
  <2>2. n \in S
    <3>1. 1 \in S
      <4>1. Is([i \in 1..1 |-> seqs[i]], 1)
        OBVIOUS
      <4> HIDE DEF Is
      <4> QED
        BY <1>2, <1>0, <4>1
    <3>2. ASSUME NEW m \in 1..n - 1, m \in S
          PROVE  m + 1 \in S
      <4>1. PICK g : Is(g, m)
        BY <3>2
      <4> DEFINE h == [i \in 1..m + 1 |-> Body(g, i)]
      <4>2. Is(h, m + 1)
        <5>1. \A i \in 1..m : g[i] = Body(g, i)
          <6> HIDE DEF Body
          <6> QED
            BY <4>1
        <5>2. \A i \in 1..m : h[i] = g[i]
          <6> HIDE DEF Body
          <6> QED
            BY <5>1, <1>0
        <5>3. \A i \in 1..m + 1 : Body(g, i) = Body(h, i)
          <6> SUFFICES ASSUME NEW i \in 1..m+1, i # 1
                       PROVE g[i-1] = h[i-1]
            OBVIOUS
          <6>1. i - 1 \in 1..m 
            BY <1>0
          <6> HIDE DEF h
          <6> QED
            BY <5>2, <6>1
        <5> HIDE DEF Body
        <5> QED
          BY <5>3
      <4> HIDE DEF Is, h
      <4> QED
        BY <4>2, <1>0
    <3>3. \A m \in 1..n - 1 : m \in S => m + 1 \in S
      BY <3>2
    <3> HIDE DEF S, n
    <3>4. 1..n \subseteq S
      BY <1>0, <3>1, <3>3, UpTo
    <3> QED
      BY <1>0, <1>2, <3>4
  <2>3. Is(flatten, n)
    <3>1. \E g : Is(g, n)
      BY <2>2
    <3> HIDE DEF Is
    <3> QED
      BY <3>1
  <2>4. \A m \in 1..n : flatten[m] = Body(flatten, m)
    <3> HIDE DEF Body, flatten
    <3> QED
      BY <2>3
  <2>5. n \in T
    <3> HIDE DEF flatten
    <3>1. 1 \in T
      <4>1. flatten[1] = seqs[1]
        BY <1>2, <1>0, <2>4
      <4>2. All(1) = Range(seqs[1])
        <5> HIDE DEF Is
        <5> QED
          OBVIOUS
      <4> HIDE DEF All
      <4> QED
        BY <1>2, <1>0, <4>1, <4>2
    <3>2. ASSUME NEW m \in 1..n - 1, m \in T
          PROVE  m + 1 \in T
      <4>1. flatten[m + 1] = flatten[m] \o seqs[m + 1]
        <5>1. m + 1 \in 1..n /\ m + 1 # 1 /\ (m + 1) - 1 = m
          BY <1>0
        <5>2. flatten[m + 1] = Body(flatten, m + 1)
          BY <2>4, <5>1
        <5> QED
          BY <5>1, <5>2
      <4>2. All(m + 1) = All(m) \cup Range(seqs[m + 1])
        <5>1. 1..m+1 = (1..m) \cup {m+1}
          BY <1>0
        <5> HIDE DEF n
        <5> QED
          BY <5>1
      <4>3. m + 1 \in 1..n /\ seqs[m + 1] \in Seq(A)
        BY <1>0
      <4>4. flatten[m] \in Seq(A) /\ Range(flatten[m]) = All(m)
        BY <3>2
      <4> HIDE DEF All, n
      <4>5. ASSUME NEW s \in Seq(A), NEW t \in Seq(A)
            PROVE  /\ s \o t \in Seq(A)
                   /\ Range(s \o t) = Range(s) \cup Range(t)
        BY Concatenated
      <4>6. /\ flatten[m + 1] \in Seq(A)
            /\ Range(flatten[m + 1]) = All(m + 1)
        BY <4>1, <4>2, <4>3, <4>4, <4>5
      <4> QED
        BY <4>3, <4>6
    <3>3. \A m \in 1..n - 1 : m \in T => m + 1 \in T
      BY <3>2
    <3> HIDE DEF T, n
    <3>4. 1..n \subseteq T
      BY <1>0, <3>1, <3>3, UpTo
    <3> QED
      BY <1>0, <1>2, <3>4
  <2> QED
    BY <2>1, <2>5, <1>0
<1> QED
  BY <1>0, <1>1, <1>2
-----------------------------------------------------------------------------
(* What is kept of a sequence: its elements in S. *)
LEMMA OnlyElements ==
  ASSUME NEW A, NEW seq \in Seq(A), NEW S
  PROVE  /\ Only(seq, S) \in Seq(A \cap S)
         /\ Range(Only(seq, S)) = Range(seq) \cap S
<1> DEFINE seqs == [i \in DOMAIN seq |->
                      IF seq[i] \in S THEN <<seq[i]>> ELSE <<>>]
<1>1. \A i \in DOMAIN seq : /\ seqs[i] \in Seq(A \cap S)
                            /\ Range(seqs[i]) = {seq[i]} \cap S
  <2> SUFFICES ASSUME NEW i \in DOMAIN seq
               PROVE  /\ seqs[i] \in Seq(A \cap S)
                      /\ Range(seqs[i]) = {seq[i]} \cap S
    OBVIOUS
  <2>1. CASE seq[i] \in S
    BY <2>1 DEF Range
  <2>2. CASE seq[i] \notin S
    BY <2>2 DEF Range
  <2> QED
    BY <2>1, <2>2
<1>2. DOMAIN seqs = DOMAIN seq /\ seqs \in Seq(Seq(A \cap S))
  <2> DEFINE e(i) == IF seq[i] \in S THEN <<seq[i]>> ELSE <<>>
  <2>1. Len(seq) \in Nat /\ DOMAIN seq = 1..Len(seq)
    OBVIOUS
  <2>2. \A i \in DOMAIN seq : e(i) \in Seq(A \cap S)
    BY <1>1
  <2> HIDE DEF e
  <2>3. [i \in 1..Len(seq) |-> e(i)] \in Seq(Seq(A \cap S))
    BY <2>1, <2>2, IsASeq
  <2> QED
    BY <2>1, <2>3 DEF e
<1>3. Only(seq, S) = FlattenSeq(seqs)
  BY DEF Only
<1>4. UNION {Range(seqs[i]) : i \in DOMAIN seqs} = Range(seq) \cap S
  <2>1. UNION {Range(seqs[i]) : i \in DOMAIN seqs}
          = UNION {{seq[i]} \cap S : i \in DOMAIN seq}
    BY <1>1, <1>2
  <2> HIDE DEF seqs
  <2>2. \A x : x \in UNION {{seq[i]} \cap S : i \in DOMAIN seq}
                <=> x \in S /\ \E i \in DOMAIN seq : x = seq[i]
    OBVIOUS
  <2> QED
    BY <2>1, <2>2 DEF Range
<1> HIDE DEF seqs
<1> QED
  BY <1>2, <1>3, <1>4, Flattened

(* A set of sessions in order: those sessions. *)
LEMMA SortedElements ==
  ASSUME NEW S \in SUBSET Sessions
  PROVE  Sorted[S] \in Seq(S) /\ Range(Sorted[S]) = S
<1>1. Sorted[S] = Only(Order, S)
  BY DEF Sorted
<1>2. Sessions \cap S = S /\ Range(Order) = Sessions
  BY DEF Sessions
<1>3. Order \in Seq(Sessions)
  BY PickerAssumption
<1>4. /\ Only(Order, S) \in Seq(Sessions \cap S)
      /\ Range(Only(Order, S)) = Range(Order) \cap S
  BY <1>3, OnlyElements
<1> QED
  BY <1>1, <1>2, <1>4

(* A group: its header, and its sessions unless it is collapsed. *)
LEMMA GroupElements ==
  ASSUME NEW listed \in SUBSET Sessions, NEW closed, NEW f \in Folders
  PROVE  /\ Group(f, listed, closed) \in Seq(Sessions \cup Folders)
         /\ Range(Group(f, listed, closed))
              = {f} \cup {s \in listed : FolderOf[s] = f /\ f \notin closed}
<1> DEFINE below == IF f \in closed THEN <<>>
                    ELSE Sorted[{s \in listed : FolderOf[s] = f}]
<1>1. /\ below \in Seq(Sessions \cup Folders)
      /\ Range(below) = {s \in listed : FolderOf[s] = f /\ f \notin closed}
  <2>1. CASE f \in closed
    BY <2>1 DEF Range
  <2>2. CASE f \notin closed
    <3> DEFINE S == {s \in listed : FolderOf[s] = f}
    <3>1. S \in SUBSET Sessions
      OBVIOUS
    <3> HIDE DEF S
    <3>2. Sorted[S] \in Seq(S) /\ Range(Sorted[S]) = S
      BY <3>1, SortedElements
    <3>3. Sorted[S] \in Seq(Sessions \cup Folders)
      BY <3>1, <3>2
    <3> QED
      BY <2>2, <3>2, <3>3 DEF S
  <2> QED
    BY <2>1, <2>2
<1>2. /\ <<f>> \in Seq(Sessions \cup Folders)
      /\ Range(<<f>>) = {f}
  BY DEF Range
<1>3. Group(f, listed, closed) = <<f>> \o below
  BY DEF Group
<1> DEFINE lines == Sessions \cup Folders
           row == <<f>>
<1>4. row \in Seq(lines) /\ below \in Seq(lines)
  BY <1>1, <1>2
<1>5. Range(row) = {f} /\ Group(f, listed, closed) = row \o below
  BY <1>2, <1>3
<1> HIDE DEF below, row, lines
<1>6. row \o below \in Seq(lines) /\ Range(row \o below) = Range(row) \cup Range(below)
  BY <1>4, Concatenated
<1> QED
  BY <1>1, <1>5, <1>6 DEF lines

(* Every workspace with a listed session has a newest one. *)
LEMMA NewestExists ==
  ASSUME NEW listed \in SUBSET Sessions, NEW s \in listed
  PROVE  \E t \in Newest(listed) : FolderOf[t] = FolderOf[s]
<1> DEFINE same == {t \in listed : FolderOf[t] = FolderOf[s]}
           ranks == {Rank(t) : t \in same}
<1>1. \A t \in Sessions : Rank(t) \in DOMAIN Order
  BY DEF Sessions, Rank, Range
<1>2. ranks \in SUBSET Nat /\ ranks # {}
  <2>1. Order \in Seq(Sessions)
    BY PickerAssumption
  <2>2. DOMAIN Order \subseteq Nat
    BY <2>1
  <2> QED
    BY <1>1, <2>2
<1>3. PICK r \in ranks : \A q \in ranks : r <= q
  <2> HIDE DEF ranks
  <2> QED
    BY <1>2, LeastExists
<1>4. PICK t \in same : r = Rank(t)
  OBVIOUS
<1>5. \A u \in listed : FolderOf[u] = FolderOf[t] => Rank(t) <= Rank(u)
  BY <1>3, <1>4
<1> QED
  BY <1>4, <1>5 DEF Newest

(* The grouped list shows the workspace of every listed session, and every  *)
(* listed session that is not in a collapsed one: nothing is lost and       *)
(* nothing else is shown (groupedItems).                                    *)
LEMMA GroupedElements ==
  ASSUME NEW listed \in SUBSET Sessions, NEW closed
  PROVE  /\ GroupedItems(listed, closed) \in Seq(Sessions \cup Folders)
         /\ Range(GroupedItems(listed, closed))
              = {FolderOf[s] : s \in listed}
                  \cup {s \in listed : FolderOf[s] \notin closed}
<1> DEFINE newest == Sorted[Newest(listed)]
           G(f) == Group(f, listed, closed)
           seqs == [i \in DOMAIN newest |-> G(FolderOf[newest[i]])]
           All == Sessions \cup Folders
           Shows == {FolderOf[s] : s \in listed}
                      \cup {s \in listed : FolderOf[s] \notin closed}
<1>1. Newest(listed) \subseteq listed
  BY DEF Newest
<1>2. newest \in Seq(Newest(listed)) /\ Range(newest) = Newest(listed)
  BY <1>1, SortedElements
<1>3. \A s \in listed : FolderOf[s] \in Folders
  BY PickerAssumption
<1>4. \A i \in DOMAIN newest : newest[i] \in listed
  BY <1>1, <1>2
<1>5. \A f \in Folders :
        /\ G(f) \in Seq(All)
        /\ Range(G(f))
             = {f} \cup {s \in listed : FolderOf[s] = f /\ f \notin closed}
  BY GroupElements
<1>6. DOMAIN seqs = DOMAIN newest /\ seqs \in Seq(Seq(All))
  <2> HIDE DEF G, newest
  <2>1. \A i \in DOMAIN newest : G(FolderOf[newest[i]]) \in Seq(All)
    BY <1>3, <1>4, <1>5
  <2> QED
    BY <1>2, <2>1
<1>7. UNION {Range(seqs[i]) : i \in DOMAIN seqs} = Shows
  <2> HIDE DEF G, newest
  <2>1. ASSUME NEW i \in DOMAIN newest
        PROVE  Range(seqs[i]) \subseteq Shows
    BY <1>3, <1>4, <1>5
  <2>2. ASSUME NEW s \in listed
        PROVE  \E i \in DOMAIN newest :
                  /\ FolderOf[s] \in Range(seqs[i])
                  /\ FolderOf[s] \notin closed => s \in Range(seqs[i])
    <3>1. PICK t \in Newest(listed) : FolderOf[t] = FolderOf[s]
      BY NewestExists
    <3>2. PICK i \in DOMAIN newest : newest[i] = t
      BY <1>2, <3>1 DEF Range
    <3>3. seqs[i] = G(FolderOf[s])
      BY <3>1, <3>2
    <3> QED
      BY <1>3, <1>5, <3>3
  <2> HIDE DEF seqs
  <2> QED
    BY <1>6, <2>1, <2>2
<1>8. GroupedItems(listed, closed) = FlattenSeq(seqs)
  BY DEF GroupedItems
<1> HIDE DEF seqs, G, newest, All, Shows
<1>9. /\ FlattenSeq(seqs) \in Seq(All)
      /\ Range(FlattenSeq(seqs)) = Shows
  BY <1>6, <1>7, Flattened
<1> QED
  BY <1>8, <1>9 DEF All, Shows

(* The flat list shows the listed sessions. *)
LEMMA FlatElements ==
  ASSUME NEW listed \in SUBSET Sessions
  PROVE  FlatItems(listed) \in Seq(Sessions)
<1>1. FlatItems(listed) \in Seq(listed)
  BY SortedElements DEF FlatItems
<1> QED
  BY <1>1

(* Nothing is listed, nothing is shown. *)
LEMMA NothingGrouped == GroupedItems({}, {}) = <<>>
<1>1. /\ GroupedItems({}, {}) \in Seq(Sessions \cup Folders)
      /\ Range(GroupedItems({}, {})) = {}
  <2> DEFINE none == {}
  <2>1. none \in SUBSET Sessions
    OBVIOUS
  <2>2. {FolderOf[s] : s \in none}
          \cup {s \in none : FolderOf[s] \notin none} = {}
    OBVIOUS
  <2> HIDE DEF none
  <2>3. /\ GroupedItems(none, none) \in Seq(Sessions \cup Folders)
        /\ Range(GroupedItems(none, none)) = {}
    BY <2>1, <2>2, GroupedElements
  <2> QED
    BY <2>3 DEF none
<1>2. Len(GroupedItems({}, {})) = 0
  <2>1. ASSUME NEW s \in Seq(Sessions \cup Folders), Len(s) # 0
        PROVE  Range(s) # {}
    <3>1. 1 \in DOMAIN s
      BY <2>1
    <3> QED
      BY <3>1 DEF Range
  <2> QED
    BY <1>1, <2>1
<1> QED
  BY <1>1, <1>2, EmptySeq

-----------------------------------------------------------------------------
(* What keys, searches and the wizard do to the commands: nothing. *)
QuietStep ==
    \/ Browse \/ ToggleGroup \/ \E p \in Providers : ToggleProvider(p)
    \/ OpenSearch \/ TypeSearch \/ AcceptSearch \/ CancelSearch \/ ClearSearch
    \/ Esc \/ Resume \/ Compound \/ StartCompound \/ CancelCompound
    \/ CycleTarget \/ CycleScope
    \/ OpenImport \/ CloseImport \/ \E s \in Sessions : Imported(s)
    \/ SearchDone \/ StatusTimeout \/ Outside

(* A quiet step keeps the commands, and does not end the loading. *)
LEMMA Quiet ==
  ASSUME QuietStep
  PROVE  /\ UNCHANGED commandVars
         /\ mode = "loading" => mode' = "loading"
<1>1. ASSUME Browse \/ ToggleGroup \/ \E p \in Providers : ToggleProvider(p)
      PROVE  UNCHANGED commandVars /\ (mode = "loading" => mode' = "loading")
  BY <1>1 DEF Browse, ToggleGroup, ToggleProvider, Idle, Browsing
<1>2. ASSUME \/ OpenSearch \/ TypeSearch \/ AcceptSearch \/ CancelSearch
             \/ ClearSearch \/ Esc \/ SearchDone \/ StatusTimeout
      PROVE  UNCHANGED commandVars /\ (mode = "loading" => mode' = "loading")
  BY <1>2 DEF OpenSearch, TypeSearch, AcceptSearch, CancelSearch, ClearSearch,
              Esc, SearchDone, StatusTimeout
<1>3. ASSUME \/ Resume \/ Compound \/ StartCompound \/ CancelCompound
             \/ CycleTarget \/ CycleScope
      PROVE  UNCHANGED commandVars /\ (mode = "loading" => mode' = "loading")
  BY <1>3 DEF Resume, Compound, StartCompound, CancelCompound, CycleTarget,
              CycleScope, Idle, Browsing
<1>4. ASSUME \/ OpenImport \/ CloseImport \/ \E s \in Sessions : Imported(s)
             \/ Outside
      PROVE  UNCHANGED commandVars /\ (mode = "loading" => mode' = "loading")
  BY <1>4 DEF OpenImport, CloseImport, Imported, Outside, Idle, Browsing
<1> QED
  BY <1>1, <1>2, <1>3, <1>4 DEF QuietStep

(* The other steps start, run or end a command. *)
LoudStep ==
    \/ Convert \/ Branch \/ Delete \/ Rescan \/ Quit
    \/ RunDiscover \/ RunDelete \/ RunPreview \/ RunMutation \/ MutationFails
    \/ Loaded \/ Mutated \/ Deleted \/ Previewed

(* Every step is one or the other. *)
LEMMA Steps == Next => QuietStep \/ LoudStep
  BY DEF Next, Step, KeyStep, RunStep, MessageStep, ImportStep, QuietStep,
         LoudStep

-----------------------------------------------------------------------------
(* A command is started when there is none, and then there is one. *)
LEMMA StartsOne ==
  ASSUME CommandInv, Idle, NEW command, Start(command), command.kind # ""
  PROVE  CommandInv'
  BY DEF CommandInv, Idle, Browsing, Start

(* A command that ends leaves its message and nothing else. *)
LEMMA FinishesOne ==
  ASSUME CommandInv, NEW command, NEW message, Finish(command, message)
  PROVE  CommandInv'
  BY DEF CommandInv, Finish

(* A message that is handled leaves nothing. *)
LEMMA HandlesOne ==
  ASSUME CommandInv, NEW message, Handle(message)
  PROVE  CommandInv'
  BY DEF CommandInv, Handle

(* No step breaks the exclusion of commands. *)
LEMMA CommandStep ==
  ASSUME CommandInv, [Next]_vars
  PROVE  CommandInv'
<1>1. CASE UNCHANGED vars
  BY <1>1 DEF CommandInv, vars, commandVars
<1>2. CASE QuietStep
  BY <1>2, Quiet DEF CommandInv, commandVars
<1>3. CASE Convert
  <2>1. PICK plan : Start([kind |-> IF pending = plan THEN "conversion"
                                    ELSE "preview", plan |-> plan])
    BY <1>3 DEF Convert
  <2> QED
    BY <1>3, <2>1, StartsOne DEF Convert
<1>4. CASE Branch
  <2>1. CASE Start([kind |-> "branch", row |-> Selected])
    BY <1>4, <2>1, StartsOne DEF Branch
  <2>2. CASE UNCHANGED commandVars
    BY <1>4, <2>2 DEF Branch, CommandInv, commandVars
  <2> QED
    BY <1>4, <2>1, <2>2 DEF Branch
<1>5. CASE Delete
  <2>1. CASE Start([kind |-> "delete", row |-> Selected])
    BY <1>5, <2>1, StartsOne DEF Delete
  <2>2. CASE UNCHANGED commandVars
    BY <1>5, <2>2 DEF Delete, CommandInv, commandVars
  <2> QED
    BY <1>5, <2>1, <2>2 DEF Delete
<1>6. CASE Rescan
  BY <1>6, StartsOne DEF Rescan
<1>7. CASE Quit
  BY <1>7 DEF Quit, CommandInv
<1>8. CASE \/ RunDiscover \/ RunDelete \/ RunPreview \/ RunMutation
           \/ MutationFails
  BY <1>8, FinishesOne
  DEF RunDiscover, RunDelete, RunPreview, RunMutation, MutationFails
<1>9. CASE Loaded \/ Mutated \/ Deleted \/ Previewed
  BY <1>9, HandlesOne DEF Loaded, Mutated, Deleted, Previewed
<1> QED
  BY <1>1, <1>2, <1>3, <1>4, <1>5, <1>6, <1>7, <1>8, <1>9, Steps DEF LoudStep

-----------------------------------------------------------------------------
(* Which steps touch the stores and the list of sessions. *)
LEMMA QuietStores ==
  ASSUME QuietStep
  PROVE  \/ UNCHANGED <<disk, past, rows, gone, inbox>>
         \/ Outside
         \/ \E s \in Sessions : Imported(s)
<1>1. ASSUME \/ Browse \/ ToggleGroup \/ \E p \in Providers : ToggleProvider(p)
             \/ CancelSearch \/ ClearSearch
      PROVE  UNCHANGED <<disk, past, rows, gone, inbox>>
  BY <1>1 DEF Browse, ToggleGroup, ToggleProvider, CancelSearch, ClearSearch,
              LeaveSearch, storeVars, commandVars
<1>2. ASSUME \/ OpenSearch \/ TypeSearch \/ AcceptSearch
             \/ Esc \/ SearchDone \/ StatusTimeout
      PROVE  UNCHANGED <<disk, past, rows, gone, inbox>>
  BY <1>2 DEF OpenSearch, TypeSearch, AcceptSearch,
              Esc, SearchDone, StatusTimeout, storeVars, commandVars
<1>3. ASSUME \/ Resume \/ Compound \/ StartCompound \/ CancelCompound
             \/ CycleTarget \/ CycleScope \/ OpenImport \/ CloseImport
      PROVE  UNCHANGED <<disk, past, rows, gone, inbox>>
  BY <1>3 DEF Resume, Compound, StartCompound, CancelCompound, CycleTarget,
              CycleScope, OpenImport, CloseImport, storeVars, commandVars
<1> QED
  BY <1>1, <1>2, <1>3 DEF QuietStep

(* No step brings back a deleted session. *)
LEMMA GhostStep ==
  ASSUME CommandInv, GhostInv, [Next]_vars
  PROVE  GhostInv'
<1>1. CASE UNCHANGED vars
  BY <1>1 DEF GhostInv, vars, storeVars, commandVars
<1>2. CASE UNCHANGED <<disk, past, rows, gone, inbox>>
  BY <1>2 DEF GhostInv
<1>3. CASE Outside
  BY <1>3 DEF GhostInv, Outside, commandVars
<1>4. CASE \E s \in Sessions : Imported(s)
  BY <1>4 DEF GhostInv, Imported, commandVars
<1>5. CASE Convert \/ Branch \/ Delete \/ Rescan
  <2>1. UNCHANGED <<disk, past, rows, gone, inbox>>
    BY <1>5 DEF Convert, Branch, Delete, Rescan, Start, storeVars, commandVars
  <2> QED
    BY <1>2, <2>1
<1>6. CASE Quit
  BY <1>6 DEF Quit, GhostInv, storeVars
<1>7. CASE RunDiscover
  BY <1>7 DEF RunDiscover, Finish, GhostInv, storeVars
<1>8. CASE RunDelete
  BY <1>8 DEF RunDelete, Finish, GhostInv
<1>9. CASE RunPreview
  BY <1>9 DEF RunPreview, Finish, GhostInv, storeVars
<1>10. CASE RunMutation
  BY <1>10 DEF RunMutation, Finish, GhostInv
<1>11. CASE MutationFails
  BY <1>11 DEF MutationFails, Finish, GhostInv, storeVars
<1>12. CASE Loaded
  BY <1>12 DEF Loaded, Handle, GhostInv, storeVars
<1>13. CASE Mutated
  BY <1>13 DEF Mutated, Handle, GhostInv, storeVars
<1>14. CASE Deleted
  <2>1. PICK message \in inbox :
          /\ message.kind = "delete" /\ Handle(message)
          /\ \/ /\ message.ok
                /\ rows' = rows \ {message.row}
                /\ gone' = gone \cup {message.row}
             \/ UNCHANGED <<rows, gone>>
    BY <1>14 DEF Deleted
  <2>2. inbox' = {} /\ UNCHANGED <<disk, past>>
    BY <2>1 DEF Handle, CommandInv, storeVars
  <2>3. gone' \subseteq past /\ rows' \cap gone' = {}
    BY <2>1 DEF GhostInv
  <2> QED
    BY <2>2, <2>3 DEF GhostInv
<1>15. CASE Previewed
  BY <1>15 DEF Previewed, Handle, GhostInv, storeVars
<1> QED
  BY <1>1, <1>2, <1>3, <1>4, <1>5, <1>6, <1>7, <1>8, <1>9, <1>10, <1>11,
     <1>12, <1>13, <1>14, <1>15, Steps, QuietStores DEF LoudStep

-----------------------------------------------------------------------------
(* Which steps touch the provider filter. *)
LEMMA QuietFilter ==
  ASSUME QuietStep
  PROVE  \/ UNCHANGED <<rows, enabled>>
         \/ \E p \in Providers : ToggleProvider(p)
         \/ \E s \in Sessions : Imported(s)
<1>1. ASSUME \/ Browse \/ ToggleGroup \/ CancelSearch \/ ClearSearch \/ Outside
      PROVE  UNCHANGED <<rows, enabled>>
  BY <1>1 DEF Browse, ToggleGroup, CancelSearch, ClearSearch, LeaveSearch,
              Outside
<1>2. ASSUME \/ OpenSearch \/ TypeSearch \/ AcceptSearch
             \/ Esc \/ SearchDone \/ StatusTimeout
      PROVE  UNCHANGED <<rows, enabled>>
  BY <1>2 DEF OpenSearch, TypeSearch, AcceptSearch,
              Esc, SearchDone, StatusTimeout
<1>3. ASSUME \/ Resume \/ Compound \/ StartCompound \/ CancelCompound
             \/ CycleTarget \/ CycleScope \/ OpenImport \/ CloseImport
      PROVE  UNCHANGED <<rows, enabled>>
  BY <1>3 DEF Resume, Compound, StartCompound, CancelCompound, CycleTarget,
              CycleScope, OpenImport, CloseImport
<1> QED
  BY <1>1, <1>2, <1>3 DEF QuietStep

(* No step leaves the provider filter empty. *)
LEMMA FilterStep ==
  ASSUME FilterInv, [Next]_vars
  PROVE  FilterInv'
<1>1. CASE UNCHANGED vars
  BY <1>1 DEF FilterInv, ProvidersOf, vars
<1>2. CASE UNCHANGED <<rows, enabled>>
  BY <1>2 DEF FilterInv, ProvidersOf
<1>3. ASSUME NEW p \in Providers, ToggleProvider(p)
      PROVE  FilterInv'
  <2>1. CASE enabled = {p}
    BY <1>2, <1>3, <2>1 DEF ToggleProvider
  <2>2. CASE enabled # {p}
    BY <1>3, <2>2 DEF ToggleProvider, FilterInv, ProvidersOf
  <2> QED
    BY <2>1, <2>2
<1>4. CASE \E s \in Sessions : Imported(s)
  BY <1>4 DEF FilterInv, ProvidersOf, Imported
<1>5. CASE \/ Convert \/ Branch \/ Delete \/ Rescan \/ Quit \/ RunDiscover
           \/ RunDelete \/ RunPreview \/ RunMutation \/ MutationFails
           \/ Previewed
  <2>1. UNCHANGED <<rows, enabled>>
    BY <1>5 DEF Convert, Branch, Delete, Rescan, Quit, RunDiscover, RunDelete,
                RunPreview, RunMutation, MutationFails, Previewed, Finish
  <2> QED
    BY <1>2, <2>1
<1>6. CASE Loaded
  <2>1. enabled' = MergedFilter(rows') \/ enabled' = ProvidersOf(rows')
    BY <1>6 DEF Loaded
  <2>2. \/ enabled' = ProvidersOf(rows')
        \/ enabled' \subseteq ProvidersOf(rows') /\ enabled' # {}
    BY <2>1 DEF MergedFilter
  <2> QED
    BY <2>2 DEF FilterInv, ProvidersOf
<1>7. CASE Mutated
  BY <1>7 DEF Mutated, FilterInv, ProvidersOf
<1>8. CASE Deleted
  <2>1. CASE UNCHANGED <<rows, enabled>>
    BY <1>2, <2>1
  <2>2. CASE enabled' = LET on == enabled \cap ProvidersOf(rows')
                        IN  IF on = {} THEN ProvidersOf(rows') ELSE on
    BY <2>2 DEF FilterInv, ProvidersOf
  <2> QED
    BY <1>8, <2>1, <2>2 DEF Deleted
<1> QED
  BY <1>1, <1>2, <1>3, <1>4, <1>5, <1>6, <1>7, <1>8, Steps, QuietFilter
  DEF LoudStep

-----------------------------------------------------------------------------
(* Whether a plan is current depends on nothing but the settings. *)
LEMMA StaysCurrent ==
  ASSUME NEW plan, Current(plan), UNCHANGED <<target, scope>>
  PROVE  Current(plan)'
<1>1. TargetFor(plan.row)' = TargetFor(plan.row)
  <2>1. Candidates(plan.row)' = Candidates(plan.row)
    OBVIOUS
  <2>2. Contains(Candidates(plan.row), target)'
          = Contains(Candidates(plan.row), target)
    BY <2>1 DEF Contains
  <2>3. Head(Candidates(plan.row))' = Head(Candidates(plan.row))
    BY <2>1
  <2> QED
    BY <2>2, <2>3 DEF TargetFor
<1> QED
  BY <1>1 DEF Current

(* A quiet step keeps the preview, drops it, or changes the settings. *)
LEMMA QuietPreview ==
  ASSUME QuietStep
  PROVE  \/ pending' \in {pending, None} /\ UNCHANGED <<target, scope>>
         \/ CycleTarget \/ CycleScope
<1>1. ASSUME \/ Browse \/ ToggleGroup \/ \E p \in Providers : ToggleProvider(p)
             \/ CancelSearch \/ ClearSearch \/ Outside
      PROVE  pending' \in {pending, None} /\ UNCHANGED <<target, scope>>
  BY <1>1 DEF Browse, ToggleGroup, ToggleProvider, CancelSearch, ClearSearch,
              Outside, Reconcile, ReconcilePending, handoffVars
<1>2. ASSUME \/ OpenSearch \/ TypeSearch \/ AcceptSearch
             \/ Esc \/ SearchDone \/ StatusTimeout
      PROVE  pending' \in {pending, None} /\ UNCHANGED <<target, scope>>
  BY <1>2 DEF OpenSearch, TypeSearch, AcceptSearch, Esc, SearchDone,
              StatusTimeout, Reconcile, ReconcilePending, handoffVars
<1>3. ASSUME \/ Resume \/ Compound \/ StartCompound \/ CancelCompound
             \/ OpenImport \/ CloseImport \/ \E s \in Sessions : Imported(s)
      PROVE  pending' \in {pending, None} /\ UNCHANGED <<target, scope>>
  BY <1>3 DEF Resume, Compound, StartCompound, CancelCompound, OpenImport,
              CloseImport, Imported, handoffVars
<1> QED
  BY <1>1, <1>2, <1>3 DEF QuietStep

(* No step leaves a preview of other settings. *)
LEMMA PreviewStep ==
  ASSUME CommandInv, PreviewInv, [Next]_vars
  PROVE  PreviewInv'
<1>1. CASE UNCHANGED vars
  BY <1>1, StaysCurrent DEF PreviewInv, vars, handoffVars, commandVars
<1>2. CASE /\ QuietStep
           /\ pending' \in {pending, None} /\ UNCHANGED <<target, scope>>
  BY <1>2, Quiet, StaysCurrent DEF PreviewInv, commandVars
<1>3. CASE CycleTarget \/ CycleScope
  BY <1>3 DEF CycleTarget, CycleScope, Idle, Browsing, CommandInv, PreviewInv,
              commandVars
<1>4. CASE Convert
  <2> DEFINE plan == [row |-> Selected, to |-> TargetFor(Selected),
                      scope |-> scope]
  <2>1. /\ Start([kind |-> IF pending = plan THEN "conversion" ELSE "preview",
                  plan |-> plan])
        /\ UNCHANGED handoffVars
    BY <1>4 DEF Convert
  <2>2. Current(plan)
    BY DEF Current
  <2> QED
    BY <2>1, <2>2, StaysCurrent DEF Start, PreviewInv, handoffVars
<1>5. CASE Branch \/ Delete \/ Rescan
  BY <1>5, StaysCurrent
  DEF Branch, Delete, Rescan, Start, PreviewInv, handoffVars, commandVars
<1>6. CASE Quit
  BY <1>6, StaysCurrent DEF Quit, PreviewInv, handoffVars
<1>7. CASE \/ RunDiscover \/ RunDelete \/ RunMutation \/ MutationFails
  BY <1>7, StaysCurrent
  DEF RunDiscover, RunDelete, RunMutation, MutationFails, Finish, PreviewInv,
      handoffVars
<1>8. CASE RunPreview
  BY <1>8, StaysCurrent DEF RunPreview, Finish, PreviewInv, handoffVars
<1>9. CASE Loaded \/ Mutated \/ Deleted
  BY <1>9, StaysCurrent
  DEF Loaded, Mutated, Deleted, Handle, PreviewInv, handoffVars
<1>10. CASE Previewed
  BY <1>10, StaysCurrent DEF Previewed, Handle, PreviewInv
<1> QED
  BY <1>1, <1>2, <1>3, <1>4, <1>5, <1>6, <1>7, <1>8, <1>9, <1>10, Steps,
     QuietPreview DEF LoudStep

-----------------------------------------------------------------------------
(* The list: what is listed is a set of sessions, and what is shown of it   *)
(* consists of sessions and workspaces.                                     *)
LEMMA ShownElements ==
  ASSUME FilterType, ListType, ListIsCurrent
  PROVE  /\ Listed \in SUBSET Sessions
         /\ Shown \in Seq(Sessions \cup Folders)
         /\ search # "off" => items \in Seq(Sessions)
<1>1. Listed \in SUBSET Sessions
  BY DEF Listed, FilterType
<1>2. search # "off" => items \in Seq(Sessions)
  BY <1>1, FlatElements DEF ListIsCurrent, CurrentItems
<1>3. Shown \in Seq(Sessions \cup Folders)
  BY DEF Shown, ListType
<1> QED
  BY <1>1, <1>2, <1>3

(* Steps that leave the sessions, the filters, the groups and the list. *)
KeepsList ==
    /\ UNCHANGED <<rows, enabled, collapsed, items>>
    /\ search' = "off" <=> search = "off"

(* The other steps that change what is listed. *)
Refilters ==
    \/ ToggleGroup \/ \E p \in Providers : ToggleProvider(p)
    \/ \E s \in Sessions : Imported(s)
    \/ Loaded \/ Mutated \/ Deleted

LEMMA ListSteps ==
  ASSUME Next
  PROVE  \/ KeepsList
         \/ Refilters
         \/ OpenSearch \/ CancelSearch \/ ClearSearch
<1>1. ASSUME \/ Browse \/ TypeSearch \/ AcceptSearch \/ Esc \/ SearchDone
             \/ StatusTimeout \/ Outside
      PROVE  KeepsList
  BY <1>1 DEF Browse, TypeSearch, AcceptSearch, Esc, SearchDone, StatusTimeout,
              Outside, KeepsList, listVars
<1>2. ASSUME \/ Resume \/ Compound \/ StartCompound \/ CancelCompound
             \/ CycleTarget \/ CycleScope \/ OpenImport \/ CloseImport
      PROVE  KeepsList
  BY <1>2 DEF Resume, Compound, StartCompound, CancelCompound, CycleTarget,
              CycleScope, OpenImport, CloseImport, KeepsList, listVars
<1>3. ASSUME Convert \/ Branch \/ Delete \/ Rescan \/ Quit \/ Previewed
      PROVE  KeepsList
  BY <1>3 DEF Convert, Branch, Delete, Rescan, Quit, Previewed, KeepsList,
              listVars
<1>4. ASSUME \/ RunDiscover \/ RunDelete \/ RunPreview \/ RunMutation
             \/ MutationFails
      PROVE  KeepsList
  BY <1>4 DEF RunDiscover, RunDelete, RunPreview, RunMutation, MutationFails,
              Finish, KeepsList, listVars
<1> QED
  BY <1>1, <1>2, <1>3, <1>4, Steps DEF QuietStep, LoudStep, Refilters

(* A change of what is listed keeps everything, or rebuilds the list. *)
LEMMA Rebuilds ==
  ASSUME Refilters
  PROVE  KeepsList \/ SetItems
<1>1. CASE ToggleGroup
  BY <1>1 DEF ToggleGroup
<1>2. ASSUME NEW p \in Providers, ToggleProvider(p)
      PROVE  KeepsList \/ SetItems
  BY <1>2 DEF ToggleProvider, KeepsList, listVars
<1>3. CASE \E s \in Sessions : Imported(s)
  BY <1>3 DEF Imported
<1>4. CASE Loaded
  BY <1>4 DEF Loaded
<1>5. CASE Mutated
  BY <1>5 DEF Mutated, KeepsList, listVars
<1>6. CASE Deleted
  BY <1>6 DEF Deleted, KeepsList, listVars
<1> QED
  BY <1>1, <1>2, <1>3, <1>4, <1>5, <1>6 DEF Refilters

(* No step leaves the list out of date. *)
LEMMA ListStep ==
  ASSUME ListIsCurrent, [Next]_vars
  PROVE  ListIsCurrent'
<1>1. CASE UNCHANGED vars
  <2>1. KeepsList
    BY <1>1 DEF vars, listVars, KeepsList
  <2> QED
    BY <2>1 DEF KeepsList, ListIsCurrent, CurrentItems, Listed
<1>2. CASE KeepsList
  BY <1>2 DEF KeepsList, ListIsCurrent, CurrentItems, Listed
<1>3. CASE SetItems
  BY <1>3 DEF SetItems, ListIsCurrent
<1>4. CASE OpenSearch
  <2>1. UNCHANGED <<rows, enabled, collapsed>>
    BY <1>4 DEF OpenSearch
  <2>2. CASE Listed = {}
    <3>1. KeepsList
      BY <1>4, <2>1, <2>2 DEF OpenSearch, KeepsList, listVars
    <3> QED
      BY <1>2, <3>1
  <2>3. CASE Listed # {}
    <3>1. search' = "typing" /\ items' = FlatItems(Listed)
      BY <1>4, <2>3 DEF OpenSearch
    <3>2. Listed' = Listed
      BY <2>1 DEF Listed
    <3> QED
      BY <3>1, <3>2 DEF ListIsCurrent, CurrentItems
  <2> QED
    BY <2>2, <2>3
<1>5. CASE CancelSearch \/ ClearSearch
  BY <1>3, <1>5 DEF CancelSearch, ClearSearch, LeaveSearch
<1> QED
  BY <1>1, <1>2, <1>3, <1>4, <1>5, ListSteps, Rebuilds

-----------------------------------------------------------------------------
(* What a message carries. *)
LEMMA MessageType ==
  ASSUME CommandType, NEW m \in inbox
  PROVE  /\ m.kind \in {"load", "rescan"} => m.rows \in SUBSET Sessions
         /\ m.kind \in {"delete", "mutation"} => m.row \in Sessions
         /\ m.kind = "preview" => m.plan \in Conversions
  BY DEF CommandType, Messages

(* What a command is about. *)
LEMMA CommandRow ==
  ASSUME CommandType, NEW c \in running
  PROVE  /\ c.kind \in {"delete", "branch"} => c.row \in Sessions
         /\ c.kind \in {"preview", "conversion"} => c.plan \in Conversions
  BY DEF CommandType, Commands

(* The providers and workspaces of sessions. *)
LEMMA Belongs ==
  ASSUME NEW s \in Sessions
  PROVE  ProviderOf[s] \in Providers /\ FolderOf[s] \in Folders
  BY PickerAssumption DEF Providers

LEMMA FilterTypeStep ==
  ASSUME TypeOK, [Next]_vars
  PROVE  FilterType'
<1> USE DEF TypeOK
<1>1. CASE UNCHANGED <<rows, enabled, collapsed>>
  BY <1>1 DEF FilterType
<1>2. CASE UNCHANGED vars
  BY <1>1, <1>2 DEF vars
<1>3. CASE KeepsList
  BY <1>1, <1>3 DEF KeepsList
<1>4. CASE OpenSearch \/ CancelSearch \/ ClearSearch
  BY <1>1, <1>4 DEF OpenSearch, CancelSearch, ClearSearch, LeaveSearch
<1>5. CASE ToggleGroup
  BY <1>5 DEF ToggleGroup, FilterType
<1>6. ASSUME NEW p \in Providers, ToggleProvider(p)
      PROVE  FilterType'
  BY <1>6 DEF ToggleProvider, FilterType, Pruned
<1>7. ASSUME NEW s \in Sessions, Imported(s)
      PROVE  FilterType'
  BY <1>7, Belongs DEF Imported, FilterType
<1>8. CASE Loaded
  <2>1. PICK m \in inbox :
          /\ m.kind \in {"load", "rescan"}
          /\ rows' = m.rows
          /\ enabled' = MergedFilter(rows') \/ enabled' = ProvidersOf(rows')
          /\ collapsed' = Pruned(collapsed)
    BY <1>8 DEF Loaded
  <2>2. rows' \in SUBSET Sessions
    BY <2>1, MessageType
  <2>3. ProvidersOf(rows') \subseteq Providers
    BY <2>2 DEF ProvidersOf, Providers
  <2>4. enabled' \subseteq ProvidersOf(rows')
    BY <2>1 DEF MergedFilter
  <2> QED
    BY <2>1, <2>2, <2>3, <2>4 DEF FilterType, Pruned
<1>9. CASE Mutated
  <2>1. PICK m \in inbox :
          /\ m.kind = "mutation"
          /\ \/ /\ enabled' = enabled \cup {ProviderOf[m.row]}
                /\ rows' = rows \cup {m.row}
                /\ collapsed' = Pruned(collapsed \ {FolderOf[m.row]})
             \/ UNCHANGED <<rows, enabled, collapsed>>
    BY <1>9 DEF Mutated
  <2>2. m.row \in Sessions
    BY <2>1, MessageType
  <2> QED
    BY <2>1, <2>2, Belongs DEF FilterType, Pruned
<1>10. CASE Deleted
  <2>1. PICK m \in inbox :
          \/ /\ rows' = rows \ {m.row}
             /\ enabled' \subseteq enabled \/ enabled' = ProvidersOf(rows')
             /\ collapsed' = Pruned(collapsed)
          \/ UNCHANGED <<rows, enabled, collapsed>>
    BY <1>10 DEF Deleted
  <2> QED
    BY <2>1, Belongs DEF FilterType, Pruned, ProvidersOf
<1> QED
  BY <1>2, <1>3, <1>4, <1>5, <1>6, <1>7, <1>8, <1>9, <1>10, ListSteps
  DEF Refilters

(* No step leaves a group collapsed of which nothing is listed. *)
LEMMA CollapsedStep ==
  ASSUME TypeOK, ListIsCurrent, CollapsedIsListed, [Next]_vars
  PROVE  CollapsedIsListed'
<1>1. CASE UNCHANGED <<rows, enabled, collapsed>>
  BY <1>1 DEF CollapsedIsListed, Listed
<1>2. CASE UNCHANGED vars
  BY <1>1, <1>2 DEF vars
<1>3. CASE KeepsList
  BY <1>1, <1>3 DEF KeepsList
<1>4. CASE OpenSearch \/ CancelSearch \/ ClearSearch
  BY <1>1, <1>4 DEF OpenSearch, CancelSearch, ClearSearch, LeaveSearch
<1>5. ASSUME NEW folders, collapsed' = Pruned(folders)
      PROVE  CollapsedIsListed'
  BY <1>5 DEF Pruned, CollapsedIsListed
<1>6. CASE ToggleGroup
  <2>1. Selected \in {FolderOf[s] : s \in Listed}
    <3>1. Selected \in Folders /\ Selected \in Range(Shown)
      <4>1. Selected \in Folders
        BY <1>6 DEF ToggleGroup
      <4>2. cursor \in DOMAIN Shown /\ Selected = Shown[cursor]
        BY <4>1, PickerAssumption DEF Selected
      <4> QED
        BY <4>1, <4>2 DEF Range
    <3>2. Selected \notin Sessions
      BY <3>1, PickerAssumption
    <3>3. Listed \in SUBSET Sessions
      BY ShownElements DEF TypeOK
    <3>4. search = "off"
      <4>1. ASSUME search # "off" PROVE FALSE
        <5>1. Shown \in Seq(Sessions)
          BY <4>1 DEF TypeOK, ListType, Shown
        <5>2. Range(Shown) \subseteq Sessions
          BY <5>1 DEF Range
        <5> QED
          BY <3>1, <3>2, <5>2
      <4> QED
        BY <4>1
    <3>5. Shown = GroupedItems(Listed, collapsed)
      BY <3>4 DEF Shown, ListIsCurrent, CurrentItems
    <3>6. Range(Shown) = {FolderOf[s] : s \in Listed}
                           \cup {s \in Listed : FolderOf[s] \notin collapsed}
      BY <3>3, <3>5, GroupedElements
    <3> QED
      BY <3>1, <3>2, <3>3, <3>6
  <2>2. Listed' = Listed
    BY <1>6 DEF ToggleGroup, Listed
  <2> QED
    BY <1>6, <2>1, <2>2 DEF ToggleGroup, CollapsedIsListed
<1>7. ASSUME NEW p \in Providers, ToggleProvider(p)
      PROVE  CollapsedIsListed'
  BY <1>1, <1>5, <1>7 DEF ToggleProvider
<1>8. ASSUME NEW s \in Sessions, Imported(s)
      PROVE  CollapsedIsListed'
  <2>1. Listed \subseteq Listed' /\ collapsed' \subseteq collapsed
    BY <1>8 DEF Imported, Listed
  <2> QED
    BY <2>1 DEF CollapsedIsListed
<1>9. CASE Loaded \/ Mutated \/ Deleted
  BY <1>1, <1>5, <1>9 DEF Loaded, Mutated, Deleted
<1> QED
  BY <1>2, <1>3, <1>4, <1>6, <1>7, <1>8, <1>9, ListSteps DEF Refilters

-----------------------------------------------------------------------------
(* The steps that search, move the cursor or rebuild the list. *)
LEMMA ShownSteps ==
  ASSUME Next
  PROVE  \/ UNCHANGED <<listVars, cursor>>
         \/ Browse \/ TypeSearch \/ AcceptSearch \/ SearchDone
         \/ OpenSearch \/ CancelSearch \/ ClearSearch
         \/ Refilters
<1>1. ASSUME Esc \/ StatusTimeout \/ Outside
      PROVE  UNCHANGED <<listVars, cursor>>
  BY <1>1 DEF Esc, StatusTimeout, Outside
<1>2. ASSUME \/ Resume \/ Compound \/ StartCompound \/ CancelCompound
             \/ CycleTarget \/ CycleScope \/ OpenImport \/ CloseImport
      PROVE  UNCHANGED <<listVars, cursor>>
  BY <1>2 DEF Resume, Compound, StartCompound, CancelCompound, CycleTarget,
              CycleScope, OpenImport, CloseImport
<1>3. ASSUME Convert \/ Branch \/ Delete \/ Rescan \/ Quit \/ Previewed
      PROVE  UNCHANGED <<listVars, cursor>>
  BY <1>3 DEF Convert, Branch, Delete, Rescan, Quit, Previewed
<1>4. ASSUME \/ RunDiscover \/ RunDelete \/ RunPreview \/ RunMutation
             \/ MutationFails
      PROVE  UNCHANGED <<listVars, cursor>>
  BY <1>4 DEF RunDiscover, RunDelete, RunPreview, RunMutation, MutationFails,
              Finish
<1> QED
  BY <1>1, <1>2, <1>3, <1>4, Steps DEF QuietStep, LoudStep, Refilters

(* A search finds sessions. *)
LEMMA SearchType ==
  ASSUME NEW all \in Seq(Sessions), NEW words
  PROVE  Search(all, words) \in Seq(Sessions)
<1>1. Only(all, Matches[words]) \in Seq(Sessions \cap Matches[words])
  BY OnlyElements
<1>2. Sessions \cap Matches[words] \subseteq Sessions
  OBVIOUS
<1>3. Only(all, Matches[words]) \in Seq(Sessions)
  BY <1>1, <1>2, SeqMonotonic
<1> QED
  BY <1>3 DEF Search

(* What a step leaves in the list. *)
LEMMA NextItems ==
  ASSUME FilterType', ListIsCurrent'
  PROVE  /\ items' \in Seq(Sessions \cup Folders)
         /\ search' # "off" => items' \in Seq(Sessions)
<1>1. Listed' \in SUBSET Sessions
  BY DEF Listed, FilterType
<1>2. CASE search' = "off"
  <2>1. items' = GroupedItems(Listed', collapsed')
    BY <1>2 DEF ListIsCurrent, CurrentItems
  <2> QED
    BY <1>1, <1>2, <2>1, GroupedElements
<1>3. CASE search' # "off"
  <2>1. items' = FlatItems(Listed')
    BY <1>3 DEF ListIsCurrent, CurrentItems
  <2>2. items' \in Seq(Sessions)
    BY <1>1, <2>1, FlatElements
  <2> QED
    BY <2>2
<1> QED
  BY <1>2, <1>3

LEMMA ListTypeStep ==
  ASSUME TypeOK, ListIsCurrent, FilterType', ListIsCurrent', [Next]_vars
  PROVE  ListType'
<1>1. CASE UNCHANGED listVars
  BY <1>1 DEF TypeOK, ListType, listVars
<1>2. CASE UNCHANGED vars \/ Browse
  BY <1>1, <1>2 DEF vars, Browse
<1>3. ASSUME SetItems, search' \in {"off", "typing", "applied"},
             query' \in Queries
      PROVE  ListType'
  <2>1. found' = <<>>
    BY <1>3 DEF SetItems
  <2>2. searches' \in SUBSET Seq(Sessions)
    <3>1. CASE search' = "off"
      BY <1>3, <3>1 DEF SetItems, TypeOK, ListType
    <3>2. CASE search' # "off"
      <4>1. Search(items', query') \in Seq(Sessions)
        BY <3>2, NextItems, SearchType
      <4> QED
        BY <1>3, <3>2, <4>1 DEF SetItems, TypeOK, ListType
    <3> QED
      BY <3>1, <3>2
  <2> QED
    BY <1>3, <2>1, <2>2, NextItems DEF ListType
<1>4. CASE TypeSearch
  <2>1. items \in Seq(Sessions)
    BY <1>4, ShownElements DEF TypeOK, TypeSearch
  <2>2. Search(items, query') \in Seq(Sessions)
    BY <2>1, SearchType
  <2> QED
    BY <1>4, <2>2 DEF TypeSearch, TypeOK, ListType
<1>5. CASE AcceptSearch
  BY <1>5 DEF AcceptSearch, TypeOK, ListType
<1>6. CASE SearchDone
  BY <1>6 DEF SearchDone, TypeOK, ListType
<1>7. CASE OpenSearch
  <2>1. CASE Listed = {}
    BY <1>1, <1>7, <2>1 DEF OpenSearch
  <2>2. CASE Listed # {}
    <3>1. search' = "typing" /\ query' = query
      BY <1>7, <2>2 DEF OpenSearch
    <3>2. items' \in Seq(Sessions)
      BY <3>1, NextItems
    <3>3. Search(items', query) \in Seq(Sessions)
      BY <3>2, SearchType
    <3>4. found' \in Seq(Sessions) /\ searches' \in SUBSET Seq(Sessions)
      <4>1. CASE search = "off"
        <5>1. found' = items' /\ searches' = searches
          BY <1>7, <2>2, <4>1 DEF OpenSearch
        <5> QED
          BY <3>2, <5>1 DEF TypeOK, ListType
      <4>2. CASE search # "off"
        <5>1. /\ found' = <<>>
              /\ searches' = searches \cup {Search(items', query)}
          BY <1>7, <2>2, <4>2 DEF OpenSearch
        <5> QED
          BY <3>3, <5>1 DEF TypeOK, ListType
      <4> QED
        BY <4>1, <4>2
    <3> QED
      BY <3>1, <3>4, NextItems DEF TypeOK, ListType
  <2> QED
    BY <2>1, <2>2
<1>8. ResetFilter => search' = "off" /\ query' \in Queries
  BY PickerAssumption DEF ResetFilter
<1>9. search \in {"off", "typing", "applied"} /\ query \in Queries
  BY DEF TypeOK, ListType
<1>10. CASE CancelSearch \/ ClearSearch
  BY <1>3, <1>8, <1>10 DEF CancelSearch, ClearSearch, LeaveSearch
<1>11. ASSUME Refilters
       PROVE  \/ UNCHANGED listVars
              \/ SetItems /\ (ResetFilter \/ UNCHANGED <<search, query>>)
  <2>1. CASE ToggleGroup
    BY <2>1 DEF ToggleGroup
  <2>2. ASSUME NEW p \in Providers, ToggleProvider(p)
        PROVE  UNCHANGED listVars \/ (SetItems /\ UNCHANGED <<search, query>>)
    <3>1. CASE enabled = {p}
      BY <2>2, <3>1 DEF ToggleProvider, listVars
    <3>2. CASE enabled # {p}
      BY <2>2, <3>2 DEF ToggleProvider
    <3> QED
      BY <3>1, <3>2
  <2>3. CASE \E s \in Sessions : Imported(s)
    BY <2>3 DEF Imported
  <2>4. CASE Loaded
    BY <2>4 DEF Loaded, KeepFilter
  <2>5. CASE Mutated
    BY <2>5 DEF Mutated
  <2>6. CASE Deleted
    BY <2>6 DEF Deleted, KeepFilter
  <2> QED
    BY <1>11, <2>1, <2>2, <2>3, <2>4, <2>5, <2>6 DEF Refilters
<1>12. CASE Refilters
  BY <1>1, <1>3, <1>8, <1>9, <1>11, <1>12
<1> QED
  BY <1>1, <1>2, <1>4, <1>5, <1>6, <1>7, <1>10, <1>12, ShownSteps

-----------------------------------------------------------------------------
(* Least and Greatest are what their names say. *)
LEMMA LeastIs ==
  ASSUME NEW S \in SUBSET Nat, S # {}
  PROVE  Least(S) \in S
<1>1. \E i \in S : \A j \in S : i <= j
  BY LeastExists
<1> QED
  BY <1>1 DEF Least

LEMMA GreatestIs ==
  ASSUME NEW n \in Nat, NEW S \in SUBSET (1..n), S # {}
  PROVE  Greatest(S) \in S
<1> DEFINE T == {n - i : i \in S}
<1>1. T \in SUBSET Nat /\ T # {}
  <2>1. \A i \in S : n - i \in Nat
    OBVIOUS
  <2>2. \E i \in S : n - i \in T
    OBVIOUS
  <2> QED
    BY <2>1, <2>2
<1>2. PICK t \in T : \A u \in T : t <= u
  <2> HIDE DEF T
  <2> QED
    BY <1>1, LeastExists
<1>3. PICK i \in S : t = n - i
  OBVIOUS
<1>4. \A j \in S : i >= j
  BY <1>2, <1>3
<1> QED
  BY <1>4 DEF Greatest

(* Where the cursor goes is a place in the list, or where it was. *)
LEMMA CursorGoes ==
  ASSUME cursor \in Nat \ {0}, NEW shown \in Seq(Sessions \cup Folders)
  PROVE  /\ FirstSession(shown) \in Nat \ {0}
         /\ \A x, fallback : fallback \in Nat \ {0} =>
               IndexOf(shown, x, fallback) \in Nat \ {0}
         /\ \A s : PlaceOf(shown, s) \in Nat \ {0}
         /\ \A index \in Nat \ {0} :
               NearestSession(shown, index) \in Nat \ {0}
<1>1. DOMAIN shown \subseteq Nat \ {0} /\ DOMAIN shown = 1..Len(shown)
  OBVIOUS
<1>2. Places(shown) \subseteq DOMAIN shown
  BY DEF Places
<1>3. FirstSession(shown) \in Nat \ {0}
  BY <1>1, <1>2, LeastIs DEF FirstSession
<1>4. ASSUME NEW x, NEW fallback \in Nat \ {0}
      PROVE  IndexOf(shown, x, fallback) \in Nat \ {0}
  BY <1>1 DEF IndexOf
<1>5. ASSUME NEW s
      PROVE  PlaceOf(shown, s) \in Nat \ {0}
  BY <1>3, <1>4 DEF PlaceOf
<1>6. ASSUME NEW index \in Nat \ {0}
      PROVE  NearestSession(shown, index) \in Nat \ {0}
  <2> DEFINE at == IF index > Len(shown) THEN Len(shown) ELSE index
             after == {i \in Places(shown) : i >= at}
  <2>1. CASE shown = <<>>
    BY <2>1 DEF NearestSession
  <2>2. CASE shown # <<>> /\ after # {}
    <3>1. after \in SUBSET Nat /\ after \subseteq Nat \ {0}
      BY <1>1, <1>2
    <3>2. NearestSession(shown, index) = Least(after)
      BY <2>2 DEF NearestSession
    <3> HIDE DEF after
    <3> QED
      BY <2>2, <3>1, <3>2, LeastIs
  <2>3. CASE shown # <<>> /\ after = {} /\ Places(shown) # {}
    <3>1. NearestSession(shown, index) = Greatest(Places(shown))
      BY <2>3 DEF NearestSession
    <3>2. Len(shown) \in Nat /\ Places(shown) \in SUBSET (1..Len(shown))
      BY <1>1, <1>2
    <3> QED
      BY <1>1, <1>2, <2>3, <3>1, <3>2, GreatestIs
  <2>4. CASE shown # <<>> /\ after = {} /\ Places(shown) = {}
    <3>1. NearestSession(shown, index) = at
      BY <2>4 DEF NearestSession
    <3>2. Len(shown) \in Nat \ {0}
      BY <2>4, EmptySeq
    <3> QED
      BY <3>1, <3>2
  <2> QED
    BY <2>1, <2>2, <2>3, <2>4
<1> QED
  BY <1>3, <1>4, <1>5, <1>6

LEMMA CursorTypeStep ==
  ASSUME TypeOK, ListIsCurrent, ListType', [Next]_vars
  PROVE  cursor' \in Nat \ {0}
<1>1. cursor \in Nat \ {0}
  BY DEF TypeOK
<1>2. CASE UNCHANGED vars \/ UNCHANGED <<listVars, cursor>>
  BY <1>1, <1>2 DEF vars
<1>3. Shown \in Seq(Sessions \cup Folders)
  BY ShownElements DEF TypeOK
<1>4. Shown' \in Seq(Sessions \cup Folders)
  BY DEF Shown, ListType
<1>5. CASE Browse
  BY <1>3, <1>5 DEF Browse
<1>6. CASE TypeSearch \/ AcceptSearch \/ SearchDone
  BY <1>1, <1>6 DEF TypeSearch, AcceptSearch, SearchDone
<1>7. CASE OpenSearch
  BY <1>1, <1>7 DEF OpenSearch
<1>8. CASE CancelSearch \/ ClearSearch
  BY <1>1, <1>4, <1>8, CursorGoes DEF CancelSearch, ClearSearch, LeaveSearch
<1>9. CASE ToggleGroup
  BY <1>1, <1>4, <1>9, CursorGoes DEF ToggleGroup
<1>10. ASSUME NEW p \in Providers, ToggleProvider(p)
       PROVE  cursor' \in Nat \ {0}
  <2>1. cursor' = cursor \/ cursor' = FirstSession(Shown')
    BY <1>10 DEF ToggleProvider
  <2> QED
    BY <1>1, <1>4, <2>1, CursorGoes
<1>11. CASE \E s \in Sessions : Imported(s)
  BY <1>1, <1>4, <1>11, CursorGoes DEF Imported
<1>12. CASE Loaded
  <2>1. cursor' = PlaceOf(Shown', keep) \/ cursor' = FirstSession(Shown')
    BY <1>12 DEF Loaded
  <2> QED
    BY <1>1, <1>4, <2>1, CursorGoes
<1>13. CASE Mutated
  <2>1. cursor' = cursor \/ \E s : cursor' = PlaceOf(Shown', s)
    BY <1>13 DEF Mutated
  <2> QED
    BY <1>1, <1>4, <2>1, CursorGoes
<1>14. CASE Deleted
  <2>1. \/ cursor' = cursor
        \/ \E s : cursor' = NearestSession(Shown', IndexOf(Shown, s, cursor))
    BY <1>14 DEF Deleted
  <2>2. \A s : IndexOf(Shown, s, cursor) \in Nat \ {0}
    BY <1>1, <1>3, CursorGoes
  <2> QED
    BY <1>1, <1>4, <2>1, <2>2, CursorGoes
<1> QED
  BY <1>2, <1>5, <1>6, <1>7, <1>8, <1>9, <1>10, <1>11, <1>12, <1>13, <1>14,
     ShownSteps DEF Refilters

-----------------------------------------------------------------------------
LEMMA StoreTypeStep ==
  ASSUME TypeOK, [Next]_vars
  PROVE  StoreType'
<1>1. CASE UNCHANGED storeVars
  BY <1>1 DEF TypeOK, StoreType, storeVars
<1>2. CASE UNCHANGED vars
  BY <1>1, <1>2 DEF vars
<1>3. CASE \/ Browse \/ ToggleGroup \/ \E p \in Providers : ToggleProvider(p)
           \/ OpenSearch \/ TypeSearch \/ AcceptSearch \/ CancelSearch
           \/ ClearSearch \/ Esc
  BY <1>1, <1>3 DEF Browse, ToggleGroup, ToggleProvider, OpenSearch, TypeSearch,
                    AcceptSearch, CancelSearch, ClearSearch, Esc
<1>4. CASE \/ Resume \/ Compound \/ StartCompound \/ CancelCompound
           \/ CycleTarget \/ CycleScope \/ OpenImport \/ CloseImport
           \/ SearchDone \/ StatusTimeout
  BY <1>1, <1>4 DEF Resume, Compound, StartCompound, CancelCompound,
                    CycleTarget, CycleScope, OpenImport, CloseImport,
                    SearchDone, StatusTimeout
<1>5. CASE \/ Convert \/ Branch \/ Delete \/ Rescan \/ Quit \/ RunDiscover
           \/ RunPreview \/ MutationFails
  BY <1>1, <1>5 DEF Convert, Branch, Delete, Rescan, Quit, RunDiscover,
                    RunPreview, MutationFails
<1>6. CASE Loaded \/ Mutated \/ Deleted \/ Previewed
  BY <1>1, <1>6 DEF Loaded, Mutated, Deleted, Previewed, Handle
<1>7. CASE \E s \in Sessions : Imported(s)
  BY <1>7 DEF Imported, TypeOK, StoreType
<1>8. CASE Outside
  <2>1. outside' \in 0..MaxOutside
    <3>1. MaxOutside \in Nat
      BY PickerAssumption
    <3> QED
      BY <1>8, <3>1 DEF Outside, TypeOK, StoreType
  <2>2. disk' \in SUBSET Sessions /\ past' \in SUBSET Sessions
    BY <1>8 DEF Outside, TypeOK, StoreType
  <2> QED
    BY <2>1, <2>2 DEF StoreType
<1>9. CASE RunDelete
  <2>1. PICK c \in running : /\ c.kind = "delete"
                             /\ disk' \subseteq disk
                             /\ past' \subseteq past \cup {c.row}
                             /\ UNCHANGED outside
    BY <1>9 DEF RunDelete
  <2>2. c.row \in Sessions
    BY <2>1, CommandRow DEF TypeOK
  <2> QED
    BY <2>1, <2>2 DEF TypeOK, StoreType
<1>10. CASE RunMutation
  BY <1>10 DEF RunMutation, TypeOK, StoreType
<1> QED
  BY <1>2, <1>3, <1>4, <1>5, <1>6, <1>7, <1>8, <1>9, <1>10, Steps
  DEF QuietStep, LoudStep

-----------------------------------------------------------------------------
(* A target is a provider that the session's agent is not. *)
LEMMA CandidatesType ==
  ASSUME NEW s
  PROVE  /\ Candidates(s) \in Seq(Providers)
         /\ Candidates(s) # <<>> => TargetFor(s) \in Range(Candidates(s))
<1>1. Accepting \in Seq(Providers)
  BY PickerAssumption
<1> DEFINE others == Providers \ {ProviderOf[s]}
<1>2. Candidates(s) \in Seq(Providers \cap others)
  BY <1>1, OnlyElements DEF Candidates
<1>3. Candidates(s) \in Seq(Providers)
  <2>1. Providers \cap others \subseteq Providers
    OBVIOUS
  <2> HIDE DEF others
  <2> QED
    BY <1>2, <2>1, SeqMonotonic
<1>4. ASSUME Candidates(s) # <<>>
      PROVE  TargetFor(s) \in Range(Candidates(s))
  <2>1. CASE Contains(Candidates(s), target)
    BY <2>1 DEF TargetFor, Contains, Range
  <2>2. CASE ~Contains(Candidates(s), target)
    <3>1. TargetFor(s) = Candidates(s)[1]
      BY <1>3, <1>4, <2>2 DEF TargetFor
    <3>2. 1 \in DOMAIN Candidates(s)
      BY <1>3, <1>4, EmptySeq
    <3> QED
      BY <3>1, <3>2 DEF Range
  <2> QED
    BY <2>1, <2>2
<1> QED
  BY <1>3, <1>4

(* The arrows leave a target in the list of targets. *)
LEMMA CycleTargetType ==
  ASSUME TypeOK, CycleTarget
  PROVE  target' \in Providers \cup {None}
<1> DEFINE all == Candidates(Selected)
           at == CHOOSE i \in DOMAIN all : all[i] = TargetFor(Selected)
<1>1. CASE UNCHANGED target
  BY <1>1 DEF TypeOK, HandoffType
<1>2. CASE all # <<>> /\ target' = all[(at % Len(all)) + 1]
  <2>1. all \in Seq(Providers) /\ TargetFor(Selected) \in Range(all)
    BY <1>2, CandidatesType
  <2> HIDE DEF all
  <2>2. Len(all) \in Nat \ {0} /\ DOMAIN all = 1..Len(all)
    BY <1>2, <2>1, EmptySeq
  <2>3. at \in DOMAIN all
    <3>1. \E i \in DOMAIN all : all[i] = TargetFor(Selected)
      BY <2>1 DEF Range
    <3> QED
      BY <3>1
  <2> HIDE DEF at
  <2>4. (at % Len(all)) + 1 \in DOMAIN all
    BY <2>2, <2>3
  <2> QED
    BY <1>2, <2>1, <2>2, <2>4
<1> QED
  BY <1>1, <1>2 DEF CycleTarget

(* What steps do to the row that is armed. *)
LEMMA ArmedSteps ==
  ASSUME Next
  PROVE  armed' \in {armed, None} \/ Delete
<1>1. ASSUME \/ Browse \/ ToggleGroup \/ \E p \in Providers : ToggleProvider(p)
             \/ CancelSearch \/ ClearSearch \/ Esc
      PROVE  armed' \in {armed, None}
  BY <1>1 DEF Browse, ToggleGroup, ToggleProvider, CancelSearch, ClearSearch,
              Esc, Reconcile, ReconcileDeleteArm
<1>2. ASSUME OpenSearch \/ TypeSearch \/ AcceptSearch \/ StatusTimeout
      PROVE  armed' \in {armed, None}
  BY <1>2 DEF OpenSearch, TypeSearch, AcceptSearch, StatusTimeout, Reconcile,
              ReconcileDeleteArm
<1>3. ASSUME SearchDone
      PROVE  armed' \in {armed, None}
  BY <1>3 DEF SearchDone, Reconcile, ReconcileDeleteArm
<1>4. ASSUME \/ Resume \/ Compound \/ StartCompound \/ CancelCompound
             \/ CycleTarget \/ CycleScope \/ OpenImport \/ CloseImport
      PROVE  armed' \in {armed, None}
  BY <1>4 DEF Resume, Compound, StartCompound, CancelCompound,
              CycleTarget, CycleScope, OpenImport, CloseImport
<1>5. ASSUME \/ Convert \/ Branch \/ Rescan \/ Quit \/ RunDiscover
             \/ RunDelete \/ RunPreview \/ RunMutation \/ MutationFails
      PROVE  armed' \in {armed, None}
  BY <1>5 DEF Convert, Branch, Rescan, Quit, RunDiscover, RunDelete,
              RunPreview, RunMutation, MutationFails, Finish
<1>6. ASSUME \/ Loaded \/ Mutated \/ Deleted \/ Previewed \/ Outside
             \/ \E s \in Sessions : Imported(s)
      PROVE  armed' \in {armed, None}
  BY <1>6 DEF Loaded, Mutated, Deleted, Previewed, Outside, Imported
<1> QED
  BY <1>1, <1>2, <1>3, <1>4, <1>5, <1>6, Steps DEF QuietStep, LoudStep

(* What steps do to the preview and the settings. *)
LEMMA PreviewSteps ==
  ASSUME TypeOK, Next
  PROVE  /\ pending' \in Conversions \cup {None}
         /\ UNCHANGED <<target, scope>> \/ CycleTarget \/ CycleScope
<1>1. pending \in Conversions \cup {None}
  BY DEF TypeOK, HandoffType
<1>2. CASE QuietStep
  BY <1>1, <1>2, QuietPreview DEF CycleTarget, CycleScope
<1>3. CASE \/ Convert \/ Branch \/ Delete \/ Rescan \/ Quit \/ RunDiscover
           \/ RunDelete \/ RunPreview \/ RunMutation \/ MutationFails
  BY <1>1, <1>3 DEF Convert, Branch, Delete, Rescan, Quit, RunDiscover,
                    RunDelete, RunPreview, RunMutation, MutationFails, Finish,
                    handoffVars
<1>4. CASE Loaded \/ Mutated \/ Deleted
  BY <1>1, <1>4 DEF Loaded, Mutated, Deleted, Handle
<1>5. CASE Previewed
  <2>1. PICK m \in inbox : /\ m.kind = "preview"
                           /\ pending' \in {m.plan, None}
                           /\ UNCHANGED <<target, scope>>
    BY <1>5 DEF Previewed, Handle
  <2> QED
    BY <2>1, MessageType DEF TypeOK
<1> QED
  BY <1>2, <1>3, <1>4, <1>5, Steps DEF LoudStep

LEMMA HandoffTypeStep ==
  ASSUME TypeOK, [Next]_vars
  PROVE  HandoffType'
<1>1. CASE UNCHANGED vars
  BY <1>1 DEF TypeOK, HandoffType, vars, handoffVars
<1>2. CASE Next
  <2>1. armed' \in Sessions \cup {None}
    BY <1>2, ArmedSteps DEF TypeOK, HandoffType, Delete
  <2>2. strayed' \in BOOLEAN
    <3>1. strayed' = (/\ armed' # None
                      /\ strayed \/ Selected' # armed')
      BY <1>2 DEF Next
    <3> QED
      BY <3>1
  <2>3. target' \in Providers \cup {None}
    BY <1>2, PreviewSteps, CycleTargetType
    DEF TypeOK, HandoffType, CycleScope
  <2>4. scope' \in 0..Scopes - 1
    <3>1. CASE CycleScope
      <4>1. Scopes \in Nat \ {0}
        BY PickerAssumption
      <4>2. scope' = (scope + 1) % Scopes
        BY <3>1 DEF CycleScope
      <4> QED
        BY <4>1, <4>2 DEF TypeOK, HandoffType
    <3> QED
      BY <1>2, <3>1, PreviewSteps DEF TypeOK, HandoffType, CycleTarget
  <2> QED
    BY <1>2, <2>1, <2>2, <2>3, <2>4, PreviewSteps DEF HandoffType
<1> QED
  BY <1>1, <1>2

-----------------------------------------------------------------------------
(* Starting a command, running it and handling its message. *)
CommandVarsType ==
    /\ busy \in {"", "rescan", "preview", "conversion", "branch", "delete"}
    /\ running \in SUBSET Commands
    /\ inbox \in SUBSET Messages
    /\ gone \in SUBSET Sessions

LEMMA StartType ==
  ASSUME CommandVarsType, NEW command \in Commands, command.kind # "load",
         Start(command)
  PROVE  CommandVarsType'
<1>1. command.kind \in {"rescan", "preview", "conversion", "branch", "delete"}
  BY DEF Commands
<1> QED
  BY <1>1 DEF CommandVarsType, Start

LEMMA FinishType ==
  ASSUME CommandVarsType, NEW command, NEW message \in Messages,
         Finish(command, message)
  PROVE  CommandVarsType'
  BY DEF CommandVarsType, Finish

(* What steps do to the mode and the rows that are remembered. *)
LEMMA ModeSteps ==
  ASSUME CommandType, Next
  PROVE  /\ mode' \in {"loading", "browsing", "choosing", "importing", "quit"}
         /\ keep' \in Sessions \cup {None}
         /\ chosen' \in Sessions \cup {None}
<1> DEFINE Fine ==
      /\ mode' \in {"loading", "browsing", "choosing", "importing", "quit"}
      /\ keep' \in Sessions \cup {None}
      /\ chosen' \in Sessions \cup {None}
<1>1. ASSUME UNCHANGED <<mode, keep, chosen>>
      PROVE  Fine
  BY <1>1 DEF CommandType
<1>2. ASSUME \/ Browse \/ ToggleGroup \/ \E p \in Providers : ToggleProvider(p)
             \/ CancelSearch \/ ClearSearch \/ Esc \/ Outside
             \/ \E s \in Sessions : Imported(s)
      PROVE  UNCHANGED <<mode, keep, chosen>>
  BY <1>2 DEF Browse, ToggleGroup, ToggleProvider, CancelSearch, ClearSearch,
              Esc, Outside, Imported
<1>3. ASSUME \/ OpenSearch \/ TypeSearch \/ AcceptSearch \/ StatusTimeout
             \/ SearchDone \/ CycleTarget \/ CycleScope
      PROVE  UNCHANGED <<mode, keep, chosen>>
  BY <1>3 DEF OpenSearch, TypeSearch, AcceptSearch, StatusTimeout, SearchDone,
              CycleTarget, CycleScope
<1>4. CASE Resume \/ Compound \/ StartCompound \/ CancelCompound
  BY <1>4 DEF Resume, Compound, StartCompound, CancelCompound, CommandType
<1>5. CASE OpenImport \/ CloseImport \/ Quit
  BY <1>5 DEF OpenImport, CloseImport, Quit, CommandType
<1>6. CASE Rescan
  BY <1>6 DEF Rescan, CommandType
<1>7. ASSUME \/ Convert \/ Branch \/ Delete \/ RunDiscover
             \/ RunDelete \/ RunPreview \/ RunMutation \/ MutationFails
      PROVE  UNCHANGED <<mode, keep, chosen>>
  BY <1>7 DEF Convert, Branch, Delete, RunDiscover, RunDelete, RunPreview,
              RunMutation, MutationFails, Finish
<1>8. CASE Loaded
  BY <1>8 DEF Loaded, Handle, CommandType
<1>9. ASSUME Mutated \/ Deleted \/ Previewed
      PROVE  UNCHANGED <<mode, keep, chosen>>
  BY <1>9 DEF Mutated, Deleted, Previewed, Handle
<1> HIDE DEF Fine
<1>10. Fine
  BY <1>1, <1>2, <1>3, <1>7, <1>9, Steps,
     <1>4, <1>5, <1>6, <1>8 DEF Fine, QuietStep, LoudStep
<1> QED
  BY <1>10 DEF Fine

LEMMA CommandVarsStep ==
  ASSUME TypeOK, Next
  PROVE  CommandVarsType'
<1>1. CommandVarsType /\ CommandType
  BY DEF TypeOK, CommandType, CommandVarsType
<1>2. CASE UNCHANGED commandVars
  BY <1>1, <1>2 DEF CommandVarsType, commandVars
<1>3. CASE QuietStep
  BY <1>2, <1>3, Quiet
<1>4. CASE Convert
  <2> DEFINE plan == [row |-> Selected, to |-> TargetFor(Selected),
                      scope |-> scope]
             command == [kind |-> IF pending = plan THEN "conversion"
                                  ELSE "preview", plan |-> plan]
  <2>1. /\ Selected \in Sessions /\ Candidates(Selected) # <<>>
        /\ Start(command)
    BY <1>4 DEF Convert
  <2>2. TargetFor(Selected) \in Providers
    <3>1. /\ Candidates(Selected) \in Seq(Providers)
          /\ TargetFor(Selected) \in Range(Candidates(Selected))
      BY <2>1, CandidatesType
    <3> QED
      BY <3>1 DEF Range
  <2>3. plan \in Conversions
    BY <2>1, <2>2 DEF Conversions, TypeOK, HandoffType
  <2> HIDE DEF plan
  <2>4. command \in Commands /\ command.kind # "load"
    BY <2>3 DEF Commands
  <2> HIDE DEF command
  <2> QED
    BY <1>1, <2>1, <2>4, StartType
<1>5. CASE Branch
  <2>1. CASE /\ Selected \in Sessions
             /\ Start([kind |-> "branch", row |-> Selected])
    <3> DEFINE command == [kind |-> "branch", row |-> Selected]
    <3>1. command \in Commands /\ command.kind # "load"
      BY <2>1 DEF Commands
    <3> HIDE DEF command
    <3> QED
      BY <1>1, <2>1, <3>1, StartType DEF command
  <2> QED
    BY <1>2, <1>5, <2>1 DEF Branch
<1>6. CASE Delete
  <2>1. CASE /\ Selected \in Sessions
             /\ Start([kind |-> "delete", row |-> Selected])
    <3> DEFINE command == [kind |-> "delete", row |-> Selected]
    <3>1. command \in Commands /\ command.kind # "load"
      BY <2>1 DEF Commands
    <3> HIDE DEF command
    <3> QED
      BY <1>1, <2>1, <3>1, StartType DEF command
  <2> QED
    BY <1>2, <1>6, <2>1 DEF Delete
<1>7. CASE Rescan
  <2> DEFINE command == [kind |-> "rescan"]
  <2>1. command \in Commands /\ command.kind # "load" /\ Start(command)
    BY <1>7 DEF Commands, Rescan
  <2> HIDE DEF command
  <2> QED
    BY <1>1, <2>1, StartType
<1>8. CASE Quit
  BY <1>1, <1>8 DEF Quit, CommandVarsType
<1>9. CASE RunDiscover
  <2>1. PICK c \in running :
          /\ c.kind \in {"load", "rescan"}
          /\ Finish(c, [kind |-> c.kind, rows |-> disk])
    BY <1>9 DEF RunDiscover
  <2>2. [kind |-> c.kind, rows |-> disk] \in Messages
    BY <2>1 DEF Messages, TypeOK, StoreType
  <2> QED
    BY <1>1, <2>1, <2>2, FinishType
<1>10. CASE RunDelete
  <2>1. PICK c \in running, ok \in BOOLEAN :
          /\ c.kind = "delete"
          /\ Finish(c, [kind |-> "delete", row |-> c.row, ok |-> ok])
    BY <1>10 DEF RunDelete
  <2>2. c.row \in Sessions
    BY <1>1, <2>1, CommandRow
  <2>3. [kind |-> "delete", row |-> c.row, ok |-> ok] \in Messages
    BY <2>2 DEF Messages
  <2> QED
    BY <1>1, <2>1, <2>3, FinishType
<1>11. CASE RunPreview
  <2>1. PICK c \in running, ok \in BOOLEAN :
          /\ c.kind = "preview"
          /\ Finish(c, [kind |-> "preview", plan |-> c.plan, ok |-> ok])
    BY <1>11 DEF RunPreview
  <2>2. c.plan \in Conversions
    BY <1>1, <2>1, CommandRow
  <2>3. [kind |-> "preview", plan |-> c.plan, ok |-> ok] \in Messages
    BY <2>2 DEF Messages
  <2> QED
    BY <1>1, <2>1, <2>3, FinishType
<1>12. CASE RunMutation
  <2>1. PICK c \in running, s \in Sessions, ok \in BOOLEAN :
          Finish(c, [kind |-> "mutation", row |-> s, ok |-> ok])
    BY <1>12 DEF RunMutation
  <2>2. [kind |-> "mutation", row |-> s, ok |-> ok] \in Messages
    BY DEF Messages
  <2> QED
    BY <1>1, <2>1, <2>2, FinishType
<1>13. CASE MutationFails
  <2>1. PICK c \in running :
          /\ c.kind \in {"conversion", "branch"}
          /\ Finish(c, [kind |-> "mutation", row |-> Made(c).from,
                        ok |-> FALSE])
    BY <1>13 DEF MutationFails
  <2>2. Made(c).from \in Sessions
    <3>1. CASE c.kind = "branch"
      BY <1>1, <3>1, CommandRow DEF Made
    <3>2. CASE c.kind = "conversion"
      BY <1>1, <3>2, CommandRow DEF Made, Conversions
    <3> QED
      BY <2>1, <3>1, <3>2
  <2>3. [kind |-> "mutation", row |-> Made(c).from, ok |-> FALSE] \in Messages
    BY <2>2 DEF Messages
  <2> QED
    BY <1>1, <2>1, <2>3, FinishType
<1>14. CASE Loaded \/ Mutated \/ Previewed
  BY <1>1, <1>14
  DEF Loaded, Mutated, Previewed, Handle, CommandVarsType
<1>15. CASE Deleted
  <2>1. PICK m \in inbox : /\ m.kind = "delete" /\ Handle(m)
                           /\ gone' = gone \/ gone' = gone \cup {m.row}
    BY <1>15 DEF Deleted
  <2>2. m.row \in Sessions
    BY <1>1, <2>1, MessageType
  <2> QED
    BY <1>1, <2>1, <2>2 DEF Handle, CommandVarsType
<1> QED
  BY <1>3, <1>4, <1>5, <1>6, <1>7, <1>8, <1>9, <1>10, <1>11, <1>12, <1>13,
     <1>14, <1>15, Steps DEF LoudStep

(* No step takes a variable out of its type. *)
LEMMA TypeStep ==
  ASSUME TypeOK, ListIsCurrent, [Next]_vars
  PROVE  TypeOK'
<1>1. CommandType'
  <2>1. CASE UNCHANGED vars
    BY <2>1 DEF TypeOK, CommandType, vars, commandVars
  <2>2. CASE Next
    BY <2>2, ModeSteps, CommandVarsStep
    DEF TypeOK, CommandType, CommandVarsType
  <2> QED
    BY <2>1, <2>2
<1>2. FilterType' /\ ListIsCurrent'
  BY FilterTypeStep, ListStep
<1>3. ListType'
  BY <1>2, ListTypeStep
<1> QED
  BY <1>1, <1>2, <1>3, CursorTypeStep, StoreTypeStep, HandoffTypeStep
  DEF TypeOK

-----------------------------------------------------------------------------
(* The invariant holds in every state of the picker. *)
THEOREM Invariance == Spec => []IInv
<1>1. Init => IInv
  <2>1. Init => CommandInv
    BY DEF Init, CommandInv
  <2>2. Init => GhostInv
    BY DEF Init, GhostInv
  <2>3. Init => FilterInv
    BY DEF Init, FilterInv
  <2>4. Init => PreviewInv
    <3> SUFFICES ASSUME Init PROVE PreviewInv
      OBVIOUS
    <3>1. pending = None /\ inbox = {} /\ running = {[kind |-> "load"]}
      BY DEF Init
    <3>2. \A command \in running : command.kind # "preview"
      BY <3>1
    <3> QED
      BY <3>1, <3>2 DEF PreviewInv
  <2>5. Init => TypeOK
    <3> SUFFICES ASSUME Init PROVE TypeOK
      OBVIOUS
    <3>1. /\ disk \in SUBSET Sessions /\ past = {} /\ outside = 0
          /\ rows = {} /\ enabled = {} /\ collapsed = {}
      BY DEF Init
    <3>2. /\ search = "off" /\ query = ""
          /\ items = <<>> /\ found = <<>> /\ searches = {}
      BY DEF Init
    <3>3. armed = None /\ pending = None /\ target = None /\ scope = 0
      BY DEF Init
    <3>4. strayed \in BOOLEAN
      BY Zenon DEF Init
    <3>5. /\ mode = "loading" /\ busy = "" /\ keep = None /\ chosen = None
          /\ running = {[kind |-> "load"]} /\ inbox = {} /\ gone = {}
      BY DEF Init
    <3>6. cursor = 1
      BY DEF Init
    <3>7. StoreType
      <4>1. MaxOutside \in Nat
        BY PickerAssumption
      <4> QED
        BY <3>1, <4>1 DEF StoreType
    <3>8. FilterType
      BY <3>1 DEF FilterType
    <3>9. ListType
      <4>1. "" \in Queries
        BY PickerAssumption
      <4>2. items \in Seq(Sessions \cup Folders) /\ found \in Seq(Sessions)
        BY <3>2, EmptySeq
      <4> QED
        BY <3>2, <4>1, <4>2 DEF ListType
    <3>10. HandoffType
      <4>1. Scopes \in Nat \ {0}
        BY PickerAssumption
      <4> QED
        BY <3>3, <3>4, <4>1 DEF HandoffType
    <3>11. CommandType
      <4>1. [kind |-> "load"] \in Commands
        BY DEF Commands
      <4>2. running \in SUBSET Commands
        BY <3>5, <4>1
      <4> QED
        BY <3>5, <4>2 DEF CommandType
    <3> QED
      BY <3>6, <3>7, <3>8, <3>9, <3>10, <3>11 DEF TypeOK
  <2>6. Init => ListIsCurrent /\ CollapsedIsListed
    <3> SUFFICES ASSUME Init PROVE ListIsCurrent /\ CollapsedIsListed
      OBVIOUS
    <3>1. Listed = {} /\ collapsed = {} /\ search = "off" /\ items = <<>>
      BY DEF Init, Listed
    <3> QED
      BY <3>1, NothingGrouped
      DEF ListIsCurrent, CurrentItems, CollapsedIsListed
  <2> QED
    BY <2>1, <2>2, <2>3, <2>4, <2>5, <2>6 DEF IInv
<1>2. IInv /\ [Next]_vars => IInv'
  BY TypeStep, CommandStep, GhostStep, FilterStep, PreviewStep, ListStep,
     CollapsedStep DEF IInv
<1> QED
  BY <1>1, <1>2, PTL DEF Spec

(* Only one background command is ever under way, and none while a key or   *)
(* the import wizard acts on the list (handleKey's guard on busy).          *)
THEOREM OneCommandHolds == Spec => []OneCommand
<1>1. ASSUME NEW S, \A x, y \in S : x = y
      PROVE  Cardinality(S) \in {0, 1} /\ (Cardinality(S) = 0 <=> S = {})
  <2>1. CASE S = {}
    BY <2>1, FS_EmptySet
  <2>2. CASE S # {}
    <3>1. PICK x : S = {x}
      BY <1>1, <2>2
    <3> QED
      BY <3>1, FS_Singleton
  <2> QED
    BY <2>1, <2>2
<1>2. CommandInv => OneCommand
  <2> SUFFICES ASSUME CommandInv PROVE OneCommand
    OBVIOUS
  <2>1. /\ Cardinality(running) \in {0, 1}
        /\ Cardinality(running) = 0 <=> running = {}
    BY <1>1 DEF CommandInv
  <2>2. /\ Cardinality(inbox) \in {0, 1}
        /\ Cardinality(inbox) = 0 <=> inbox = {}
    BY <1>1 DEF CommandInv
  <2>3. Cardinality(running) + Cardinality(inbox) <= 1
    <3>1. CASE running = {}
      BY <2>1, <2>2, <3>1
    <3>2. CASE inbox = {}
      BY <2>1, <2>2, <3>2
    <3> QED
      BY <3>1, <3>2 DEF CommandInv
  <2> QED
    BY <2>3 DEF CommandInv, OneCommand
<1> QED
  BY <1>2, Invariance, PTL DEF IInv

(* A session deleted from the list never comes back (applyDelete).          *)
THEOREM NoGhostHolds == Spec => []NoGhost
<1>1. IInv => NoGhost
  BY DEF IInv, GhostInv, NoGhost
<1> QED
  BY <1>1, Invariance, PTL

(* The list is never blank while there are sessions (toggleProvider,        *)
(* applyDelete, mergeProviderFilter).                                       *)
THEOREM NoBlankListHolds == Spec => []NoBlankList
<1>1. IInv => NoBlankList
  BY DEF IInv, FilterInv, NoBlankList, Listed, ProvidersOf
<1> QED
  BY <1>1, Invariance, PTL

(* A preview is one for the target and the scope on the screen              *)
(* (applyConversionPreview, startConvert).                                  *)
THEOREM PreviewIsCurrentHolds == Spec => []PreviewIsCurrent
<1>1. IInv => PreviewIsCurrent
  BY DEF IInv, PreviewInv, Current, PreviewIsCurrent
<1> QED
  BY <1>1, Invariance, PTL

(* Every variable keeps its type. *)
THEOREM TypeCorrect == Spec => []TypeOK
<1>1. IInv => TypeOK
  BY DEF IInv
<1> QED
  BY <1>1, Invariance, PTL

(* The list widget always has the items that are asked for (rebuildList).   *)
THEOREM ListIsCurrentHolds == Spec => []ListIsCurrent
<1>1. IInv => ListIsCurrent
  BY DEF IInv
<1> QED
  BY <1>1, Invariance, PTL

(* No workspace without a listed session stays collapsed                    *)
(* (pruneCollapsedGroups).                                                  *)
THEOREM CollapsedIsListedHolds == Spec => []CollapsedIsListed
<1>1. IInv => CollapsedIsListed
  BY DEF IInv
<1> QED
  BY <1>1, Invariance, PTL

-----------------------------------------------------------------------------
(* A message is gone from the inbox because it was handled. *)
LEMMA HandledSteps ==
  ASSUME Next, NEW m \in Handled
  PROVE  Loaded \/ Mutated \/ Deleted \/ Previewed
<1>1. m \in inbox /\ m \notin inbox' /\ mode' # "quit"
  BY DEF Handled
<1>2. ~QuietStep
  BY <1>1, Quiet DEF commandVars
<1>3. ~(Convert \/ Branch \/ Delete \/ Rescan \/ Quit)
  BY <1>1 DEF Convert, Branch, Delete, Rescan, Quit, Start, commandVars
<1>4. ~(RunDiscover \/ RunDelete \/ RunPreview \/ RunMutation \/ MutationFails)
  BY <1>1 DEF RunDiscover, RunDelete, RunPreview, RunMutation, MutationFails,
              Finish
<1> QED
  BY <1>2, <1>3, <1>4, Steps DEF LoudStep

(* A new session is selected when it is ready (applyMutation): it passes    *)
(* the filter, its group is open, no search is left, so the list has it.    *)
THEOREM NewSessionSelectedHolds == Spec => NewSessionSelected
<1>1. ASSUME IInv, Next, NEW m \in Handled, m.kind = "mutation", m.ok
      PROVE  Selected' = m.row
  <2>1. Mutated
    <3>1. ~(Loaded \/ Deleted \/ Previewed)
      BY <1>1 DEF Loaded, Deleted, Previewed, Handle, Handled
    <3> QED
      BY <1>1, <3>1, HandledSteps
  <2>2. /\ enabled' = enabled \cup {ProviderOf[m.row]}
        /\ rows' = rows \cup {m.row}
        /\ ResetFilter
        /\ collapsed' = Pruned(collapsed \ {FolderOf[m.row]})
        /\ SetItems
        /\ cursor' = PlaceOf(Shown', m.row)
    BY <1>1, <2>1 DEF Mutated, Handle, Handled
  <2>3. m.row \in Listed' /\ FolderOf[m.row] \notin collapsed'
    BY <2>2 DEF Listed, Pruned
  <2>4. Listed' \in SUBSET Sessions
    BY <1>1, FilterTypeStep DEF IInv, FilterType, Listed
  <2>5. Shown' = GroupedItems(Listed', collapsed')
    BY <2>2 DEF ResetFilter, SetItems, CurrentItems, Shown
  <2>6. \E i \in DOMAIN Shown' : Shown'[i] = m.row
    <3>1. m.row \in Range(GroupedItems(Listed', collapsed'))
      BY <2>3, <2>4, GroupedElements
    <3> QED
      BY <2>5, <3>1 DEF Range
  <2>7. cursor' \in DOMAIN Shown' /\ Shown'[cursor'] = m.row
    <3>1. cursor' = CHOOSE i \in DOMAIN Shown' : Shown'[i] = m.row
      BY <2>2, <2>6 DEF PlaceOf, IndexOf
    <3> QED
      BY <2>6, <3>1
  <2> QED
    BY <2>7 DEF Selected
<1>2. ASSUME IInv, Next
      PROVE  \A m \in Handled :
                m.kind = "mutation" /\ m.ok => Selected' = m.row
  BY <1>1, <1>2
<1>3. IInv /\ [Next]_vars
        => [\A m \in Handled :
              m.kind = "mutation" /\ m.ok => Selected' = m.row]_vars
  BY <1>2
<1> QED
  BY <1>3, Invariance, PTL DEF Spec, NewSessionSelected

(* After a deletion the cursor is on a session if one is visible            *)
(* (applyDelete, selectNearestSession).                                     *)
THEOREM DeleteKeepsPlaceHolds == Spec => DeleteKeepsPlace
<1>1. ASSUME IInv, Next, NEW m \in Handled, m.kind = "delete", m.ok,
             Places(Shown') # {}
      PROVE  Selected' \in Sessions
  <2>1. Deleted
    <3>1. ~(Loaded \/ Mutated \/ Previewed)
      BY <1>1 DEF Loaded, Mutated, Previewed, Handle, Handled
    <3> QED
      BY <1>1, <3>1, HandledSteps
  <2> DEFINE index == IndexOf(Shown, m.row, cursor)
             at == IF index > Len(Shown') THEN Len(Shown') ELSE index
             after == {i \in Places(Shown') : i >= at}
  <2>2. cursor' = NearestSession(Shown', index)
    BY <1>1, <2>1 DEF Deleted, Handle, Handled
  <2>3. TypeOK'
    BY <1>1, TypeStep DEF IInv
  <2>4. Shown' \in Seq(Sessions \cup Folders)
    BY <2>3 DEF TypeOK, ListType, Shown
  <2>5. /\ Len(Shown') \in Nat
        /\ Places(Shown') \in SUBSET (1..Len(Shown'))
        /\ Shown' # <<>>
    BY <1>1, <2>4 DEF Places
  <2> HIDE DEF index
  <2>6. cursor' \in Places(Shown')
    <3>1. CASE after # {}
      <4>1. cursor' = Least(after)
        BY <2>2, <2>5, <3>1 DEF NearestSession
      <4>2. after \in SUBSET Nat /\ after \subseteq Places(Shown')
        BY <2>5
      <4> HIDE DEF after
      <4> QED
        BY <3>1, <4>1, <4>2, LeastIs
    <3>2. CASE after = {}
      <4>1. cursor' = Greatest(Places(Shown'))
        BY <1>1, <2>2, <2>5, <3>2 DEF NearestSession
      <4> QED
        BY <1>1, <2>5, <4>1, GreatestIs
    <3> QED
      BY <3>1, <3>2
  <2> QED
    BY <2>6 DEF Places, Selected
<1>2. ASSUME IInv, Next
      PROVE  \A m \in Handled :
                m.kind = "delete" /\ m.ok /\ Places(Shown') # {} =>
                    Selected' \in Sessions
  BY <1>1, <1>2
<1>3. IInv /\ [Next]_vars
        => [\A m \in Handled :
              m.kind = "delete" /\ m.ok /\ Places(Shown') # {} =>
                  Selected' \in Sessions]_vars
  BY <1>2
<1> QED
  BY <1>3, Invariance, PTL DEF Spec, DeleteKeepsPlace
=============================================================================
