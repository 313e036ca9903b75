--------------------------- MODULE AnswersProofs ---------------------------
(***************************************************************************)
(* What a kit makes of any configuration it accepts, whatever the          *)
(* application does with the objects the configuration consists of, and    *)
(* what it answers to any request, however many checks and pointers the    *)
(* configuration lists.                                                    *)
(*                                                                         *)
(* The filter of the checks and the selection of metadata are loops, which *)
(* the model writes as folds.  A fold is the function CHOSEN to satisfy    *)
(* its recursion, so a proof about it says first that there is one         *)
(* (FoldExists), then what its values are from one round of the loop to    *)
(* the next (ChecksForRuns, AllowRuns), and then by induction over the     *)
(* rounds what the loop comes to (ChecksForKeepsOrder, AllowedLeaves).     *)
(* Induction is taken from the least element that every set of numbers     *)
(* has, which the library proves in WellFoundedInduction.                  *)
(*                                                                         *)
(* The kit copies what it has validated and keeps references only to       *)
(* status codes and treatAs, so the delays, the names and types of the     *)
(* checks and the output stay those of the configuration (AnswersIInv).    *)
(***************************************************************************)
EXTENDS Answers, SequenceTheorems, WellFoundedInduction, TLAPS

\* A set of numbers has a least one.
LEMMA LeastOf ==
  ASSUME NEW T \in SUBSET Nat, T # {}
  PROVE  \E x \in T : \A y \in T : x <= y
<1> DEFINE R == {p \in Nat \X Nat : p[1] < p[2]}
<1>1. IsWellFoundedOn(R, Nat)
  BY NatLessThanWellFounded DEF OpToRel
<1>2. \E x \in T : \A y \in T : <<y, x>> \notin R
  <2> HIDE DEF R
  <2>1. QED BY <1>1, WFMin
<1>3. PICK x \in T : \A y \in T : <<y, x>> \notin R
  BY <1>2
<1>4. ASSUME NEW y \in T, y < x PROVE FALSE
  <2>1. <<y, x>> \in R BY <1>4
  <2>2. QED BY <2>1, <1>3
<1>5. ASSUME NEW y \in T PROVE x <= y BY <1>4
<1>6. QED BY <1>5

\* A set of numbers with 0, and with the successors of its members, has them all.
LEMMA Induction ==
  ASSUME NEW T \in SUBSET Nat, 0 \in T, \A n \in T : n + 1 \in T
  PROVE  T = Nat
<1> SUFFICES ASSUME Nat \ T # {} PROVE FALSE
  OBVIOUS
<1>1. PICK x \in Nat \ T : \A y \in Nat \ T : x <= y
  BY LeastOf
<1>2. x - 1 \in T BY <1>1
<1>3. QED BY <1>1, <1>2

\* A set of places has a last one.
LEMMA MaxIn ==
  ASSUME NEW N \in Nat, NEW s \in SUBSET (1 .. N), s # {}
  PROVE  Max(s) \in s
<1> DEFINE below == {N - y : y \in s}
<1>1. below \in SUBSET Nat /\ below # {}
  <2>1. \A y \in s : N - y \in Nat OBVIOUS
  <2>2. QED BY <2>1
<1>2. \E x \in below : \A z \in below : x <= z
  <2> HIDE DEF below
  <2>1. QED BY <1>1, LeastOf
<1>3. PICK y \in s : \A z \in s : N - y <= N - z BY <1>2
<1>4. \A z \in s : y >= z BY <1>3
<1>5. QED BY <1>4 DEF Max

\* The last of a set of places is the one all others are before.
LEMMA MaxOfPrefix ==
  ASSUME NEW n \in Nat, NEW s \in SUBSET (1 .. n + 1), n + 1 \in s
  PROVE  Max(s) = n + 1
<1>1. \A y \in s : n + 1 >= y OBVIOUS
<1>2. \A x \in s : (\A y \in s : x >= y) => x = n + 1 OBVIOUS
<1>3. QED BY <1>1, <1>2 DEF Max

\* The function of which a fold over 1 .. N is the value at 1 .. N.
Folds(f, step, base, N) ==
  f = [s \in SUBSET (1 .. N) |->
         IF s = {} THEN base ELSE step[Max(s)][f[s \ {Max(s)}]]]

\* There is one, built from the function for one place less.
LEMMA FoldExists ==
  ASSUME NEW A, NEW base \in A, NEW N \in Nat, NEW step \in [1 .. N -> [A -> A]]
  PROVE  \E f \in [SUBSET (1 .. N) -> A] : Folds(f, step, base, N)
<1> DEFINE Exists(n) == \E f \in [SUBSET (1 .. n) -> A] : Folds(f, step, base, n)
           T         == {n \in Nat : n <= N => Exists(n)}
<1>1. Exists(0)
  <2>1. Folds([s \in SUBSET (1 .. 0) |-> base], step, base, 0)
    BY DEF Folds
  <2>2. QED BY <2>1
<1>2. ASSUME NEW n \in Nat, Exists(n), n + 1 <= N PROVE Exists(n + 1)
  <2>0. n \in Nat OBVIOUS
  <2>1. PICK f \in [SUBSET (1 .. n) -> A] : Folds(f, step, base, n)
    BY <1>2
  <2> DEFINE g == [s \in SUBSET (1 .. n + 1) |->
                     IF n + 1 \notin s THEN f[s] ELSE step[n + 1][f[s \ {n + 1}]]]
  <2>2. ASSUME NEW s \in SUBSET (1 .. n + 1)
        PROVE  /\ g[s] \in A
               /\ g[s] = IF s = {} THEN base ELSE step[Max(s)][g[s \ {Max(s)}]]
    <3>1. CASE n + 1 \in s
      <4>0. s \ {n + 1} \in SUBSET (1 .. n) /\ n + 1 \in 1 .. N BY <1>2
      <4>1. g[s \ {n + 1}] = f[s \ {n + 1}] /\ f[s \ {n + 1}] \in A BY <4>0
      <4>2. g[s] = step[n + 1][f[s \ {n + 1}]] BY <3>1
      <4>3. step[n + 1][f[s \ {n + 1}]] \in A BY <4>0, <4>1
      <4>4. s # {} /\ Max(s) = n + 1 BY <3>1, MaxOfPrefix
      <4> HIDE DEF g
      <4>5. QED BY <4>1, <4>2, <4>3, <4>4
    <3>2. CASE n + 1 \notin s
      <4>1. s \in SUBSET (1 .. n) /\ s \ {Max(s)} \in SUBSET (1 .. n)
        <5>1. \A y \in 1 .. n + 1 : y # n + 1 => y \in 1 .. n BY <2>0
        <5>2. QED BY <3>2, <5>1
      <4>2. g[s \ {Max(s)}] = f[s \ {Max(s)}] BY <4>1
      <4>3. g[s] = f[s] BY <3>2
      <4> HIDE DEF g
      <4>4. QED BY <2>1, <4>1, <4>2, <4>3 DEF Folds
    <3>3. QED BY <3>1, <3>2
  <2>3. g = [s \in SUBSET (1 .. n + 1) |-> g[s]] OBVIOUS
  <2> HIDE DEF g
  <2>4. Folds(g, step, base, n + 1)
    BY <2>2, <2>3 DEF Folds
  <2>5. g \in [SUBSET (1 .. n + 1) -> A] BY <2>2, <2>3
  <2>6. QED BY <2>4, <2>5
<1> HIDE DEF Exists
<1>3. T \in SUBSET Nat /\ 0 \in T /\ \A n \in T : n + 1 \in T
  BY <1>1, <1>2
<1>4. T = Nat
  <2> HIDE DEF T
  <2>1. QED BY <1>3, Induction
<1>5. N \in T /\ N <= N BY <1>4
<1>6. Exists(N) BY <1>5
<1>7. QED BY <1>6 DEF Exists

\* A prefix of the numbers, its last one and the others.
LEMMA PrefixOf ==
  ASSUME NEW N \in Nat, NEW n \in 1 .. N
  PROVE  /\ 1 .. n \in SUBSET (1 .. N) /\ 1 .. n # {}
         /\ Max(1 .. n) = n /\ (1 .. n) \ {n} = 1 .. n - 1
<1>1. PICK m \in Nat : n = m + 1 OBVIOUS
<1>2. Max(1 .. n) = n BY <1>1, MaxOfPrefix
<1>3. QED BY <1>2

-----------------------------------------------------------------------------
\* The loop of the filter: what is kept of the first n checks.
LEMMA ChecksForRuns ==
  ASSUME NEW config, config.checks \in Seq(CheckConfig), NEW type
  PROVE  \E run :
           /\ run[0] = << >>
           /\ \A n \in 1 .. Len(config.checks) :
                run[n] = IF type \in config.checks[n].types
                         THEN Append(run[n - 1], config.checks[n]) ELSE run[n - 1]
           /\ ChecksFor(config, type) = run[Len(config.checks)]
<1> DEFINE checks == config.checks
           N      == Len(checks)
           A      == Seq(CheckConfig)
           op(kept, c) == IF type \in c.types THEN Append(kept, c) ELSE kept
           step   == [n \in 1 .. N |-> [kept \in A |-> op(kept, checks[n])]]
           is(f)  == f = [s \in SUBSET (1 .. N) |->
                            IF s = {} THEN << >>
                            ELSE op(f[s \ {Max(s)}], checks[Max(s)])]
           iter   == CHOOSE f : is(f)
           run    == [n \in 0 .. N |-> iter[1 .. n]]
<1>0. N \in Nat /\ DOMAIN checks = 1 .. N /\ \A n \in 1 .. N : checks[n] \in CheckConfig
  OBVIOUS
<1>1. \E f : is(f)
  <2>1. step \in [1 .. N -> [A -> A]] /\ << >> \in A
    BY <1>0
  <2> HIDE DEF step, A
  <2>2. PICK f \in [SUBSET (1 .. N) -> A] : Folds(f, step, << >>, N)
    BY <1>0, <2>1, FoldExists
  <2>3. ASSUME NEW s \in SUBSET (1 .. N), s # {}
        PROVE  step[Max(s)][f[s \ {Max(s)}]] = op(f[s \ {Max(s)}], checks[Max(s)])
    <3>1. Max(s) \in 1 .. N /\ f[s \ {Max(s)}] \in A
      BY <1>0, <2>2, <2>3, MaxIn
    <3>2. QED BY <3>1 DEF step
  <2>4. is(f) BY <2>2, <2>3 DEF Folds
  <2>5. QED BY <2>4
<1>2. ChecksFor(config, type) = iter[1 .. N]
  BY <1>0 DEF ChecksFor, FoldLeft, MapThenFoldSet
<1>3. is(iter) BY <1>1
<1> HIDE DEF iter
<1>4. run[0] = << >>
  <2>1. 1 .. 0 = {} /\ run[0] = iter[1 .. 0] BY <1>0
  <2>2. QED BY <1>3, <2>1
<1>5. ASSUME NEW n \in 1 .. N PROVE run[n] = op(run[n - 1], checks[n])
  <2>1. run[n] = iter[1 .. n] /\ run[n - 1] = iter[1 .. n - 1] BY <1>0
  <2>2. 1 .. n \in SUBSET (1 .. N) /\ 1 .. n # {} /\ Max(1 .. n) = n
        /\ (1 .. n) \ {n} = 1 .. n - 1
    BY <1>0, PrefixOf
  <2>3. iter[1 .. n] = op(iter[1 .. n - 1], checks[n])
    <3> HIDE DEF op
    <3>1. QED BY <1>3, <2>2
  <2> HIDE DEF run
  <2>4. QED BY <2>1, <2>3
<1>6. ChecksFor(config, type) = run[N] BY <1>0, <1>2
<1> HIDE DEF run
<1>7. QED BY <1>4, <1>5, <1>6

\* The first member of K in a sequence of checks is c.
Leads(kept, c, K) ==
  \E j \in DOMAIN kept : kept[j] = c /\ \A k \in 1 .. j - 1 : kept[k] \notin K

\* The filter keeps the order: the first check it keeps of a set is the first
\* of its type that there is, and nothing else is kept.
LEMMA ChecksForKeepsOrder ==
  ASSUME NEW config, config.checks \in Seq(CheckConfig), NEW type, NEW K
  PROVE  LET kept == ChecksFor(config, type)
             hits == {i \in DOMAIN config.checks :
                        type \in config.checks[i].types /\ config.checks[i] \in K}
         IN  /\ kept \in Seq(CheckConfig)
             /\ \/ hits = {} /\ \A j \in DOMAIN kept : kept[j] \notin K
                \/ \E i \in hits :
                     /\ \A h \in hits : i <= h
                     /\ Leads(kept, config.checks[i], K)
<1> DEFINE checks  == config.checks
           N       == Len(checks)
           hits(n) == {i \in 1 .. n : type \in checks[i].types /\ checks[i] \in K}
           P(kept, n) ==
             /\ kept \in Seq(CheckConfig)
             /\ \/ hits(n) = {} /\ \A j \in DOMAIN kept : kept[j] \notin K
                \/ \E i \in hits(n) :
                     /\ \A h \in hits(n) : i <= h
                     /\ Leads(kept, checks[i], K)
<1>0. N \in Nat /\ DOMAIN checks = 1 .. N /\ \A n \in 1 .. N : checks[n] \in CheckConfig
  OBVIOUS
<1>1. PICK run : /\ run[0] = << >>
                 /\ \A n \in 1 .. N : run[n] = IF type \in checks[n].types
                                               THEN Append(run[n - 1], checks[n])
                                               ELSE run[n - 1]
                 /\ ChecksFor(config, type) = run[N]
  BY ChecksForRuns
<1> DEFINE T == {n \in Nat : n <= N => P(run[n], n)}
<1>2. P(run[0], 0)
  <2>1. hits(0) = {} /\ run[0] = << >> BY <1>1
  <2> HIDE DEF hits
  <2>2. QED BY <2>1
<1> HIDE DEF P
<1>3. ASSUME NEW n \in T PROVE n + 1 \in T
  <2>0. n \in Nat OBVIOUS
  <2> SUFFICES ASSUME n + 1 <= N PROVE P(run[n + 1], n + 1)
    BY <2>0
  <2>1. P(run[n], n) BY <1>0, <2>0
  <2> DEFINE c == checks[n + 1]
             old == run[n]
             new == run[n + 1]
  <2>2. n + 1 \in 1 .. N /\ n + 1 - 1 = n BY <1>0, <2>0
  <2>3. new = IF type \in c.types THEN Append(old, c) ELSE old
    BY <1>1, <2>2
  <2>4. c \in CheckConfig /\ old \in Seq(CheckConfig)
    BY <1>0, <2>1, <2>2 DEF P
  <2>5. hits(n + 1) = IF type \in c.types /\ c \in K THEN hits(n) \cup {n + 1} ELSE hits(n)
    BY <2>0
  <2>6. \A h \in hits(n) : h <= n
    BY <2>0
  <2> HIDE DEF c, old, new, hits
  <2>7. CASE type \notin c.types
    BY <2>1, <2>3, <2>5, <2>7 DEF P, old, new
  <2>8. CASE type \in c.types
    <3>1. /\ new \in Seq(CheckConfig) /\ Len(new) = Len(old) + 1 /\ Len(old) \in Nat
          /\ \A j \in 1 .. Len(old) : new[j] = old[j]
          /\ new[Len(new)] = c
          /\ DOMAIN old = 1 .. Len(old) /\ DOMAIN new = 1 .. Len(old) + 1
      BY <2>3, <2>4, <2>8
    <3>2. CASE \E i \in hits(n) :
                 (\A h \in hits(n) : i <= h) /\ Leads(old, checks[i], K)
      <4>1. PICK i \in hits(n), j \in DOMAIN old :
              /\ \A h \in hits(n) : i <= h
              /\ old[j] = checks[i] /\ \A k \in 1 .. j - 1 : old[k] \notin K
        BY <3>2 DEF Leads
      <4>2. i \in hits(n + 1) /\ \A h \in hits(n + 1) : i <= h
        <5>1. i <= n BY <2>6
        <5>2. i \in Int BY DEF hits
        <5>3. QED BY <2>0, <2>5, <4>1, <5>1, <5>2
      <4>3. j \in DOMAIN new /\ new[j] = checks[i] /\ \A k \in 1 .. j - 1 : new[k] \notin K
        BY <3>1, <4>1
      <4>4. Leads(new, checks[i], K) BY <4>3 DEF Leads
      <4>5. QED BY <3>1, <4>2, <4>4 DEF P, new
    <3>3. CASE hits(n) = {} /\ \A j \in DOMAIN old : old[j] \notin K
      <4>1. CASE c \in K
        <5>1. hits(n + 1) = {n + 1} BY <2>5, <2>8, <3>3, <4>1
        <5>2. Len(new) \in DOMAIN new /\ new[Len(new)] = checks[n + 1]
              /\ \A k \in 1 .. Len(new) - 1 : new[k] \notin K
          BY <3>1, <3>3 DEF c
        <5>3. Leads(new, checks[n + 1], K) BY <5>2 DEF Leads
        <5>4. QED BY <2>0, <3>1, <5>1, <5>3 DEF P, new
      <4>2. CASE c \notin K
        <5>1. \A j \in DOMAIN new : new[j] \notin K
          BY <3>1, <3>3, <4>2
        <5>2. QED BY <2>5, <3>1, <3>3, <4>2, <5>1 DEF P, new
      <4>3. QED BY <4>1, <4>2
    <3>4. QED BY <2>1, <3>2, <3>3 DEF P, old
  <2>9. QED BY <2>7, <2>8
<1> HIDE DEF T
<1>4. T = Nat
  <2>1. 0 \in T /\ T \in SUBSET Nat BY <1>0, <1>2 DEF T
  <2>2. QED BY <1>3, <2>1, Induction
<1>5. N \in T BY <1>0, <1>4
<1>6. P(run[N], N) BY <1>0, <1>5 DEF T
<1>7. hits(N) = {i \in DOMAIN checks : type \in checks[i].types /\ checks[i] \in K}
  BY <1>0
<1> HIDE DEF hits
<1>8. QED BY <1>1, <1>6, <1>7 DEF P

-----------------------------------------------------------------------------
\* The nodes that are copied from the metadata.
Leaves(nodes) == {p \in DOMAIN nodes : nodes[p] = "scalar"}

Permitted(metadata, pointer) == ~Ignored(pointer) /\ pointer \in Leaves(metadata)

\* What the selection may come to be.
Selections == UNION {[D -> {"scalar", "record"}] : D \in SUBSET Seq(STRING)}

\* A pointer is the last of its own ways.
LEMMA WaysOfPointer ==
  ASSUME NEW pointer \in Seq(STRING), pointer # << >>
  PROVE  pointer \in Ways(pointer) /\ Ways(pointer) \subseteq Seq(STRING)
<1>1. Len(pointer) \in 1 .. Len(pointer) BY EmptySeq
<1>2. SubSeq(pointer, 1, Len(pointer)) = pointer BY SubSeqFull
<1>3. \A n \in 1 .. Len(pointer) : SubSeq(pointer, 1, n) \in Seq(STRING) OBVIOUS
<1>4. QED BY <1>1, <1>2, <1>3 DEF Ways

\* A round of the loop yields a selection.
LEMMA SelectSelects ==
  ASSUME NEW metadata, NEW selected \in Selections, NEW pointer \in Seq(STRING)
  PROVE  Select(metadata, selected, pointer) \in Selections
<1>1. CASE ~Ignored(pointer)
  <2>1. PICK D \in SUBSET Seq(STRING) : selected \in [D -> {"scalar", "record"}]
    BY DEF Selections
  <2>2. pointer # << >> BY <1>1 DEF Ignored
  <2>3. D \cup Ways(pointer) \in SUBSET Seq(STRING) BY <2>2, WaysOfPointer
  <2>4. Insert(selected, pointer) \in [D \cup Ways(pointer) -> {"scalar", "record"}]
    BY <2>1 DEF Insert
  <2>5. Insert(selected, pointer) \in Selections BY <2>3, <2>4 DEF Selections
  <2>6. QED BY <2>5 DEF Select
<1>2. QED BY <1>1 DEF Select

\* A selection has the leaves it had and the new one, whatever nodes it had.
LEMMA SelectLeaves ==
  ASSUME NEW metadata, NEW selected, NEW pointer \in Seq(STRING)
  PROVE  Leaves(Select(metadata, selected, pointer))
           = Leaves(selected) \cup (IF Permitted(metadata, pointer) THEN {pointer} ELSE {})
<1>1. CASE Permitted(metadata, pointer)
  <2>1. pointer \in Ways(pointer)
    BY <1>1, WaysOfPointer DEF Permitted, Ignored
  <2>2. Leaves(Insert(selected, pointer)) = Leaves(selected) \cup {pointer}
    BY <2>1 DEF Leaves, Insert
  <2>3. QED BY <1>1, <2>2 DEF Permitted, Select, Leaves
<1>2. QED BY <1>1 DEF Permitted, Select, Leaves

\* The loop over the pointers: what the first n of them select.
LEMMA AllowRuns ==
  ASSUME NEW metadata, NEW pointers \in Seq(Seq(STRING)),
         ~ \E p \in ToSet(pointers) : ~Ignored(p) /\ Throws(metadata, p)
  PROVE  \E run :
           /\ run[0] = NoNodes
           /\ \A n \in 1 .. Len(pointers) :
                run[n] = Select(metadata, run[n - 1], pointers[n])
           /\ AllowMetadata(metadata, pointers) = run[Len(pointers)]
<1> DEFINE N     == Len(pointers)
           step  == [n \in 1 .. N |->
                       [selected \in Selections |-> Select(metadata, selected, pointers[n])]]
           is(f) == f = [s \in SUBSET (1 .. N) |->
                           IF s = {} THEN NoNodes
                           ELSE Select(metadata, f[s \ {Max(s)}], pointers[Max(s)])]
           iter  == CHOOSE f : is(f)
           run   == [n \in 0 .. N |-> iter[1 .. n]]
<1>0. N \in Nat /\ DOMAIN pointers = 1 .. N /\ \A n \in 1 .. N : pointers[n] \in Seq(STRING)
  OBVIOUS
<1>1. \E f : is(f)
  <2>1. step \in [1 .. N -> [Selections -> Selections]]
    BY <1>0, SelectSelects
  <2>2. NoNodes \in Selections
    <3>1. NoNodes \in [{} -> {"scalar", "record"}] BY DEF NoNodes
    <3>2. QED BY <3>1 DEF Selections
  <2> HIDE DEF step
  <2>3. PICK f \in [SUBSET (1 .. N) -> Selections] : Folds(f, step, NoNodes, N)
    BY <1>0, <2>1, <2>2, FoldExists
  <2>4. ASSUME NEW s \in SUBSET (1 .. N), s # {}
        PROVE  step[Max(s)][f[s \ {Max(s)}]]
                 = Select(metadata, f[s \ {Max(s)}], pointers[Max(s)])
    <3>1. Max(s) \in 1 .. N /\ f[s \ {Max(s)}] \in Selections
      BY <1>0, <2>3, <2>4, MaxIn
    <3>2. QED BY <3>1 DEF step
  <2>5. is(f) BY <2>3, <2>4 DEF Folds
  <2>6. QED BY <2>5
<1>2. AllowMetadata(metadata, pointers) = iter[1 .. N]
  BY <1>0 DEF AllowMetadata, FoldLeft, MapThenFoldSet
<1>3. is(iter) BY <1>1
<1> HIDE DEF iter
<1>4. run[0] = NoNodes
  <2>1. 1 .. 0 = {} /\ run[0] = iter[1 .. 0] BY <1>0
  <2>2. QED BY <1>3, <2>1
<1>5. ASSUME NEW n \in 1 .. N PROVE run[n] = Select(metadata, run[n - 1], pointers[n])
  <2>1. run[n] = iter[1 .. n] /\ run[n - 1] = iter[1 .. n - 1] BY <1>0
  <2>2. 1 .. n \in SUBSET (1 .. N) /\ 1 .. n # {} /\ Max(1 .. n) = n
        /\ (1 .. n) \ {n} = 1 .. n - 1
    BY <1>0, PrefixOf
  <2>3. iter[1 .. n] = Select(metadata, iter[1 .. n - 1], pointers[n])
    BY <1>3, <2>2
  <2> HIDE DEF run
  <2>4. QED BY <2>1, <2>3
<1>6. AllowMetadata(metadata, pointers) = run[N] BY <1>0, <1>2
<1> HIDE DEF run
<1>7. QED BY <1>4, <1>5, <1>6

\* Of the nodes above the end of a pointer, which are its strict prefixes, one
\* is a trap.
LEMMA ThrowsIsTrapped ==
  ASSUME NEW metadata, DOMAIN metadata \subseteq Seq(STRING), NEW pointer \in Seq(STRING)
  PROVE  Throws(metadata, pointer)
           <=> \E q \in DOMAIN metadata : metadata[q] = "trap" /\ IsStrictPrefix(q, pointer)
<1>1. ASSUME NEW q \in Seq(STRING)
      PROVE  q \in Above(pointer) <=> IsStrictPrefix(q, pointer)
  <2>1. SubSeq(q, 1, Len(q)) = q /\ Len(q) \in Nat /\ Len(pointer) \in Nat
    BY SubSeqFull
  <2>2. ASSUME NEW n \in 0 .. Len(pointer) - 1, q = SubSeq(pointer, 1, n)
        PROVE  Len(q) = n
    <3>1. \A i \in 1 .. n : pointer[i] \in STRING OBVIOUS
    <3>2. Len(SubSeq(pointer, 1, n)) = IF 1 <= n THEN n - 1 + 1 ELSE 0
      BY <3>1, SubSeqProperties
    <3>3. QED BY <2>2, <3>2
  <2>3. ASSUME q \in Above(pointer) PROVE IsStrictPrefix(q, pointer)
    <3>1. PICK n \in 0 .. Len(pointer) - 1 : q = SubSeq(pointer, 1, n)
      BY <2>3 DEF Above
    <3>2. Len(q) = n BY <2>2, <3>1
    <3>3. SubSeq(q, 1, Len(q)) = SubSeq(pointer, 1, Len(q)) BY <2>1, <3>1, <3>2
    <3>4. Len(q) <= Len(pointer) /\ q # pointer BY <2>1, <3>2
    <3>5. QED BY <3>3, <3>4 DEF IsStrictPrefix, IsPrefix
  <2>4. ASSUME IsStrictPrefix(q, pointer) PROVE q \in Above(pointer)
    <3>1. q = SubSeq(pointer, 1, Len(q)) /\ Len(q) <= Len(pointer) /\ q # pointer
      BY <2>1, <2>4 DEF IsStrictPrefix, IsPrefix
    <3>2. Len(q) # Len(pointer) BY <3>1, SubSeqFull
    <3>3. Len(q) \in 0 .. Len(pointer) - 1 BY <2>1, <3>1, <3>2
    <3>4. QED BY <3>1, <3>3 DEF Above
  <2>5. QED BY <2>3, <2>4
<1>2. QED BY <1>1 DEF Throws

\* What is left of listed metadata.
LEMMA AllowedLeaves ==
  ASSUME NEW metadata, NEW pointers \in Seq(Seq(STRING))
  PROVE  Leaves(AllowMetadata(metadata, pointers))
           = IF \E p \in ToSet(pointers) : ~Ignored(p) /\ Throws(metadata, p) THEN {}
             ELSE {p \in ToSet(pointers) : Permitted(metadata, p)}
<1>1. CASE \E p \in ToSet(pointers) : ~Ignored(p) /\ Throws(metadata, p)
  <2>1. Leaves(NoNodes) = {} BY DEF Leaves, NoNodes
  <2>2. QED BY <1>1, <2>1 DEF AllowMetadata
<1>2. CASE ~ \E p \in ToSet(pointers) : ~Ignored(p) /\ Throws(metadata, p)
  <2> DEFINE N == Len(pointers)
  <2>0. N \in Nat /\ DOMAIN pointers = 1 .. N /\ \A n \in 1 .. N : pointers[n] \in Seq(STRING)
    OBVIOUS
  <2>1. PICK run : /\ run[0] = NoNodes
                   /\ \A n \in 1 .. N : run[n] = Select(metadata, run[n - 1], pointers[n])
                   /\ AllowMetadata(metadata, pointers) = run[N]
    BY <1>2, AllowRuns
  <2> DEFINE Chosen(n) == {p \in {pointers[i] : i \in 1 .. n} : Permitted(metadata, p)}
             T == {n \in Nat : n <= N => Leaves(run[n]) = Chosen(n)}
  <2>2. 0 \in T
    <3>1. Leaves(NoNodes) = {} BY DEF Leaves, NoNodes
    <3>2. Chosen(0) = {} OBVIOUS
    <3>3. QED BY <2>1, <3>1, <3>2
  <2>3. ASSUME NEW n \in T PROVE n + 1 \in T
    <3>0. n \in Nat OBVIOUS
    <3> SUFFICES ASSUME n + 1 <= N PROVE Leaves(run[n + 1]) = Chosen(n + 1)
      BY <3>0
    <3>1. Leaves(run[n]) = Chosen(n) BY <2>0, <3>0
    <3>2. run[n + 1] = Select(metadata, run[n], pointers[n + 1])
      BY <2>0, <2>1, <3>0
    <3>3. pointers[n + 1] \in Seq(STRING) BY <2>0, <3>0
    <3>4. Leaves(run[n + 1]) = Chosen(n) \cup (IF Permitted(metadata, pointers[n + 1])
                                               THEN {pointers[n + 1]} ELSE {})
      BY <3>1, <3>2, <3>3, SelectLeaves
    <3>5. {pointers[i] : i \in 1 .. n + 1} = {pointers[i] : i \in 1 .. n} \cup {pointers[n + 1]}
      BY <3>0
    <3>6. QED BY <3>4, <3>5
  <2>4. T = Nat
    <3>1. T \in SUBSET Nat OBVIOUS
    <3> HIDE DEF T
    <3>2. QED BY <2>2, <2>3, <3>1, Induction
  <2>5. N \in T /\ N <= N BY <2>0, <2>4
  <2>6. Leaves(run[N]) = Chosen(N) BY <2>5
  <2>7. QED BY <1>2, <2>0, <2>1, <2>6 DEF ToSet
<1>3. QED BY <1>1, <1>2

-----------------------------------------------------------------------------
\* No two checks have the same name.
NamesDiffer(config) == IsInjective([i \in DOMAIN config.checks |-> config.checks[i].name])

\* The filter keeps the checks of the type, and no others.
LEMMA ChecksForElements ==
  ASSUME NEW config, config.checks \in Seq(CheckConfig), NEW type
  PROVE  /\ ChecksFor(config, type) \in Seq(CheckConfig)
         /\ ToSet(ChecksFor(config, type))
              = {c \in ToSet(config.checks) : type \in c.types}
<1> DEFINE kept == ChecksFor(config, type)
<1> HIDE DEF kept
<1>1. kept \in Seq(CheckConfig)
  BY ChecksForKeepsOrder DEF kept
<1>2. ASSUME NEW j \in DOMAIN kept
      PROVE  \E i \in DOMAIN config.checks :
               type \in config.checks[i].types /\ config.checks[i] = kept[j]
  <2>1. kept[j] \in {kept[j]} OBVIOUS
  <2>2. {i \in DOMAIN config.checks :
           type \in config.checks[i].types /\ config.checks[i] \in {kept[j]}} # {}
    BY <2>1, ChecksForKeepsOrder DEF kept
  <2>3. QED BY <2>2
<1>3. ASSUME NEW i \in DOMAIN config.checks, type \in config.checks[i].types
      PROVE  \E j \in DOMAIN kept : kept[j] = config.checks[i]
  <2> DEFINE hits == {h \in DOMAIN config.checks :
                        type \in config.checks[h].types
                          /\ config.checks[h] \in {config.checks[i]}}
  <2>1. i \in hits BY <1>3
  <2>2. \E h \in hits : Leads(kept, config.checks[h], {config.checks[i]})
    BY <2>1, ChecksForKeepsOrder DEF kept
  <2>3. PICK h \in hits : Leads(kept, config.checks[h], {config.checks[i]})
    BY <2>2
  <2>4. config.checks[h] = config.checks[i] OBVIOUS
  <2>5. QED BY <2>3, <2>4 DEF Leads
<1>4. QED BY <1>1, <1>2, <1>3 DEF ToSet, kept

\* As no two checks have the same name, the result of a check is its own.
LEMMA ResultOfCheck ==
  ASSUME NEW config, config.checks \in Seq(CheckConfig), NamesDiffer(config),
         NEW type, NEW raw, NEW c \in ToSet(config.checks), type \in c.types
  PROVE  /\ c.name \in DOMAIN Results(config, type, raw)
         /\ Results(config, type, raw)[c.name] = Effective(c, raw[c.name])
<1> DEFINE kept == ChecksFor(config, type)
<1>1. c \in ToSet(kept) BY ChecksForElements
<1>2. \A d \in ToSet(kept) : d.name = c.name => d = c
  <2>1. \A d \in ToSet(kept) : d \in ToSet(config.checks) BY ChecksForElements
  <2>2. \A d \in ToSet(config.checks) : d.name = c.name => d = c
    BY DEF ToSet, NamesDiffer, IsInjective
  <2>3. QED BY <2>1, <2>2
<1>3. (CHOOSE d \in ToSet(kept) : d.name = c.name) = c
  BY <1>1, <1>2
<1>4. QED BY <1>1, <1>3 DEF Results

\* The least of a set is the member no other is before.
LEMMA MinOf ==
  ASSUME NEW S \in SUBSET Nat, NEW x \in S, \A y \in S : x <= y
  PROVE  Min(S) = x
<1>1. \A z \in S : (\A y \in S : z <= y) => z = x OBVIOUS
<1>2. QED BY <1>1 DEF Min

\* The checks of a type that have a status, and a code for it.
Hits(config, type, raw, status, code) ==
  {i \in DOMAIN config.checks :
     LET c == config.checks[i]
     IN  type \in c.types /\ Effective(c, raw[c.name]).status = status /\ c[code] # Unset}

\* The first of the checks of a type that has a status and a code for it is
\* the first of all the checks that has.
LEMMA FirstIsFirst ==
  ASSUME NEW config, config.checks \in Seq(CheckConfig), NamesDiffer(config),
         NEW type, NEW raw, NEW status, NEW code
  PROVE  LET kept  == ChecksFor(config, type)
             place == First(kept, Results(config, type, raw), status, code)
             hits  == Hits(config, type, raw, status, code)
         IN  /\ hits = {} => place = 0
             /\ hits # {} => place # 0 /\ kept[place] = config.checks[Min(hits)]
<1> DEFINE kept    == ChecksFor(config, type)
           results == Results(config, type, raw)
           K == {c \in CheckConfig :
                   Effective(c, raw[c.name]).status = status /\ c[code] # Unset}
           I == {i \in 1 .. Len(kept) :
                   results[kept[i].name].status = status /\ kept[i][code] # Unset}
           hits == Hits(config, type, raw, status, code)
<1>1. First(kept, results, status, code) = IF I # {} THEN Min(I) ELSE 0
  BY DEF First, SelectInSeq
<1>2. kept \in Seq(CheckConfig) /\ Len(kept) \in Nat
  BY ChecksForElements
<1>3. I = {i \in 1 .. Len(kept) : kept[i] \in K}
  <2>1. ASSUME NEW i \in 1 .. Len(kept)
        PROVE  /\ kept[i] \in CheckConfig
               /\ results[kept[i].name] = Effective(kept[i], raw[kept[i].name])
    <3>1. kept[i] \in ToSet(kept) BY <1>2 DEF ToSet
    <3>2. kept[i] \in ToSet(config.checks) /\ type \in kept[i].types
      BY <3>1, ChecksForElements
    <3>3. results[kept[i].name] = Effective(kept[i], raw[kept[i].name])
      BY <3>2, ResultOfCheck
    <3> HIDE DEF kept, results
    <3>4. QED BY <1>2, <3>3
  <2> HIDE DEF kept, results
  <2>2. QED BY <2>1
<1>4. hits = {i \in DOMAIN config.checks :
                type \in config.checks[i].types /\ config.checks[i] \in K}
  <2>1. \A i \in DOMAIN config.checks : config.checks[i] \in CheckConfig OBVIOUS
  <2>2. QED BY <2>1 DEF Hits
<1>5. \/ hits = {} /\ \A j \in DOMAIN kept : kept[j] \notin K
      \/ \E i \in hits :
           /\ \A h \in hits : i <= h
           /\ Leads(kept, config.checks[i], K)
  BY <1>4, ChecksForKeepsOrder
<1> HIDE DEF kept, results, K, I, hits
<1>6. CASE hits = {} /\ \A j \in DOMAIN kept : kept[j] \notin K
  <2>1. I = {} BY <1>2, <1>3, <1>6
  <2>2. QED BY <1>1, <1>6, <2>1 DEF kept, results, hits
<1>7. CASE \E i \in hits : (\A h \in hits : i <= h) /\ Leads(kept, config.checks[i], K)
  <2>1. PICK i \in hits : (\A h \in hits : i <= h) /\ Leads(kept, config.checks[i], K)
    BY <1>7
  <2>2. PICK j \in DOMAIN kept :
          kept[j] = config.checks[i] /\ \A k \in 1 .. j - 1 : kept[k] \notin K
    BY <2>1 DEF Leads
  <2>3. Min(hits) = i
    <3>1. hits \in SUBSET Nat BY <1>4
    <3>2. QED BY <2>1, <3>1, MinOf
  <2>4. Min(I) = j /\ I # {} /\ j # 0
    <3>1. I \in SUBSET Nat /\ j \in 1 .. Len(kept) BY <1>2, <1>3
    <3>2. config.checks[i] \in K BY <1>4
    <3>3. j \in I BY <1>3, <2>2, <3>1, <3>2
    <3>4. \A k \in I : j <= k
      <4>1. ASSUME NEW k \in I, k < j PROVE FALSE
        <5>1. k \in 1 .. j - 1 /\ kept[k] \in K BY <1>2, <1>3, <3>1, <4>1
        <5>2. QED BY <2>2, <5>1
      <4>2. \A k \in I : k \in Nat BY <1>2, <1>3
      <4>3. QED BY <3>1, <4>1, <4>2
    <3>5. QED BY <3>1, <3>3, <3>4, MinOf
  <2>5. QED BY <1>1, <2>2, <2>3, <2>4 DEF kept, results, hits
<1>8. QED BY <1>5, <1>6, <1>7

-----------------------------------------------------------------------------
\* What no assignment reaches is as the constructor was given it.
CopyOfGiven(config) ==
  /\ config \in HealthkitConfig
  /\ config.output = given.output
  /\ config.defaults.timeout = given.defaults.timeout
  /\ DOMAIN config.checks = DOMAIN given.checks
  /\ \A i \in DOMAIN given.checks : \A p \in {"name", "types", "timeout", "interval"} :
       config.checks[i][p] = given.checks[i][p]

\* The answer to a request, which is of the fetch handler or of the kit.
Respond(config, t) ==
  IF t.request.fetch THEN FetchHandler(config, t.request, t.results)
  ELSE HandleRequest(config, t.request, t.results)

\* The inductive invariant: the kit, and the kit that answered, are such copies
\* of a configuration that is valid, and the answer is the one to its request.
AnswersIInv ==
  /\ given \in Given
  /\ HasKit => ValidConfig(given) /\ CopyOfGiven(TheKit)
  /\ answered # << >> =>
       /\ ValidConfig(given) /\ CopyOfGiven(answered[1].config)
       /\ \E t \in Traffic(given) :
            /\ answered[1].request = t.request /\ answered[1].raw = t.results
            /\ answered[1].response = Respond(answered[1].config, t)

\* An assignment to a check reaches its codes and treatAs, and no more.
LEMMA AssignedCheck ==
  ASSUME NEW check \in CheckConfig, NEW other \in CheckConfig
  PROVE  /\ Assigned(check, other) \in CheckConfig
         /\ \A p \in {"name", "types", "timeout", "interval"} :
              Assigned(check, other)[p] = check[p]
  BY DEF Assigned, Shared, CheckConfig

\* So it is with the defaults.
LEMMA AssignedDefaults ==
  ASSUME NEW defaults \in DefaultsConfig, NEW other \in DefaultsConfig
  PROVE  /\ Assigned(defaults, other) \in DefaultsConfig
         /\ Assigned(defaults, other).timeout = defaults.timeout
  BY DEF Assigned, Shared, DefaultsConfig

\* The output has nothing it reaches.
LEMMA OutputUnassigned ==
  ASSUME NEW output \in OutputConfig, NEW other
  PROVE  Assigned(output, other) = output
<1>1. DOMAIN output \cap Shared = {} BY DEF OutputConfig, Shared
<1>2. Assigned(output, other) = [p \in DOMAIN output |-> output[p]]
  BY <1>1 DEF Assigned
<1>3. output = [p \in DOMAIN output |-> output[p]] BY DEF OutputConfig
<1>4. QED BY <1>2, <1>3

LEMMA AlterInv == ASSUME AnswersIInv, Alter PROVE AnswersIInv'
<1>0. PICK other \in Other : \E rollup \in {TheKit.rollup, other.rollup} :
        /\ Len(other.checks) = Len(TheKit.checks)
        /\ kit' = <<[TheKit EXCEPT
             !.defaults = Assigned(@, other.defaults),
             !.output   = Assigned(@, other.output),
             !.checks   = [i \in DOMAIN @ |-> Assigned(@[i], other.checks[i])],
             !.rollup   = rollup]>>
  BY DEF Alter
<1>1. PICK rollup \in {TheKit.rollup, other.rollup} :
        /\ Len(other.checks) = Len(TheKit.checks)
        /\ kit' = <<[TheKit EXCEPT
             !.defaults = Assigned(@, other.defaults),
             !.output   = Assigned(@, other.output),
             !.checks   = [i \in DOMAIN @ |-> Assigned(@[i], other.checks[i])],
             !.rollup   = rollup]>>
  BY <1>0
<1>2. HasKit /\ UNCHANGED <<given, answered>> /\ CopyOfGiven(TheKit) /\ ValidConfig(given)
  BY DEF Alter, AnswersIInv
<1> DEFINE K == TheKit
           C == [i \in DOMAIN K.checks |-> Assigned(K.checks[i], other.checks[i])]
<1>3. /\ K.defaults \in DefaultsConfig /\ K.checks \in Seq(CheckConfig)
      /\ rollup \in Status \cup {Unset} /\ K.output \in OutputConfig
      /\ K = [defaults |-> K.defaults, checks |-> K.checks, rollup |-> K.rollup,
              output |-> K.output]
      /\ other.defaults \in DefaultsConfig /\ other.checks \in Seq(CheckConfig)
  BY <1>2, AnswersAssumption DEF CopyOfGiven, HealthkitConfig
<1>4. HasKit' /\ TheKit' = [defaults |-> Assigned(K.defaults, other.defaults),
                            checks |-> C, rollup |-> rollup,
                            output |-> Assigned(K.output, other.output)]
  BY <1>1, <1>3 DEF HasKit, TheKit
<1>5. Assigned(K.output, other.output) = K.output
  BY <1>3, OutputUnassigned
<1>6. /\ Assigned(K.defaults, other.defaults) \in DefaultsConfig
      /\ Assigned(K.defaults, other.defaults).timeout = K.defaults.timeout
  BY <1>3, AssignedDefaults
<1>7. ASSUME NEW i \in DOMAIN K.checks
      PROVE  /\ C[i] \in CheckConfig
             /\ \A p \in {"name", "types", "timeout", "interval"} : C[i][p] = K.checks[i][p]
  <2>1. K.checks[i] \in CheckConfig /\ other.checks[i] \in CheckConfig
    BY <1>1, <1>3
  <2>2. QED BY <2>1, AssignedCheck
<1>8. C \in Seq(CheckConfig) /\ DOMAIN C = DOMAIN K.checks
  <2>1. DOMAIN K.checks = 1 .. Len(K.checks) /\ Len(K.checks) \in Nat BY <1>3
  <2>2. C \in [1 .. Len(K.checks) -> CheckConfig] BY <1>7, <2>1
  <2> HIDE DEF C
  <2>3. QED BY <2>1, <2>2
<1> HIDE DEF C
<1>9. CopyOfGiven(TheKit)'
  <2>1. TheKit' \in HealthkitConfig BY <1>3, <1>4, <1>5, <1>6, <1>8 DEF HealthkitConfig
  <2>2. /\ TheKit'.output = K.output
        /\ TheKit'.defaults.timeout = K.defaults.timeout
        /\ TheKit'.checks = C
    BY <1>4, <1>5, <1>6
  <2>3. QED BY <1>2, <1>7, <1>8, <2>1, <2>2 DEF CopyOfGiven
<1>10. QED BY <1>2, <1>4, <1>9 DEF AnswersIInv, CopyOfGiven, ValidConfig, Respond

LEMMA AnswersStepInv == AnswersIInv /\ [AnswersNext]_vars => AnswersIInv'
<1> SUFFICES ASSUME AnswersIInv, [AnswersNext]_vars PROVE AnswersIInv'
  OBVIOUS
<1>1. CASE Construct
  <2>1. /\ given' = given /\ answered' = answered /\ HasKit' /\ TheKit' = given
        /\ ValidConfig(given)
    BY <1>1 DEF Construct, HasKit, TheKit
  <2>2. CopyOfGiven(given)
    BY AnswersAssumption DEF AnswersIInv, CopyOfGiven
  <2>3. QED BY <2>1, <2>2 DEF AnswersIInv, CopyOfGiven, ValidConfig
<1>2. CASE Alter
  BY <1>2, AlterInv
<1>3. CASE Answer
  <2>1. PICK t \in Traffic(given) :
          answered' = <<[request  |-> t.request,
                         raw      |-> t.results,
                         config   |-> TheKit,
                         response |-> IF t.request.fetch
                                      THEN FetchHandler(TheKit, t.request, t.results)
                                      ELSE HandleRequest(TheKit, t.request, t.results)]>>
    BY <1>3 DEF Answer
  <2>2. HasKit /\ UNCHANGED <<given, kit>> BY <1>3 DEF Answer
  <2>3. /\ answered'[1].config = TheKit /\ answered'[1].request = t.request
        /\ answered'[1].raw = t.results
        /\ answered'[1].response = Respond(TheKit, t)
    BY <2>1 DEF Respond
  <2>4. CopyOfGiven(TheKit) /\ ValidConfig(given) BY <2>2 DEF AnswersIInv
  <2>5. QED BY <2>2, <2>3, <2>4 DEF AnswersIInv, CopyOfGiven, HasKit, TheKit
<1>4. CASE UNCHANGED vars
  BY <1>4 DEF vars, AnswersIInv, CopyOfGiven, HasKit, TheKit
<1>5. QED BY <1>1, <1>2, <1>3, <1>4 DEF AnswersNext

\* The configuration of a kit, and of the kit that answered, stays a copy of a
\* valid one but for its status codes, treatAs and rollup, whatever the
\* application assigns to the objects it gave (the constructor of HealthKit).
THEOREM ConfigInvariant == AnswersSpec => []AnswersIInv
<1>1. AnswersInit => AnswersIInv
  BY DEF AnswersInit, AnswersIInv, HasKit
<1>2. QED BY <1>1, AnswersStepInv, PTL DEF AnswersSpec

-----------------------------------------------------------------------------
\* A delay that passes validation is one the runtime keeps to.
LEMMA ValidTimerRuns ==
  ASSUME NEW value \in Int, ValidTimer(value)
  PROVE  Runs(value) = value
  BY AnswersAssumption DEF ValidTimer, Runs

\* The kit asks the runtime for the delays it was given, and the runtime keeps
\* to each of them.
THEOREM TimersTheorem == AnswersSpec => []TimersRunAsConfigured
<1>1. AnswersIInv => TimersRunAsConfigured
  <2> SUFFICES ASSUME AnswersIInv, HasKit, NEW i \in DOMAIN given.checks
               PROVE  /\ Runs(Timeout(TheKit, TheKit.checks[i]))
                           = Timeout(given, given.checks[i])
                      /\ given.checks[i].interval # Unset =>
                           Runs(TheKit.checks[i].interval) = given.checks[i].interval
    BY DEF TimersRunAsConfigured
  <2>0. /\ ValidConfig(given) /\ given \in HealthkitConfig
        /\ TheKit.defaults.timeout = given.defaults.timeout
        /\ TheKit.checks[i].timeout = given.checks[i].timeout
        /\ TheKit.checks[i].interval = given.checks[i].interval
    BY AnswersAssumption DEF AnswersIInv, CopyOfGiven
  <2>1. ASSUME NEW value \in Delay, value # Unset, value \in SetTimers(given)
        PROVE  Runs(value) = value
    BY <2>0, <2>1, ValidTimerRuns DEF ValidConfig, ValidTimer, Delay
  <2>2. /\ given.defaults.timeout \in SetTimers(given) \cap Delay
        /\ given.checks[i].timeout \in SetTimers(given) \cap Delay
        /\ given.checks[i].interval \in SetTimers(given) \cap Delay
    <3>1. given.checks[i] \in ToSet(given.checks)
      BY DEF ToSet
    <3>2. given.checks[i] \in CheckConfig /\ given.defaults \in DefaultsConfig
      BY <2>0 DEF HealthkitConfig
    <3>3. /\ given.checks[i].timeout \in Delay /\ given.checks[i].interval \in Delay
          /\ given.defaults.timeout \in Delay
      BY <3>2 DEF CheckConfig, DefaultsConfig
    <3>4. QED BY <3>1, <3>3 DEF SetTimers
  <2>3. Runs(2 * DefaultTimer) = 2 * DefaultTimer
    BY AnswersAssumption, ValidTimerRuns DEF ValidTimer
  <2>4. given.checks[i].interval # Unset =>
          Runs(TheKit.checks[i].interval) = given.checks[i].interval
    BY <2>0, <2>1, <2>2
  <2>5. Timeout(TheKit, TheKit.checks[i]) = Timeout(given, given.checks[i])
    BY <2>0 DEF Timeout, Or
  <2>6. Runs(Timeout(given, given.checks[i])) = Timeout(given, given.checks[i])
    BY <2>1, <2>2, <2>3 DEF Timeout, Or
  <2>7. QED BY <2>4, <2>5, <2>6
<1>2. QED BY <1>1, ConfigInvariant, PTL

-----------------------------------------------------------------------------
\* The status a probe is answered with.
Overall(config, results, drained) == IF drained THEN "fail" ELSE Rollup(config, results)

\* A probe is answered with what its checks were found to be, or drained.
LEMMA ProbeIsRun ==
  ASSUME NEW config, NEW t, Respond(config, t).body.kind \in {"status", "full"}
  PROVE  LET type     == Route[t.request.path]
             drained  == t.request.draining /\ t.request.path = "ready"
             results  == IF drained THEN NoNodes ELSE Results(config, type, t.results)
             overall  == Overall(config, results, drained)
             response == Respond(config, t)
         IN  /\ response.body = FormatResponse(overall, results, config.output)
             /\ response.code =
                  IF drained THEN 503
                  ELSE ResolveHttpStatus(config, ChecksFor(config, type), results, overall)
<1> DEFINE request == t.request
           raw == t.results
           response == Respond(config, t)
           type == Route[request.path]
           run == RunForType(config, type, request.draining, raw)
<1>1. Empty.kind = "empty" /\ NotMine.body = Empty /\ NotRead.body = Empty
        /\ Rejected.body.kind = "thrown"
  BY DEF Empty, NotMine, NotRead, Rejected
<1>2. response = HandleRequest(config, request, raw)
  BY <1>1 DEF FetchHandler, Respond
<1>3. response = run /\ MatchHealthPath(request.path)
  <2>1. \/ response \in {NotMine, NotRead, Rejected}
        \/ response = run /\ MatchHealthPath(request.path)
        \/ response = [run EXCEPT !.body = Empty] /\ run # Rejected
    BY <1>2 DEF HandleRequest, Rejected
  <2>2. CASE response = [run EXCEPT !.body = Empty] /\ run # Rejected
    <3>1. "body" \in DOMAIN run
      BY <2>2 DEF RunForType, Rejected
    <3>2. response.body = Empty
      BY <2>2, <3>1
    <3>3. QED BY <1>1, <3>2
  <2> HIDE DEF run, response
  <2>3. QED BY <1>1, <2>1, <2>2 DEF response
<1>4. type = "readiness" <=> request.path = "ready"
  BY <1>3 DEF Route, MatchHealthPath
<1>5. run # Rejected BY <1>1, <1>3
<1>6. QED BY <1>3, <1>4, <1>5 DEF RunForType, Overall

\* The body of a response, of the kinds that a probe has.
LEMMA FormatShows ==
  ASSUME NEW overall, NEW results, NEW output, NEW body,
         body = FormatResponse(overall, results, output), body.kind \in {"status", "full"}
  PROVE  /\ body.status = overall
         /\ DOMAIN body.checks \subseteq DOMAIN results
         /\ output.detail = "status" => DOMAIN body.checks = {}
         /\ \A n \in DOMAIN body.checks :
              /\ body.checks[n].error => output.error
              /\ output.metadata = "none" => body.checks[n].metadata = NoNodes
              /\ output.metadata = "listed" /\ output.format = "json" =>
                   body.checks[n].metadata = AllowMetadata(results[n].metadata, output.pointers)
<1>1. DOMAIN NoNodes = {} BY DEF NoNodes
<1> DEFINE checks == [n \in DOMAIN results |-> RedactResult(results[n], output)]
           text   == [n \in DOMAIN checks |-> [checks[n] EXCEPT !.metadata = NoNodes]]
<1>2. /\ body.status = overall
      /\ \/ output.detail = "status" /\ body.checks = NoNodes
         \/ output.detail # "status" /\ output.format = "text" /\ body.checks = text
         \/ output.detail # "status" /\ output.format # "text" /\ body.checks = checks
  BY DEF FormatResponse, StatusBody
<1>3. ASSUME NEW n \in DOMAIN results
      PROVE  /\ checks[n].error => output.error
             /\ output.metadata = "none" => checks[n].metadata = NoNodes
             /\ output.metadata = "listed" =>
                  checks[n].metadata = AllowMetadata(results[n].metadata, output.pointers)
             /\ text[n].error = checks[n].error /\ text[n].metadata = NoNodes
  BY DEF RedactResult, PublicMetadata
<1>4. DOMAIN checks = DOMAIN results /\ DOMAIN text = DOMAIN results
  OBVIOUS
<1> HIDE DEF checks, text
<1>5. QED BY <1>1, <1>2, <1>3, <1>4

\* The code of a probe that is not drained is decided by its worst checks: the
\* first failing one that has a code, then a failing rollup, then the first
\* degraded one that has a code (resolveHttpStatus), whatever the kit lists.
THEOREM DecidedByWorstTheorem == AnswersSpec => []DecidedByWorst
<1>1. AnswersIInv => DecidedByWorst
  <2> SUFFICES ASSUME AnswersIInv, Probe(FALSE) PROVE DecidedByWorst
    BY DEF DecidedByWorst
  <2> DEFINE a       == answered[1]
             config  == a.config
             type    == Route[a.request.path]
             results == Results(config, type, a.raw)
             kept    == ChecksFor(config, type)
             overall == Rollup(config, results)
             fails   == Hits(config, type, a.raw, "fail", "onFail")
             slows   == Hits(config, type, a.raw, "degraded", "onDegraded")
  <2>1. /\ answered # << >> /\ a.response.body.kind \in {"status", "full"}
        /\ ~(a.request.draining /\ a.request.path = "ready")
    BY DEF Probe
  <2>2. PICK t \in Traffic(given) :
          a.request = t.request /\ a.raw = t.results /\ a.response = Respond(config, t)
    BY <2>1 DEF AnswersIInv
  <2>3. /\ config \in HealthkitConfig /\ ValidConfig(given) /\ CopyOfGiven(config)
        /\ config.checks \in Seq(CheckConfig)
    BY <2>1 DEF AnswersIInv, CopyOfGiven, HealthkitConfig
  <2>4. NamesDiffer(config)
    <3>1. \A i \in DOMAIN given.checks : config.checks[i].name = given.checks[i].name
      BY <2>3 DEF CopyOfGiven
    <3>2. [i \in DOMAIN config.checks |-> config.checks[i].name]
            = [i \in DOMAIN given.checks |-> given.checks[i].name]
      BY <2>3, <3>1 DEF CopyOfGiven
    <3>3. QED BY <2>3, <3>2 DEF NamesDiffer, ValidConfig
  <2>5. /\ a.response.body.status = overall
        /\ a.response.code = ResolveHttpStatus(config, kept, results, overall)
    <3>1. /\ a.response.body = FormatResponse(overall, results, config.output)
          /\ a.response.code = ResolveHttpStatus(config, kept, results, overall)
      BY <2>1, <2>2, ProbeIsRun DEF Overall
    <3>2. QED BY <2>1, <3>1, FormatShows
  <2>6. /\ fails = {} => First(kept, results, "fail", "onFail") = 0
        /\ fails # {} => /\ First(kept, results, "fail", "onFail") # 0
                         /\ kept[First(kept, results, "fail", "onFail")]
                              = config.checks[Min(fails)]
    BY <2>3, <2>4, FirstIsFirst
  <2>7. /\ slows = {} => First(kept, results, "degraded", "onDegraded") = 0
        /\ slows # {} => /\ First(kept, results, "degraded", "onDegraded") # 0
                         /\ kept[First(kept, results, "degraded", "onDegraded")]
                              = config.checks[Min(slows)]
    BY <2>3, <2>4, FirstIsFirst
  <2>8. ASSUME config.rollup = Unset, NEW i \in DOMAIN config.checks,
               type \in config.checks[i].types,
               Effective(config.checks[i], a.raw[config.checks[i].name]).status = "fail"
        PROVE  overall = "fail"
    <3>1. PICK c \in ToSet(config.checks) : c = config.checks[i]
      BY DEF ToSet
    <3>2. c.name \in DOMAIN results /\ results[c.name] = Effective(c, a.raw[c.name])
      <4> HIDE DEF type, config
      <4>1. type \in c.types BY <2>8, <3>1
      <4>2. config.checks \in Seq(CheckConfig) BY <2>3
      <4>3. QED BY <2>4, <4>1, <4>2, ResultOfCheck
    <3> HIDE DEF results
    <3>3. QED BY <2>8, <3>1, <3>2 DEF Rollup
  <2>9. LET mine == {i \in DOMAIN config.checks : type \in config.checks[i].types}
            is(i) == Effective(config.checks[i], a.raw[config.checks[i].name]).status
        IN  /\ fails = {i \in mine : is(i) = "fail" /\ config.checks[i].onFail # Unset}
            /\ slows = {i \in mine : is(i) = "degraded" /\ config.checks[i].onDegraded # Unset}
    BY DEF Hits
  <2> HIDE DEF results, kept, fails, slows
  <2>10. /\ fails # {} => a.response.code = config.checks[Min(fails)].onFail
         /\ fails = {} /\ overall = "fail" =>
              a.response.code = Or(config.defaults.onFail, 503)
         /\ fails = {} /\ overall = "degraded" =>
              a.response.code = IF slows # {} THEN config.checks[Min(slows)].onDegraded
                                ELSE Or(config.defaults.onDegraded, 200)
         /\ fails = {} /\ overall = "ok" => a.response.code = 200
    BY <2>5, <2>6, <2>7 DEF ResolveHttpStatus, DefaultCode
  <2> HIDE DEF overall
  <2>11. QED BY <2>5, <2>8, <2>9, <2>10 DEF DecidedByWorst
<1>2. QED BY <1>1, ConfigInvariant, PTL

\* What a response shows is settled by the configuration that was given: no
\* error, check or metadata that is hidden, and of listed metadata exactly the
\* permitted leaves, in any order and number of pointers (formatter/redact.ts).
THEOREM ExposesAsGivenTheorem == AnswersSpec => []ExposesAsGiven
<1>1. AnswersIInv => ExposesAsGiven
  <2> SUFFICES ASSUME AnswersIInv, Probe(FALSE) \/ Probe(TRUE) PROVE ExposesAsGiven
    BY DEF ExposesAsGiven
  <2> DEFINE a       == answered[1]
             config  == a.config
             type    == Route[a.request.path]
             drained == a.request.draining /\ a.request.path = "ready"
             output  == given.output
             shown   == a.response.body.checks
             results == IF drained THEN NoNodes ELSE Results(config, type, a.raw)
  <2>1. answered # << >> /\ a.response.body.kind \in {"status", "full"}
    BY DEF Probe
  <2>2. PICK t \in Traffic(given) :
          a.request = t.request /\ a.raw = t.results /\ a.response = Respond(config, t)
    BY <2>1 DEF AnswersIInv
  <2>3. /\ ValidConfig(given) /\ CopyOfGiven(config) /\ config.output = output
        /\ config.checks \in Seq(CheckConfig) /\ output.pointers \in Seq(Seq(STRING))
    <3>1. config \in HealthkitConfig /\ config.output = output
      BY <2>1 DEF AnswersIInv, CopyOfGiven
    <3>2. config.checks \in Seq(CheckConfig) /\ config.output \in OutputConfig
      BY <3>1 DEF HealthkitConfig
    <3>3. config.output.pointers \in Seq(Seq(STRING)) BY <3>2 DEF OutputConfig
    <3>4. QED BY <2>1, <3>1, <3>2, <3>3 DEF AnswersIInv
  <2>4. /\ DOMAIN shown \subseteq DOMAIN results
        /\ output.detail = "status" => DOMAIN shown = {}
        /\ \A n \in DOMAIN shown :
             /\ shown[n].error => output.error
             /\ output.metadata = "none" => shown[n].metadata = NoNodes
             /\ output.metadata = "listed" /\ output.format = "json" =>
                  shown[n].metadata = AllowMetadata(results[n].metadata, output.pointers)
    <3>1. a.response.body = FormatResponse(Overall(config, results, drained), results, output)
      BY <2>1, <2>2, <2>3, ProbeIsRun
    <3> HIDE DEF results
    <3>2. QED BY <2>1, <3>1, FormatShows
  <2>5. Probe(TRUE) => DOMAIN shown = {}
    <3>1. Probe(TRUE) => results = NoNodes BY DEF Probe
    <3>2. DOMAIN NoNodes = {} BY DEF NoNodes
    <3> HIDE DEF results
    <3>3. QED BY <2>4, <3>1, <3>2
  <2>6. ASSUME NEW n \in DOMAIN shown
        PROVE  /\ results[n].metadata = a.raw[n].metadata
               /\ DOMAIN a.raw[n].metadata \subseteq Seq(STRING)
    <3>1. n \in DOMAIN Results(config, type, a.raw) /\ results = Results(config, type, a.raw)
      <4>1. DOMAIN NoNodes = {} BY DEF NoNodes
      <4>2. QED BY <2>4, <4>1
    <3>2. PICK check \in ToSet(ChecksFor(config, type)) :
            results[n] = Effective(check, a.raw[n])
      BY <3>1 DEF Results
    <3>3. n \in {c.name : c \in ToSet(config.checks)}
      <4>1. n \in {c.name : c \in ToSet(ChecksFor(config, type))}
        BY <3>1 DEF Results
      <4>2. QED BY <2>3, <4>1, ChecksForElements
    <3>4. n \in {c.name : c \in ToSet(given.checks)}
      <4>1. PICK i \in DOMAIN config.checks : n = config.checks[i].name
        BY <3>3 DEF ToSet
      <4>2. i \in DOMAIN given.checks /\ n = given.checks[i].name
        BY <2>3, <4>1 DEF CopyOfGiven
      <4>3. QED BY <4>2 DEF ToSet
    <3>5. IsResult(a.raw[n])
      BY <2>2, <3>4, AnswersAssumption DEF AnswersIInv
    <3>6. results[n].metadata = a.raw[n].metadata
      BY <3>2, <3>5 DEF Effective, IsResult
    <3>7. QED BY <3>5, <3>6 DEF IsResult
  <2> DEFINE used == {p \in ToSet(output.pointers) :
                        p # << >> /\ ToSet(p) \cap ForbiddenKeys = {}}
             trapped(m) == \E p \in used : \E q \in DOMAIN m :
                             m[q] = "trap" /\ IsStrictPrefix(q, p)
  <2>7. ASSUME NEW m, DOMAIN m \subseteq Seq(STRING)
        PROVE  Leaves(AllowMetadata(m, output.pointers))
                 = IF trapped(m) THEN {} ELSE used \cap Leaves(m)
    <3>1. used = {p \in ToSet(output.pointers) : ~Ignored(p)}
      BY DEF Ignored
    <3>2. \A p \in ToSet(output.pointers) : p \in Seq(STRING)
      BY <2>3 DEF ToSet
    <3>3. trapped(m) <=> \E p \in ToSet(output.pointers) : ~Ignored(p) /\ Throws(m, p)
      <4> HIDE DEF used
      <4>1. QED BY <2>7, <3>1, <3>2, ThrowsIsTrapped
    <3>4. used \cap Leaves(m) = {p \in ToSet(output.pointers) : Permitted(m, p)}
      BY <3>1 DEF Permitted
    <3> HIDE DEF used, trapped
    <3>5. QED BY <2>3, <3>3, <3>4, AllowedLeaves
  <2> HIDE DEF results
  <2>8. ASSUME NEW n \in DOMAIN shown, output.metadata = "listed", output.format = "json"
        PROVE  Leaves(shown[n].metadata)
                 = IF trapped(a.raw[n].metadata) THEN {} ELSE used \cap Leaves(a.raw[n].metadata)
    <3> HIDE DEF used, trapped, shown
    <3>1. shown[n].metadata = AllowMetadata(a.raw[n].metadata, output.pointers)
      BY <2>4, <2>6, <2>8
    <3>2. QED BY <2>6, <2>7, <3>1
  <2>9. QED BY <2>4, <2>5, <2>8 DEF ExposesAsGiven, Leaves
<1>2. QED BY <1>1, ConfigInvariant, PTL
=============================================================================
