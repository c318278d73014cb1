---------------------------- MODULE LogRingProofs ----------------------------
(***************************************************************************)
(* The ring, its index and its aggregates, for any number of hosts, any    *)
(* cap and retention, batches of any length and any number of I/O errors,  *)
(* restarts and changes of the clock.                                      *)
(*                                                                         *)
(* What insert and prune do is folded over a batch and summed over sets of *)
(* entries.  Both are followed by induction, stated on sets of naturals:   *)
(* a set with zero in it, and with each number the next, is all of them.   *)
(***************************************************************************)
EXTENDS LogRing, TLAPS, FiniteSetTheorems, WellFoundedInduction

-----------------------------------------------------------------------------
(* Numbers and finite sets. *)

LEMMA Least ==
  ASSUME NEW T \in SUBSET Nat, T # {}
  PROVE  \E x \in T : \A y \in T : x <= y
<1>1. PICK x \in T : \A y \in T : ~ (<<y, x>> \in OpToRel(<, Nat))
  BY NatLessThanWellFounded, WFMin
<1>2. \A y \in T : ~ (y < x)
  BY <1>1 DEF OpToRel
<1> QED
  BY <1>2

LEMMA Induction ==
  ASSUME NEW T \in SUBSET Nat, 0 \in T, \A n \in T : n + 1 \in T
  PROVE  T = Nat
<1> SUFFICES ASSUME Nat \ T # {} PROVE FALSE
  OBVIOUS
<1>1. PICK n \in Nat \ T : \A y \in Nat \ T : n <= y
  BY Least
<1>2. n # 0 /\ n - 1 \in Nat /\ n - 1 \notin Nat \ T
  BY <1>1
<1> QED
  BY <1>1, <1>2

LEMMA MaxOfTwo ==
  ASSUME NEW a \in Int, NEW b \in Int
  PROVE  Max({a, b}) = IF a >= b THEN a ELSE b
<1> DEFINE m == IF a >= b THEN a ELSE b
<1>1. m \in {a, b} /\ \A y \in {a, b} : m >= y
  OBVIOUS
<1>2. \A x \in {a, b} : (\A y \in {a, b} : x >= y) => x = m
  OBVIOUS
<1> HIDE DEF m
<1>3. Max({a, b}) = m
  BY <1>1, <1>2 DEF Max
<1> QED
  BY <1>3 DEF m

LEMMA LessType ==
  ASSUME NEW n \in Nat, NEW k \in Nat
  PROVE  /\ Less(n, k) \in Nat
         /\ k <= n => Less(n, k) = n - k
BY MaxOfTwo DEF Less

-----------------------------------------------------------------------------
(* Sums over a set of entries. *)

\* The counts of finitely many entries.
Countable(r, V) == IsFiniteSet(V) /\ \A s \in V : r.events[s].count \in Nat

Pick(V) == CHOOSE x \in V : TRUE

IsSum(f, r, V) ==
  f = [W \in SUBSET V |-> IF W = {} THEN 0 ELSE r.events[Pick(W)].count + f[W \ {Pick(W)}]]

\* The recursion that adds up the counts of V has a solution, which CountOf takes.
LEMMA CountOfIsSum ==
  ASSUME NEW r, NEW V, Countable(r, V)
  PROVE  \E f : IsSum(f, r, V) /\ CountOf(r, V) = f[V]
<1> DEFINE UpTo(n) == {W \in SUBSET V : Cardinality(W) <= n}
           Solves(f, n) == f = [W \in UpTo(n) |-> IF W = {} THEN 0
                                 ELSE r.events[Pick(W)].count + f[W \ {Pick(W)}]]
           T == {n \in Nat : \E f : Solves(f, n)}
<1>1. \A W \in SUBSET V : IsFiniteSet(W) /\ Cardinality(W) \in Nat
  BY FS_Subset, FS_CardinalityType DEF Countable
<1>2. \A W \in SUBSET V : W # {} => /\ Pick(W) \in W /\ W \ {Pick(W)} \in SUBSET V
                                    /\ Cardinality(W \ {Pick(W)}) = Cardinality(W) - 1
  BY <1>1, FS_RemoveElement DEF Pick
<1>3. \A W \in SUBSET V : W = {} <=> Cardinality(W) = 0
  BY <1>1, FS_EmptySet
<1> HIDE DEF Pick
<1>4. 0 \in T
  <2>1. \A W \in UpTo(0) : W = {}
    BY <1>1, <1>3
  <2>2. Solves([W \in UpTo(0) |-> 0], 0)
    BY <2>1
  <2> QED
    BY <2>2
<1>5. ASSUME NEW n \in T PROVE n + 1 \in T
  <2>1. PICK f : Solves(f, n)
    BY <1>5
  <2> DEFINE g == [W \in UpTo(n + 1) |-> IF W = {} THEN 0
                     ELSE r.events[Pick(W)].count + f[W \ {Pick(W)}]]
  <2>2. \A W \in UpTo(n + 1) : W # {} => W \ {Pick(W)} \in UpTo(n)
    BY <1>1, <1>2, <1>5
  <2>3. \A W \in UpTo(n) : W \in UpTo(n + 1) /\ f[W] = g[W]
    <3>1. \A W \in UpTo(n) : W \in UpTo(n + 1)
      BY <1>1, <1>5
    <3> QED
      BY <2>1, <3>1
  <2>4. Solves(g, n + 1)
    <3>1. ASSUME NEW W \in UpTo(n + 1)
          PROVE  g[W] = IF W = {} THEN 0 ELSE r.events[Pick(W)].count + g[W \ {Pick(W)}]
      BY <2>2, <2>3
    <3> HIDE DEF UpTo
    <3> QED
      BY <3>1
  <2> HIDE DEF Solves, g
  <2> QED
    BY <1>5, <2>4
<1>6. Cardinality(V) \in T
  BY <1>1, <1>4, <1>5, Induction
<1>7. UpTo(Cardinality(V)) = SUBSET V
  <2>1. \A W \in SUBSET V : Cardinality(W) <= Cardinality(V)
    BY FS_Subset DEF Countable
  <2> QED
    BY <2>1
<1>8. \E f : IsSum(f, r, V)
  <2> HIDE DEF UpTo
  <2> QED
    BY <1>6, <1>7 DEF IsSum
<1> DEFINE iter == CHOOSE f : IsSum(f, r, V)
<1>9. IsSum(iter, r, V)
  BY <1>8
<1>10. CountOf(r, V) = iter[V]
  BY DEF CountOf, MapThenSumSet, MapThenFoldSet, IsSum, Pick
<1> QED
  BY <1>9, <1>10

LEMMA Parts ==
  ASSUME NEW r, NEW V, Countable(r, V), NEW W \in SUBSET V
  PROVE  /\ Countable(r, W) /\ Cardinality(W) \in Nat /\ (W = {} <=> Cardinality(W) = 0)
         /\ W # {} => Pick(W) \in W
         /\ \A x \in W : Cardinality(W \ {x}) = Cardinality(W) - 1 /\ Countable(r, W \ {x})
<1>1. IsFiniteSet(W) /\ Cardinality(W) \in Nat /\ (W = {} <=> Cardinality(W) = 0)
  BY FS_Subset, FS_CardinalityType, FS_EmptySet DEF Countable
<1>2. \A x \in W : Cardinality(W \ {x}) = Cardinality(W) - 1 /\ IsFiniteSet(W \ {x})
  BY <1>1, FS_RemoveElement
<1>3. W # {} => Pick(W) \in W
  BY DEF Pick
<1> QED
  BY <1>1, <1>2, <1>3 DEF Countable

LEMMA SumType ==
  ASSUME NEW r, NEW V, Countable(r, V), NEW f, IsSum(f, r, V)
  PROVE  \A W \in SUBSET V : f[W] \in Nat
<1> DEFINE T == {n \in Nat : \A W \in SUBSET V : Cardinality(W) = n => f[W] \in Nat}
<1>1. \A W \in SUBSET V : f[W] = IF W = {} THEN 0 ELSE r.events[Pick(W)].count + f[W \ {Pick(W)}]
  BY DEF IsSum
<1>2. 0 \in T
  <2>1. \A W \in SUBSET V : Cardinality(W) = 0 => W = {}
    BY Parts
  <2>2. f[{}] = 0
    BY <1>1
  <2> QED
    BY <2>1, <2>2
<1>3. ASSUME NEW n \in T PROVE n + 1 \in T
  <2> SUFFICES ASSUME NEW W \in SUBSET V, Cardinality(W) = n + 1
               PROVE  f[W] \in Nat
    BY <1>3
  <2> DEFINE p == Pick(W)
  <2>1. W # {} /\ p \in W /\ n \in Nat
    BY <1>3, Parts
  <2>2. f[W] = r.events[p].count + f[W \ {p}]
    BY <1>1, <2>1
  <2>3. W \ {p} \in SUBSET V /\ Cardinality(W \ {p}) = n
    BY <2>1, Parts
  <2>4. r.events[p].count \in Nat
    BY <2>1 DEF Countable
  <2> HIDE DEF p
  <2> QED
    BY <1>3, <2>2, <2>3, <2>4
<1>4. T = Nat
  BY <1>2, <1>3, Induction
<1> QED
  BY <1>4, Parts

\* Whichever entry is picked next, a sum is the count of any entry and the sum of the rest.
LEMMA SumWithout ==
  ASSUME NEW r, NEW V, Countable(r, V), NEW f, IsSum(f, r, V)
  PROVE  \A W \in SUBSET V : \A x \in W : f[W] = r.events[x].count + f[W \ {x}]
<1> DEFINE T == {n \in Nat : \A W \in SUBSET V : Cardinality(W) = n =>
                               \A x \in W : f[W] = r.events[x].count + f[W \ {x}]}
<1>1. \A W \in SUBSET V : f[W] = IF W = {} THEN 0 ELSE r.events[Pick(W)].count + f[W \ {Pick(W)}]
  BY DEF IsSum
<1>2. 0 \in T
  <2>1. \A W \in SUBSET V : Cardinality(W) = 0 => W = {}
    BY Parts
  <2> QED
    BY <2>1
<1>3. ASSUME NEW n \in T PROVE n + 1 \in T
  <2> SUFFICES ASSUME NEW W \in SUBSET V, Cardinality(W) = n + 1, NEW x \in W
               PROVE  f[W] = r.events[x].count + f[W \ {x}]
    BY <1>3
  <2> DEFINE p == Pick(W)
  <2>1. p \in W /\ n \in Nat
    BY <1>3, Parts
  <2>2. f[W] = r.events[p].count + f[W \ {p}]
    BY <1>1, <2>1
  <2>3. /\ W \ {x} \in SUBSET V /\ Cardinality(W \ {x}) = n
        /\ W \ {p} \in SUBSET V /\ Cardinality(W \ {p}) = n
    BY <1>3, <2>1, Parts
  <2>4. /\ r.events[x].count \in Nat /\ r.events[p].count \in Nat
        /\ f[(W \ {p}) \ {x}] \in Nat
    BY <2>1, SumType DEF Countable
  <2> HIDE DEF p
  <2>5. CASE x = p
    BY <2>2, <2>5
  <2>6. CASE x # p
    <3>1. p \in W \ {x} /\ x \in W \ {p} /\ (W \ {x}) \ {p} = (W \ {p}) \ {x}
      BY <2>1, <2>6
    <3>2. f[W \ {p}] = r.events[x].count + f[(W \ {p}) \ {x}]
      BY <1>3, <2>3, <3>1
    <3>3. f[W \ {x}] = r.events[p].count + f[(W \ {x}) \ {p}]
      BY <1>3, <2>3, <3>1
    <3>4. f[(W \ {x}) \ {p}] = f[(W \ {p}) \ {x}]
      BY <3>1
    <3>5. \A a, b, c \in Nat : a + (b + c) = b + (a + c)
      OBVIOUS
    <3> QED
      BY ONLY <2>2, <2>4, <3>2, <3>3, <3>4, <3>5
  <2> QED
    BY <2>5, <2>6
<1>4. T = Nat
  BY <1>2, <1>3, Induction
<1> QED
  BY <1>4, Parts

\* Two sums agree on the entries whose counts do.
LEMMA SumsAgree ==
  ASSUME NEW r, NEW V, Countable(r, V), NEW f, IsSum(f, r, V),
         NEW q, NEW U, Countable(q, U), NEW g, IsSum(g, q, U)
  PROVE  \A W \in SUBSET (V \cap U) :
           (\A s \in W : r.events[s].count = q.events[s].count) => f[W] = g[W]
<1> DEFINE T == {n \in Nat : \A W \in SUBSET (V \cap U) :
                   Cardinality(W) = n /\ (\A s \in W : r.events[s].count = q.events[s].count)
                   => f[W] = g[W]}
<1>1. 0 \in T
  <2>1. \A W \in SUBSET V : Cardinality(W) = 0 => W = {}
    BY Parts
  <2>2. f[{}] = 0 /\ g[{}] = 0
    BY DEF IsSum
  <2> QED
    BY <2>1, <2>2
<1>2. ASSUME NEW n \in T PROVE n + 1 \in T
  <2> SUFFICES ASSUME NEW W \in SUBSET (V \cap U), Cardinality(W) = n + 1,
                      \A s \in W : r.events[s].count = q.events[s].count
               PROVE  f[W] = g[W]
    BY <1>2
  <2>1. n \in Nat /\ W \in SUBSET V
    BY <1>2
  <2>2. PICK x \in W : TRUE
    BY <2>1, Parts
  <2>3. Cardinality(W \ {x}) = n
    <3>1. Cardinality(W \ {x}) = Cardinality(W) - 1
      BY <2>1, <2>2, Parts
    <3> QED
      BY <2>1, <3>1
  <2>4. f[W \ {x}] = g[W \ {x}]
    BY <1>2, <2>3
  <2>5. f[W] = r.events[x].count + f[W \ {x}] /\ g[W] = q.events[x].count + g[W \ {x}]
    BY <2>2, SumWithout
  <2> QED
    BY <2>2, <2>4, <2>5
<1>3. T = Nat
  BY <1>1, <1>2, Induction
<1> QED
  BY <1>3, Parts

LEMMA CountOfFacts ==
  ASSUME NEW r, NEW V, Countable(r, V)
  PROVE  /\ CountOf(r, V) \in Nat
         /\ V = {} => CountOf(r, V) = 0
         /\ \A x \in V : CountOf(r, V) = r.events[x].count + CountOf(r, V \ {x})
<1>1. PICK f : IsSum(f, r, V) /\ CountOf(r, V) = f[V]
  BY CountOfIsSum
<1>2. CountOf(r, V) \in Nat
  BY <1>1, SumType
<1>3. V = {} => CountOf(r, V) = 0
  BY <1>1 DEF IsSum
<1>4. ASSUME NEW x \in V PROVE CountOf(r, V) = r.events[x].count + CountOf(r, V \ {x})
  <2>1. Countable(r, V \ {x})
    BY Parts
  <2>2. PICK g : IsSum(g, r, V \ {x}) /\ CountOf(r, V \ {x}) = g[V \ {x}]
    BY <2>1, CountOfIsSum
  <2>3. f[V \ {x}] = g[V \ {x}]
    BY <1>1, <2>1, <2>2, SumsAgree
  <2> QED
    BY <1>1, <2>2, <2>3, SumWithout
<1> QED
  BY <1>2, <1>3, <1>4

\* A sum depends on the counts it adds up.
LEMMA CountOfSame ==
  ASSUME NEW r, NEW V, Countable(r, V), NEW q, \A s \in V : q.events[s].count = r.events[s].count
  PROVE  CountOf(q, V) = CountOf(r, V)
<1>1. Countable(q, V)
  BY DEF Countable
<1>2. PICK f : IsSum(f, r, V) /\ CountOf(r, V) = f[V]
  BY CountOfIsSum
<1>3. PICK g : IsSum(g, q, V) /\ CountOf(q, V) = g[V]
  BY <1>1, CountOfIsSum
<1> QED
  BY <1>1, <1>2, <1>3, SumsAgree

\* A sum is what goes and what stays.
LEMMA CountOfSplit ==
  ASSUME NEW r, NEW V, Countable(r, V), NEW G \in SUBSET V
  PROVE  CountOf(r, V) = CountOf(r, G) + CountOf(r, V \ G)
<1> DEFINE T == {n \in Nat : \A W \in SUBSET V : Cardinality(W) = n =>
                               CountOf(r, V) = CountOf(r, W) + CountOf(r, V \ W)}
<1>1. 0 \in T
  <2>1. \A W \in SUBSET V : Cardinality(W) = 0 => W = {} /\ V \ W = V
    BY Parts
  <2>2. CountOf(r, {}) = 0 /\ CountOf(r, V) \in Nat
    <3>1. Countable(r, {})
      BY Parts
    <3> QED
      BY <3>1, CountOfFacts
  <2> QED
    BY <2>1, <2>2
<1>2. ASSUME NEW n \in T PROVE n + 1 \in T
  <2> SUFFICES ASSUME NEW W \in SUBSET V, Cardinality(W) = n + 1
               PROVE  CountOf(r, V) = CountOf(r, W) + CountOf(r, V \ W)
    BY <1>2
  <2>1. n \in Nat /\ Cardinality(W) # 0
    BY <1>2
  <2>2. PICK x \in W : TRUE
    BY <2>1, Parts
  <2> DEFINE U == W \ {x}
  <2>3. /\ Cardinality(U) = n /\ Countable(r, U) /\ Countable(r, W) /\ Countable(r, V \ U)
        /\ Countable(r, V \ W)
    BY <2>1, <2>2, Parts
  <2> DEFINE R == V \ U
  <2>4. x \in R /\ R \ {x} = V \ W
    BY <2>2
  <2>5. CountOf(r, V) = CountOf(r, U) + CountOf(r, R)
    BY <1>2, <2>3
  <2>6. CountOf(r, W) = r.events[x].count + CountOf(r, U)
    BY <2>2, <2>3, CountOfFacts
  <2>7. Countable(r, R)
    BY <2>3
  <2> HIDE DEF R
  <2>8. CountOf(r, R) = r.events[x].count + CountOf(r, V \ W)
    BY <2>4, <2>7, CountOfFacts
  <2>9. /\ r.events[x].count \in Nat /\ CountOf(r, U) \in Nat /\ CountOf(r, V \ W) \in Nat
    BY <2>2, <2>3, CountOfFacts DEF Countable
  <2>10. \A a, b, c \in Nat : b + (a + c) = (a + b) + c
    OBVIOUS
  <2> QED
    BY ONLY <2>5, <2>6, <2>8, <2>9, <2>10
<1>3. T = Nat
  BY <1>1, <1>2, Induction
<1> QED
  BY <1>3, Parts

-----------------------------------------------------------------------------
(* A batch is stored line by line. *)

LEMMA StoredSteps ==
  ASSUME NEW r, NEW batch \in Batches, NEW at
  PROVE  \E after :
           /\ after[0] = [ring |-> r, said |-> {}]
           /\ \A k \in 1..Len(batch) : after[k] = StoreLine(after[k - 1], batch[k], at)
           /\ Stored(r, batch, at) = after[Len(batch)]
<1> DEFINE start == [ring |-> r, said |-> {}]
           Newest(s) == CHOOSE x \in s : \A y \in s : x >= y
           Solves(f, n) == f = [s \in SUBSET (1..n) |-> IF s = {} THEN start
                                  ELSE StoreLine(f[s \ {Newest(s)}], batch[Newest(s)], at)]
           T == {n \in Nat : \E f : Solves(f, n)}
<1>1. Len(batch) \in Nat /\ DOMAIN batch = 1..Len(batch)
  BY DEF Batches
<1>2. ASSUME NEW n \in Nat, NEW s \in SUBSET (1..(n + 1)), n + 1 \in s
      PROVE  Newest(s) = n + 1
  <2>1. \A y \in s : n + 1 >= y
    OBVIOUS
  <2>2. \A x \in s : (\A y \in s : x >= y) => x = n + 1
    BY <1>2
  <2> QED
    BY <1>2, <2>1, <2>2
<1> HIDE DEF start, Newest
<1>3. 0 \in T
  <2>1. \A s \in SUBSET (1..0) : s = {}
    OBVIOUS
  <2>2. Solves([s \in SUBSET (1..0) |-> start], 0)
    BY <2>1
  <2> QED
    BY <2>2
<1>4. ASSUME NEW n \in T PROVE n + 1 \in T
  <2>1. n \in Nat /\ \E f : Solves(f, n)
    BY <1>4
  <2>2. PICK f : Solves(f, n)
    BY <2>1
  <2> DEFINE g == [s \in SUBSET (1..(n + 1)) |-> IF s = {} THEN start
                     ELSE StoreLine(f[s \ {Newest(s)}], batch[Newest(s)], at)]
  <2>3. \A s \in SUBSET (1..(n + 1)) : s \ {Newest(s)} \in SUBSET (1..n)
    <3> SUFFICES ASSUME NEW s \in SUBSET (1..(n + 1)) PROVE s \ {Newest(s)} \subseteq 1..n
      OBVIOUS
    <3>0. \A y \in 1..(n + 1) : y # n + 1 => y \in 1..n
      BY <2>1
    <3>1. CASE n + 1 \in s
      <4>1. Newest(s) = n + 1
        BY <1>2, <2>1, <3>1
      <4> QED
        BY <3>0, <4>1
    <3>2. CASE n + 1 \notin s
      BY <3>0, <3>2
    <3> QED
      BY <3>1, <3>2
  <2>4. \A s \in SUBSET (1..n) : s \in SUBSET (1..(n + 1)) /\ f[s] = g[s]
    <3>1. \A s \in SUBSET (1..n) : s \in SUBSET (1..(n + 1))
      BY <2>1
    <3> QED
      BY <2>2, <3>1
  <2>5. Solves(g, n + 1)
    BY <2>3, <2>4
  <2> HIDE DEF Solves, g
  <2> QED
    BY <2>1, <2>5
<1>5. \E f : Solves(f, Len(batch))
  <2>1. T = Nat
    BY <1>3, <1>4, Induction
  <2> HIDE DEF Solves
  <2> QED
    BY <1>1, <2>1
<1> DEFINE iter == CHOOSE f : Solves(f, Len(batch))
<1>6. Solves(iter, Len(batch))
  BY <1>5
<1>7. Stored(r, batch, at) = iter[1..Len(batch)]
  BY <1>1 DEF Stored, FoldLeft, MapThenFoldSet, Max, start, Newest
<1> HIDE DEF iter
<1> DEFINE after == [k \in 0..Len(batch) |-> iter[1..k]]
<1>8. after[0] = start
  BY <1>1, <1>6
<1>9. ASSUME NEW k \in 1..Len(batch)
      PROVE  after[k] = StoreLine(after[k - 1], batch[k], at)
  <2>1. 1..k \in SUBSET (1..Len(batch)) /\ 1..k # {} /\ k - 1 \in Nat /\ k = (k - 1) + 1
    BY <1>1
  <2>2. Newest(1..k) = k
    BY <1>2, <2>1
  <2>3. (1..k) \ {k} = 1..(k - 1)
    BY <2>1
  <2>4. iter[1..k] = StoreLine(iter[(1..k) \ {k}], batch[k], at)
    BY <1>6, <2>1, <2>2
  <2>5. after[k] = iter[1..k] /\ after[k - 1] = iter[1..(k - 1)]
    BY <1>1, <2>1
  <2> HIDE DEF after
  <2> QED
    BY <2>3, <2>4, <2>5
<1>10. Stored(r, batch, at) = after[Len(batch)]
  BY <1>1, <1>7
<1> HIDE DEF after
<1> QED
  BY <1>8, <1>9, <1>10 DEF start

-----------------------------------------------------------------------------
(* What holds of the file's tables, whatever transactions made them. *)

Rows(r) ==
  /\ DOMAIN r = {"events", "index", "hosts", "severity", "occurrences", "next"}
  /\ r.next \in Nat \ {0} /\ Seqs(r) \subseteq 1..(r.next - 1)
  /\ \A s \in Seqs(r) : /\ r.events[s].line \in Lines
                        /\ r.events[s].count \in Nat \ {0} /\ r.events[s].seen \in Int
  /\ r.index \in [Lines -> 0..(r.next - 1)]

\* A row of the index that points at an entry points at one of its own line: what
\* IndexFollows needs for a repeat to take away its own line's entry and no other's.
Indexed(r) ==
  /\ \A l \in Lines : r.index[l] \in Seqs(r) => r.events[r.index[l]].line = l
  /\ \A s \in Seqs(r) : /\ r.index[r.events[s].line] >= s
                        /\ r.index[r.events[s].line] \in Seqs(r)
                        /\ FALSE \notin Dedups => r.index[r.events[s].line] = s

InOrder(r) == \A s, t \in Seqs(r) : s < t => r.events[s].seen <= r.events[t].seen

SeenBy(r, at) == \A s \in Seqs(r) : r.events[s].seen <= at

Of(r, i, x) == {s \in Seqs(r) : r.events[s].line[i] = x}

Agree(r) ==
  /\ r.hosts \in [Hosts -> [count : Nat, entries : Nat]]
  /\ r.severity \in [Severities -> Nat]
  /\ r.occurrences = CountOf(r, Seqs(r))
  /\ \A h \in Hosts : r.hosts[h].count = CountOf(r, Of(r, 1, h))
                      /\ r.hosts[h].entries = Cardinality(Of(r, 1, h))
  /\ \A x \in Severities : r.severity[x] = CountOf(r, Of(r, 2, x))

LEMMA SetsOf ==
  ASSUME NEW r, Rows(r), NEW V \in SUBSET Seqs(r)
  PROVE  IsFiniteSet(V) /\ Cardinality(V) \in Nat /\ Countable(r, V)
<1>1. IsFiniteSet(1..(r.next - 1))
  BY FS_Interval DEF Rows
<1>2. IsFiniteSet(V)
  BY <1>1, FS_Subset DEF Rows
<1> QED
  BY <1>2, FS_CardinalityType DEF Rows, Countable

LEMMA EmptyRingRows ==
  /\ Rows(EmptyRing) /\ Indexed(EmptyRing) /\ InOrder(EmptyRing) /\ Agree(EmptyRing)
  /\ Seqs(EmptyRing) = {} /\ \A at : SeenBy(EmptyRing, at)
<1>1. Seqs(EmptyRing) = {} /\ EmptyRing.next = 1
  BY DEF EmptyRing, Seqs
<1>2. Rows(EmptyRing)
  BY <1>1 DEF Rows, EmptyRing
<1>3. Countable(EmptyRing, {}) /\ Cardinality({}) = 0
  BY <1>2, SetsOf, FS_EmptySet
<1>4. CountOf(EmptyRing, {}) = 0
  BY <1>3, CountOfFacts
<1>5. \A i, x : Of(EmptyRing, i, x) = {}
  BY <1>1 DEF Of
<1>6. Agree(EmptyRing)
  BY <1>1, <1>3, <1>4, <1>5 DEF Agree, EmptyRing, NoSummary
<1>7. \A l \in Lines : EmptyRing.index[l] \notin Seqs(EmptyRing)
  BY <1>1
<1> QED
  BY <1>1, <1>2, <1>6, <1>7 DEF Indexed, InOrder, SeenBy

-----------------------------------------------------------------------------
(* One line. *)

\* What a line leaves, when `gone` is the entry that a repeat takes away, counted `was`.
Receives(r, q, l, at, gone, was) ==
  /\ DOMAIN q = {"events", "index", "hosts", "severity", "occurrences", "next"}
  /\ q.next = r.next + 1
  /\ Seqs(q) = (Seqs(r) \ gone) \cup {r.next}
  /\ \A s \in Seqs(r) \ gone : q.events[s] = r.events[s]
  /\ q.events[r.next].line = l /\ q.events[r.next].seen = at
  /\ q.events[r.next].count = 1 + was
  /\ q.index = [r.index EXCEPT ![l] = r.next]
  /\ q.hosts = [r.hosts EXCEPT ![l[1]].count = @ + 1,
                               ![l[1]].entries = @ + (IF gone = {} THEN 1 ELSE 0)]
  /\ q.severity = [r.severity EXCEPT ![l[2]] = @ + 1]
  /\ q.occurrences = r.occurrences + 1

Repeats(r, l) == dedup /\ r.index[l] \in Seqs(r)

LEMMA LineStored ==
  ASSUME NEW acc, NEW r, acc.ring = r, Rows(r), Indexed(r), NEW l \in Lines, NEW at \in Int,
         dedup \in Dedups, Dedups \subseteq BOOLEAN
  PROVE  Receives(r, StoreLine(acc, l, at).ring, l, at,
                  IF Repeats(r, l) THEN {r.index[l]} ELSE {},
                  IF Repeats(r, l) THEN r.events[r.index[l]].count ELSE 0)
<1> DEFINE old    == r.index[l]
           repeat == dedup /\ old \in Seqs(r)
           seq    == r.next
           notify == ~repeat \/ at - r.events[old].told >= NotifyEvery
           entry  == [line |-> l, count |-> 1 + (IF repeat THEN r.events[old].count ELSE 0),
                      seen |-> at, told |-> IF notify THEN at ELSE r.events[old].told]
           kept   == Seqs(r) \ (IF repeat THEN {old} ELSE {})
           q      == [events |-> [s \in kept \cup {seq} |-> IF s = seq THEN entry ELSE r.events[s]],
                      index |-> [r.index EXCEPT ![l] = seq],
                      hosts |-> [r.hosts EXCEPT ![l[1]].count = @ + 1,
                                                ![l[1]].entries = @ + (IF repeat THEN 0 ELSE 1)],
                      severity |-> [r.severity EXCEPT ![l[2]] = @ + 1],
                      occurrences |-> r.occurrences + 1,
                      next |-> r.next + 1]
<1>1. StoreLine(acc, l, at).ring = q
  BY DEF StoreLine, Place, Kept
<1>2. seq \notin Seqs(r)
  BY DEF Rows
<1>3. /\ entry.line = l /\ entry.seen = at
      /\ entry.count = 1 + (IF repeat THEN r.events[old].count ELSE 0)
  OBVIOUS
<1> HIDE DEF entry, notify
<1>4. /\ DOMAIN q = {"events", "index", "hosts", "severity", "occurrences", "next"}
      /\ q.next = r.next + 1 /\ Seqs(q) = kept \cup {seq}
      /\ q.events[seq] = entry /\ \A s \in kept : q.events[s] = r.events[s]
      /\ q.index = [r.index EXCEPT ![l] = seq]
      /\ q.hosts = [r.hosts EXCEPT ![l[1]].count = @ + 1,
                                   ![l[1]].entries = @ + (IF repeat THEN 0 ELSE 1)]
      /\ q.severity = [r.severity EXCEPT ![l[2]] = @ + 1]
      /\ q.occurrences = r.occurrences + 1
  BY <1>2, SMTT(20) DEF Seqs
<1> HIDE DEF q
<1> QED
  BY <1>1, <1>3, <1>4 DEF Receives, Repeats

\* r becomes q: the entries in `gone` go, and one comes at r.next that counts one more.
Replaces(r, q, gone) ==
  /\ Rows(r) /\ gone \in SUBSET Seqs(r)
  /\ gone = {} \/ \E s \in Seqs(r) : gone = {s}
  /\ Seqs(q) = (Seqs(r) \ gone) \cup {r.next}
  /\ \A s \in Seqs(r) \ gone : q.events[s] = r.events[s]
  /\ q.events[r.next].count = 1 + CountOf(r, gone)

LEMMA OneMore ==
  ASSUME NEW r, NEW q, NEW gone, Replaces(r, q, gone), NEW A \in SUBSET Seqs(r), gone \subseteq A
  PROVE  /\ CountOf(q, (A \ gone) \cup {r.next}) = CountOf(r, A) + 1
         /\ Cardinality((A \ gone) \cup {r.next}) = Cardinality(A) + (IF gone = {} THEN 1 ELSE 0)
<1>1. Rows(r) /\ gone \in SUBSET Seqs(r)
  BY DEF Replaces
<1>2. /\ Countable(r, A) /\ Countable(r, gone) /\ Countable(r, A \ gone)
      /\ IsFiniteSet(A) /\ IsFiniteSet(A \ gone) /\ Cardinality(A) \in Nat
  BY <1>1, SetsOf
<1>3. r.next \notin Seqs(r)
  BY <1>1 DEF Rows
<1> DEFINE V == (A \ gone) \cup {r.next}
<1>4. CountOf(q, A \ gone) = CountOf(r, A \ gone)
  BY <1>2, CountOfSame DEF Replaces
<1>5. CountOf(r, A) = CountOf(r, gone) + CountOf(r, A \ gone)
  BY <1>2, CountOfSplit
<1>6. /\ CountOf(r, gone) \in Nat /\ CountOf(r, A \ gone) \in Nat
      /\ q.events[r.next].count = 1 + CountOf(r, gone)
  BY <1>2, CountOfFacts DEF Replaces
<1>7. IsFiniteSet(V) /\ Cardinality(V) = Cardinality(A \ gone) + 1
  BY <1>2, <1>3, FS_AddElement
<1>8. Countable(q, V)
  <2>1. \A s \in A \ gone : q.events[s].count \in Nat
    BY <1>2 DEF Countable, Replaces
  <2>2. q.events[r.next].count \in Nat
    BY <1>6
  <2> QED
    BY <1>7, <2>1, <2>2 DEF Countable
<1>9. r.next \in V /\ V \ {r.next} = A \ gone
  BY <1>3
<1> HIDE DEF V
<1>10. CountOf(q, V) = q.events[r.next].count + CountOf(q, A \ gone)
  BY <1>8, <1>9, CountOfFacts
<1>11. \A a, b \in Nat : (1 + a) + b = (a + b) + 1
  OBVIOUS
<1>12. CountOf(q, V) = CountOf(r, A) + 1
  BY ONLY <1>4, <1>5, <1>6, <1>10, <1>11
<1>13. Cardinality(V) = Cardinality(A) + (IF gone = {} THEN 1 ELSE 0)
  <2>1. CASE gone = {}
    BY <1>2, <1>7, <2>1
  <2>2. CASE gone # {}
    <3>1. PICK s \in A : gone = {s}
      BY <2>2 DEF Replaces
    <3>2. Cardinality(A \ gone) = Cardinality(A) - 1
      BY <1>2, <3>1, FS_RemoveElement
    <3> QED
      BY <1>2, <1>7, <2>2, <3>2
  <2> QED
    BY <2>1, <2>2
<1> QED
  BY <1>12, <1>13 DEF V

LEMMA LineKept ==
  ASSUME NEW acc, NEW r, acc.ring = r, Rows(r), Indexed(r), Agree(r),
         NEW l \in Lines, NEW at \in Int, dedup \in Dedups, Dedups \subseteq BOOLEAN
  PROVE  LET q == StoreLine(acc, l, at).ring
         IN  /\ Rows(q) /\ Indexed(q) /\ Agree(q)
             /\ Cardinality(Seqs(q)) <= Cardinality(Seqs(r)) + 1
             /\ InOrder(r) /\ SeenBy(r, at) => InOrder(q) /\ SeenBy(q, at)
<1> DEFINE q    == StoreLine(acc, l, at).ring
           old  == r.index[l]
           gone == IF Repeats(r, l) THEN {r.index[l]} ELSE {}
           was  == IF Repeats(r, l) THEN r.events[r.index[l]].count ELSE 0
<1>0. Receives(r, q, l, at, gone, was)
  BY LineStored
<1>1. /\ DOMAIN q = {"events", "index", "hosts", "severity", "occurrences", "next"}
      /\ q.next = r.next + 1
      /\ Seqs(q) = (Seqs(r) \ gone) \cup {r.next}
      /\ \A s \in Seqs(r) \ gone : q.events[s] = r.events[s]
      /\ q.events[r.next].line = l /\ q.events[r.next].seen = at
      /\ q.events[r.next].count = 1 + was
      /\ q.index = [r.index EXCEPT ![l] = r.next]
      /\ q.hosts = [r.hosts EXCEPT ![l[1]].count = @ + 1,
                                   ![l[1]].entries = @ + (IF gone = {} THEN 1 ELSE 0)]
      /\ q.severity = [r.severity EXCEPT ![l[2]] = @ + 1]
      /\ q.occurrences = r.occurrences + 1
  <2> HIDE DEF q, gone, was
  <2> QED
    BY <1>0 DEF Receives
<1>2. Rows(r) /\ Indexed(r) /\ Agree(r)
  OBVIOUS
<1>3. gone \in SUBSET Seqs(r) /\ (gone = {} \/ \E s \in Seqs(r) : gone = {s})
      /\ \A s \in gone : r.events[s].line = l /\ r.index[l] = s
  BY <1>2 DEF Indexed, Repeats
<1>4. was = CountOf(r, gone)
  <2>1. CASE Repeats(r, l)
    <3>1. Countable(r, {old}) /\ Countable(r, {})
      BY <1>2, <2>1, SetsOf DEF Repeats
    <3>2. CountOf(r, {old}) = r.events[old].count + CountOf(r, {old} \ {old})
      BY <3>1, CountOfFacts
    <3>3. CountOf(r, {old} \ {old}) = 0
      BY <3>1, CountOfFacts
    <3>4. r.events[old].count \in Nat
      BY <3>1 DEF Countable
    <3> QED
      BY <2>1, <3>2, <3>3, <3>4
  <2>2. CASE ~Repeats(r, l)
    <3>1. Countable(r, {})
      BY <1>2, SetsOf
    <3> QED
      BY <2>2, <3>1, CountOfFacts
  <2> QED
    BY <2>1, <2>2
<1>5. FALSE \notin Dedups => \A s \in Seqs(r) \ gone : r.events[s].line # l
  <2> SUFFICES ASSUME FALSE \notin Dedups, NEW s \in Seqs(r), r.events[s].line = l PROVE s \in gone
    OBVIOUS
  <2>1. r.index[l] = s /\ dedup = TRUE
    BY <1>2 DEF Indexed
  <2> QED
    BY <2>1 DEF Repeats
<1>6. r.next \in Nat \ {0} /\ r.next \notin Seqs(r)
      /\ (\A s \in Seqs(r) : s \in Nat \ {0} /\ s < r.next)
      /\ r.index \in [Lines -> 0..(r.next - 1)] /\ (\A s \in Seqs(r) : r.events[s].line \in Lines)
  BY <1>2 DEF Rows
<1>7. was \in Nat
  BY <1>2, <1>3, <1>4, SetsOf, CountOfFacts
<1> HIDE DEF q, gone, was
<1>8. Rows(q)
  BY <1>1, <1>2, <1>6, <1>7 DEF Rows
<1>9. Indexed(q)
  <2>1. ASSUME NEW x \in Lines, q.index[x] \in Seqs(q) PROVE q.events[q.index[x]].line = x
    <3>1. CASE x = l
      BY <1>1, <1>6, <3>1
    <3>2. CASE x # l
      <4>1. q.index[x] = r.index[x] /\ r.index[x] # r.next
        BY <1>1, <1>6, <3>2
      <4>2. r.index[x] \in Seqs(r) \ gone
        BY <1>1, <2>1, <4>1
      <4>3. r.events[r.index[x]].line = x
        BY <1>2, <4>2 DEF Indexed
      <4>4. q.events[r.index[x]] = r.events[r.index[x]]
        BY <1>1, <4>1, <4>2
      <4> QED
        BY <4>1, <4>3, <4>4
    <3> QED
      BY <3>1, <3>2
  <2>2. ASSUME NEW s \in Seqs(q)
        PROVE  /\ q.index[q.events[s].line] >= s /\ q.index[q.events[s].line] \in Seqs(q)
               /\ FALSE \notin Dedups => q.index[q.events[s].line] = s
    <3>1. CASE s = r.next
      <4>1. q.events[s].line = l /\ q.index[l] = s
        BY <1>1, <1>6, <3>1
      <4>2. s \in Nat
        BY <1>6, <3>1
      <4> QED
        BY <4>1, <4>2
    <3>2. CASE s \in Seqs(r) \ gone
      <4>1. q.events[s] = r.events[s] /\ r.events[s].line \in Lines
        BY <1>1, <1>6, <3>2
      <4>2. CASE r.events[s].line = l
        <5>1. q.index[l] = r.next /\ r.next \in Seqs(q) /\ s < r.next
          BY <1>1, <1>6, <3>2
        <5>2. FALSE \in Dedups
          BY <1>5, <3>2, <4>2
        <5>3. r.next >= s
          BY <1>6, <3>2, <5>1
        <5> QED
          BY <4>1, <4>2, <5>1, <5>2, <5>3
      <4>3. CASE r.events[s].line # l
        <5>1. q.index[r.events[s].line] = r.index[r.events[s].line]
          BY <1>1, <1>6, <4>1, <4>3
        <5>2. r.index[r.events[s].line] \in Seqs(r) \ gone
          <6>1. r.index[r.events[s].line] \in Seqs(r)
            BY <1>2, <3>2 DEF Indexed
          <6>2. r.index[r.events[s].line] \notin gone
            BY <1>2, <1>3, <4>1, <4>3, <6>1 DEF Indexed
          <6> QED
            BY <6>1, <6>2
        <5>3. /\ r.index[r.events[s].line] >= s
              /\ FALSE \notin Dedups => r.index[r.events[s].line] = s
          BY <1>2, <3>2 DEF Indexed
        <5>4. r.index[r.events[s].line] \in Seqs(q)
          BY <1>1, <5>2
        <5> QED
          BY <4>1, <5>1, <5>3, <5>4
      <4> QED
        BY <4>2, <4>3
    <3>3. s = r.next \/ s \in Seqs(r) \ gone
      BY <1>1
    <3> QED
      BY <3>1, <3>2, <3>3
  <2> QED
    BY <2>1, <2>2 DEF Indexed
<1>10. Replaces(r, q, gone)
  BY <1>1, <1>2, <1>3, <1>4 DEF Replaces
<1>11. Cardinality(Seqs(q)) <= Cardinality(Seqs(r)) + 1 /\ q.occurrences = CountOf(q, Seqs(q))
  <2>1. Cardinality(Seqs(r)) \in Nat
    BY <1>2, SetsOf
  <2>2. /\ CountOf(q, (Seqs(r) \ gone) \cup {r.next}) = CountOf(r, Seqs(r)) + 1
        /\ Cardinality((Seqs(r) \ gone) \cup {r.next})
             = Cardinality(Seqs(r)) + (IF gone = {} THEN 1 ELSE 0)
    BY <1>3, <1>10, OneMore
  <2> QED
    BY <1>1, <1>2, <2>1, <2>2 DEF Agree
<1>12. ASSUME NEW i \in {1, 2}, NEW x
       PROVE  LET more == IF l[i] = x THEN 1 ELSE 0
              IN  /\ CountOf(q, Of(q, i, x)) = CountOf(r, Of(r, i, x)) + more
                  /\ Cardinality(Of(q, i, x))
                       = Cardinality(Of(r, i, x)) + (IF gone = {} THEN more ELSE 0)
  <2>1. Of(r, i, x) \in SUBSET Seqs(r)
    BY DEF Of
  <2>2. CountOf(r, Of(r, i, x)) \in Nat /\ Cardinality(Of(r, i, x)) \in Nat
    BY <1>2, <2>1, SetsOf, CountOfFacts
  <2>3. CASE l[i] = x
    <3>1. gone \subseteq Of(r, i, x)
      BY <1>3, <2>3 DEF Of
    <3>2. Of(q, i, x) = (Of(r, i, x) \ gone) \cup {r.next}
      BY <1>1, <1>6, <2>3 DEF Of
    <3> QED
      BY <1>10, <2>1, <2>2, <2>3, <3>1, <3>2, OneMore
  <2>4. CASE l[i] # x
    <3>1. gone \cap Of(r, i, x) = {}
      BY <1>3, <2>4 DEF Of
    <3>2. Of(q, i, x) = Of(r, i, x)
      BY <1>1, <1>3, <1>6, <2>4, <3>1 DEF Of
    <3> DEFINE A == Of(r, i, x)
    <3>3. CountOf(q, A) = CountOf(r, A)
      <4>1. Countable(r, A)
        BY <1>2, <2>1, SetsOf
      <4>2. \A s \in A : q.events[s].count = r.events[s].count
        BY <1>1, <2>1, <3>1
      <4> HIDE DEF A
      <4> QED
        BY <4>1, <4>2, CountOfSame
    <3> QED
      BY <2>2, <2>4, <3>2, <3>3
  <2> QED
    BY <2>3, <2>4
<1>13. Agree(q)
  <2>1. l[1] \in Hosts /\ l[2] \in Severities
    BY DEF Lines
  <2>2. /\ r.hosts \in [Hosts -> [count : Nat, entries : Nat]]
        /\ r.severity \in [Severities -> Nat]
    BY <1>2 DEF Agree
  <2>3. q.hosts \in [Hosts -> [count : Nat, entries : Nat]] /\ q.severity \in [Severities -> Nat]
    BY <1>1, <2>1, <2>2
  <2>4. ASSUME NEW h \in Hosts
        PROVE  /\ q.hosts[h].count = CountOf(q, Of(q, 1, h))
               /\ q.hosts[h].entries = Cardinality(Of(q, 1, h))
    <3>1. /\ r.hosts[h].count = CountOf(r, Of(r, 1, h))
          /\ r.hosts[h].entries = Cardinality(Of(r, 1, h))
          /\ r.hosts[h].count \in Nat /\ r.hosts[h].entries \in Nat
      BY <1>2, <2>2 DEF Agree
    <3>2. CASE l[1] = h
      BY <1>1, <1>12, <2>1, <2>2, <3>1, <3>2
    <3>3. CASE l[1] # h
      <4>1. q.hosts[h] = r.hosts[h]
        BY <1>1, <2>1, <2>2, <3>3
      <4> QED
        BY <1>12, <3>1, <3>3, <4>1
    <3> QED
      BY <3>2, <3>3
  <2>5. ASSUME NEW x \in Severities PROVE q.severity[x] = CountOf(q, Of(q, 2, x))
    <3>1. r.severity[x] = CountOf(r, Of(r, 2, x)) /\ r.severity[x] \in Nat
      BY <1>2, <2>2 DEF Agree
    <3>2. q.severity[x] = r.severity[x] + (IF l[2] = x THEN 1 ELSE 0)
      BY <1>1, <2>1, <2>2, <3>1
    <3> QED
      BY <1>12, <3>1, <3>2
  <2> QED
    BY <1>11, <2>3, <2>4, <2>5 DEF Agree
<1>14. InOrder(r) /\ SeenBy(r, at) => InOrder(q) /\ SeenBy(q, at)
  BY <1>1, <1>6 DEF InOrder, SeenBy
<1> QED
  BY <1>8, <1>9, <1>11, <1>13, <1>14 DEF q

-----------------------------------------------------------------------------
(* A batch. *)

LEMMA StoredKept ==
  ASSUME NEW r, Rows(r), Indexed(r), Agree(r), NEW batch \in Batches, NEW at \in Int,
         dedup \in Dedups, Dedups \subseteq BOOLEAN
  PROVE  LET q == Stored(r, batch, at).ring
         IN  /\ Rows(q) /\ Indexed(q) /\ Agree(q)
             /\ Cardinality(Seqs(q)) <= Cardinality(Seqs(r)) + Len(batch)
             /\ InOrder(r) /\ SeenBy(r, at) => InOrder(q) /\ SeenBy(q, at)
<1>1. PICK after : /\ after[0] = [ring |-> r, said |-> {}]
                   /\ \A k \in 1..Len(batch) : after[k] = StoreLine(after[k - 1], batch[k], at)
                   /\ Stored(r, batch, at) = after[Len(batch)]
  BY StoredSteps
<1>2. Len(batch) \in Nat /\ \A k \in 1..Len(batch) : batch[k] \in Lines
  BY DEF Batches
<1> DEFINE Good(k) == LET q == after[k].ring
                      IN  /\ Rows(q) /\ Indexed(q) /\ Agree(q)
                          /\ Cardinality(Seqs(q)) <= Cardinality(Seqs(r)) + k
                          /\ InOrder(r) /\ SeenBy(r, at) => InOrder(q) /\ SeenBy(q, at)
           T == {k \in Nat : k <= Len(batch) => Good(k)}
<1>3. 0 \in T
  <2>1. after[0].ring = r
    BY <1>1
  <2>2. Cardinality(Seqs(r)) \in Nat
    BY SetsOf
  <2>3. Good(0)
    BY <2>1, <2>2
  <2> QED
    BY <2>3
<1>4. ASSUME NEW k \in T PROVE k + 1 \in T
  <2>0. k \in Nat /\ (k <= Len(batch) => Good(k))
    BY <1>4
  <2> SUFFICES ASSUME k + 1 <= Len(batch) PROVE Good(k + 1)
    BY <2>0
  <2>1. Good(k)
    BY <1>2, <2>0
  <2>2. k + 1 \in 1..Len(batch) /\ (k + 1) - 1 = k
    BY <1>2, <2>0
  <2>3. after[k + 1] = StoreLine(after[k], batch[k + 1], at) /\ batch[k + 1] \in Lines
    BY <1>1, <1>2, <2>2
  <2> DEFINE p == after[k].ring
             q == after[k + 1].ring
  <2>4. Rows(p) /\ Indexed(p) /\ Agree(p)
    BY <2>1
  <2>5. /\ Rows(q) /\ Indexed(q) /\ Agree(q)
        /\ Cardinality(Seqs(q)) <= Cardinality(Seqs(p)) + 1
        /\ InOrder(p) /\ SeenBy(p, at) => InOrder(q) /\ SeenBy(q, at)
    BY <2>3, <2>4, LineKept
  <2>6. Cardinality(Seqs(r)) \in Nat /\ Cardinality(Seqs(p)) \in Nat /\ Cardinality(Seqs(q)) \in Nat
    BY <2>4, <2>5, SetsOf
  <2>7. Cardinality(Seqs(q)) <= Cardinality(Seqs(r)) + (k + 1)
    BY <2>0, <2>1, <2>5, <2>6
  <2> QED
    BY <2>1, <2>5, <2>7
<1>5. T = Nat
  <2> HIDE DEF Good
  <2> QED
    BY <1>3, <1>4, Induction
<1>6. Good(Len(batch))
  <2> HIDE DEF Good
  <2> QED
    BY <1>2, <1>5
<1> QED
  BY <1>1, <1>6

-----------------------------------------------------------------------------
(* A prune. *)

\* What is left of a sum is the sum of what is left.
LEMMA CountLeft ==
  ASSUME NEW r, Rows(r), NEW V \in SUBSET Seqs(r), NEW G \in SUBSET V
  PROVE  /\ Less(CountOf(r, V), CountOf(r, G)) = CountOf(r, V \ G)
         /\ Less(Cardinality(V), Cardinality(G)) = Cardinality(V \ G)
<1>1. /\ Countable(r, V) /\ Countable(r, G) /\ Countable(r, V \ G)
      /\ IsFiniteSet(V) /\ IsFiniteSet(G)
  BY SetsOf
<1>2. CountOf(r, V) = CountOf(r, G) + CountOf(r, V \ G)
  BY <1>1, CountOfSplit
<1>3. CountOf(r, V) \in Nat /\ CountOf(r, G) \in Nat /\ CountOf(r, V \ G) \in Nat
  BY <1>1, CountOfFacts
<1>4. CountOf(r, G) <= CountOf(r, V) /\ CountOf(r, V) - CountOf(r, G) = CountOf(r, V \ G)
  BY <1>2, <1>3
<1>5. /\ Cardinality(V) \in Nat /\ Cardinality(G) \in Nat
      /\ Cardinality(G) <= Cardinality(V) /\ Cardinality(V \ G) = Cardinality(V) - Cardinality(G)
  <2>1. Cardinality(V) \in Nat /\ Cardinality(G) \in Nat /\ Cardinality(G) <= Cardinality(V)
    BY <1>1, FS_CardinalityType, FS_Subset
  <2>2. V \cap G = G
    OBVIOUS
  <2> QED
    BY <1>1, <2>1, <2>2, FS_Difference
<1> QED
  BY <1>3, <1>4, <1>5, LessType

LEMMA GoneFacts ==
  ASSUME NEW r, Rows(r), NEW now, NEW shed
  PROVE  /\ Gone(r, now, shed) \in SUBSET Seqs(r)
         /\ \A s \in Gone(r, now, shed), t \in Seqs(r) : t <= s => t \in Gone(r, now, shed)
<1>1. Seqs(r) \subseteq Nat
  BY DEF Rows
<1>2. \A s, t, u \in Seqs(r) : u <= t /\ t <= s => u <= s
  BY <1>1
<1> QED
  BY <1>2 DEF Gone

\* A prune takes the oldest entries away, and what they counted out of the aggregates.
LEMMA PrunedKept ==
  ASSUME NEW r, Rows(r), Indexed(r), Agree(r), NEW now, NEW shed
  PROVE  LET q == Pruned(r, now, shed)
         IN  /\ Rows(q) /\ Indexed(q) /\ Agree(q)
             /\ Seqs(q) = Seqs(r) \ Gone(r, now, shed)
             /\ \A s \in Seqs(q) : q.events[s] = r.events[s]
             /\ Cardinality(Seqs(q)) <= Cardinality(Seqs(r))
             /\ InOrder(r) => InOrder(q)
             /\ \A at : SeenBy(r, at) => SeenBy(q, at)
<1> DEFINE q    == Pruned(r, now, shed)
           gone == Gone(r, now, shed)
           G(i, x) == {s \in gone : r.events[s].line[i] = x}
           Left(h) == [count |-> Less(r.hosts[h].count, CountOf(r, G(1, h))),
                       entries |-> Less(r.hosts[h].entries, Cardinality(G(1, h)))]
<1>1. gone \in SUBSET Seqs(r) /\ \A s \in gone, t \in Seqs(r) : t <= s => t \in gone
  BY GoneFacts
<1>2. /\ DOMAIN r = {"events", "index", "hosts", "severity", "occurrences", "next"}
      /\ r.severity \in [Severities -> Nat]
  BY DEF Rows, Agree
<1> HIDE DEF gone
<1>3. q = [r EXCEPT !.events = [s \in Seqs(r) \ gone |-> r.events[s]],
               !.index = Unindexed(r, gone),
               !.hosts = [h \in Hosts |-> IF Left(h).entries = 0 THEN NoSummary ELSE Left(h)],
               !.severity = [s \in Severities |-> Less(@[s], CountOf(r, G(2, s)))],
               !.occurrences = Less(@, CountOf(r, gone))]
  BY DEF Pruned, gone
<1> HIDE DEF Left, q, G
<1>4. /\ DOMAIN q = DOMAIN r /\ q.next = r.next
      /\ q.events = [s \in Seqs(r) \ gone |-> r.events[s]]
      /\ q.index = [l \in Lines |-> IF r.index[l] \in gone THEN 0 ELSE r.index[l]]
      /\ q.hosts = [h \in Hosts |-> IF Left(h).entries = 0 THEN NoSummary ELSE Left(h)]
      /\ q.severity = [s \in Severities |-> Less(r.severity[s], CountOf(r, G(2, s)))]
      /\ q.occurrences = Less(r.occurrences, CountOf(r, gone))
  BY <1>2, <1>3 DEF Unindexed
<1>5. Seqs(q) = Seqs(r) \ gone /\ \A s \in Seqs(q) : q.events[s] = r.events[s]
  BY <1>4 DEF Seqs
<1>6. Rows(q)
  BY <1>4, <1>5 DEF Rows
<1>7. Indexed(q)
  <2>1. \A s \in Seqs(r) : s \in Nat \ {0} /\ r.events[s].line \in Lines
    BY DEF Rows
  <2>2. ASSUME NEW l \in Lines, q.index[l] \in Seqs(q)
        PROVE  q.events[q.index[l]].line = l
    BY <1>4, <1>5, <2>1, <2>2 DEF Indexed
  <2>3. ASSUME NEW s \in Seqs(q)
        PROVE  q.events[s].line \in Lines /\ q.index[q.events[s].line] = r.index[r.events[s].line]
               /\ r.index[r.events[s].line] \in Seqs(q)
    <3>1. s \in Seqs(r) /\ s \notin gone /\ r.events[s].line \in Lines /\ q.events[s] = r.events[s]
      BY <1>5, <2>1
    <3>2. r.index[r.events[s].line] \in Seqs(r) /\ r.index[r.events[s].line] >= s
      BY <3>1 DEF Indexed
    <3>3. r.index[r.events[s].line] \notin gone
      BY <1>1, <2>1, <3>1, <3>2
    <3> QED
      BY <1>4, <1>5, <3>1, <3>2, <3>3
  <2>4. ASSUME NEW s \in Seqs(q)
        PROVE  /\ q.index[q.events[s].line] >= s /\ q.index[q.events[s].line] \in Seqs(q)
               /\ FALSE \notin Dedups => q.index[q.events[s].line] = s
    <3>1. s \in Seqs(r) /\ q.events[s] = r.events[s]
      BY <1>5
    <3> QED
      BY <2>3, <3>1 DEF Indexed
  <2> QED
    BY <2>2, <2>4 DEF Indexed
<1>8. ASSUME NEW V \in SUBSET Seqs(r)
      PROVE  /\ CountOf(q, V \ gone) = Less(CountOf(r, V), CountOf(r, V \cap gone))
             /\ Cardinality(V \ gone) = Less(Cardinality(V), Cardinality(V \cap gone))
             /\ Cardinality(V \ gone) \in Nat /\ CountOf(q, V \ gone) \in Nat
  <2>1. V \cap gone \in SUBSET V /\ V \ (V \cap gone) = V \ gone
    OBVIOUS
  <2>2. /\ Less(CountOf(r, V), CountOf(r, V \cap gone)) = CountOf(r, V \ gone)
        /\ Less(Cardinality(V), Cardinality(V \cap gone)) = Cardinality(V \ gone)
    BY <2>1, CountLeft
  <2>3. Countable(r, V \ gone) /\ Cardinality(V \ gone) \in Nat
    BY SetsOf
  <2>4. \A s \in V \ gone : q.events[s].count = r.events[s].count
    BY <1>5
  <2>5. CountOf(q, V \ gone) = CountOf(r, V \ gone)
    BY <2>3, <2>4, CountOfSame
  <2> QED
    BY <2>2, <2>3, <2>5, CountOfFacts
<1>9. ASSUME NEW i, NEW x
      PROVE  /\ CountOf(q, Of(q, i, x)) = Less(CountOf(r, Of(r, i, x)), CountOf(r, G(i, x)))
             /\ Cardinality(Of(q, i, x)) = Less(Cardinality(Of(r, i, x)), Cardinality(G(i, x)))
             /\ Cardinality(Of(q, i, x)) \in Nat /\ CountOf(q, Of(q, i, x)) \in Nat
             /\ Cardinality(Of(q, i, x)) = 0 => CountOf(q, Of(q, i, x)) = 0
  <2>1. Of(r, i, x) \in SUBSET Seqs(r) /\ Of(q, i, x) \in SUBSET Seqs(q)
    BY DEF Of
  <2>2. Of(q, i, x) = Of(r, i, x) \ gone
    BY <1>5 DEF Of
  <2>3. G(i, x) = Of(r, i, x) \cap gone
    BY <1>1 DEF G, Of
  <2>4. Countable(q, Of(q, i, x)) /\ IsFiniteSet(Of(q, i, x))
    BY <1>6, <2>1, SetsOf
  <2>5. Cardinality(Of(q, i, x)) = 0 => Of(q, i, x) = {}
    BY <2>4, FS_EmptySet
  <2>6. Cardinality(Of(q, i, x)) = 0 => CountOf(q, Of(q, i, x)) = 0
    BY <2>4, <2>5, CountOfFacts
  <2>7. /\ CountOf(q, Of(r, i, x) \ gone) = Less(CountOf(r, Of(r, i, x)), CountOf(r, G(i, x)))
        /\ Cardinality(Of(r, i, x) \ gone) = Less(Cardinality(Of(r, i, x)), Cardinality(G(i, x)))
        /\ Cardinality(Of(r, i, x) \ gone) \in Nat /\ CountOf(q, Of(r, i, x) \ gone) \in Nat
    BY <1>8, <2>1, <2>3, SMTT(20)
  <2> QED
    BY <2>2, <2>6, <2>7, SMTT(20)
<1>10. q.occurrences = CountOf(q, Seqs(q))
  <2>1. Seqs(r) \cap gone = gone
    BY <1>1
  <2> QED
    BY <1>4, <1>5, <1>8, <2>1, ZenonT(60) DEF Agree
<1>11. ASSUME NEW h \in Hosts
       PROVE  /\ q.hosts[h] \in [count : Nat, entries : Nat]
              /\ q.hosts[h].count = CountOf(q, Of(q, 1, h))
              /\ q.hosts[h].entries = Cardinality(Of(q, 1, h))
  <2>1. /\ Left(h).count = CountOf(q, Of(q, 1, h)) /\ Left(h).entries = Cardinality(Of(q, 1, h))
        /\ Left(h) = [count |-> Left(h).count, entries |-> Left(h).entries]
    BY <1>9 DEF Left, Agree
  <2>2. q.hosts[h] = IF Left(h).entries = 0 THEN NoSummary ELSE Left(h)
    BY <1>4
  <2>3. NoSummary.count = 0 /\ NoSummary.entries = 0 /\ NoSummary \in [count : Nat, entries : Nat]
    BY DEF NoSummary
  <2>4. /\ Cardinality(Of(q, 1, h)) \in Nat /\ CountOf(q, Of(q, 1, h)) \in Nat
        /\ Cardinality(Of(q, 1, h)) = 0 => CountOf(q, Of(q, 1, h)) = 0
    BY <1>9
  <2>5. Left(h) \in [count : Nat, entries : Nat]
    BY <2>1, <2>4
  <2> QED
    BY <2>1, <2>2, <2>3, <2>4, <2>5
<1>12. ASSUME NEW x \in Severities
       PROVE  q.severity[x] \in Nat /\ q.severity[x] = CountOf(q, Of(q, 2, x))
  <2>1. q.severity[x] = Less(r.severity[x], CountOf(r, G(2, x)))
    BY <1>4
  <2> QED
    BY <1>9, <2>1 DEF Agree
<1>13. Agree(q)
  <2>1. q.hosts \in [Hosts -> [count : Nat, entries : Nat]] /\ q.severity \in [Severities -> Nat]
    BY <1>4, <1>11, <1>12
  <2> QED
    BY <1>10, <1>11, <1>12, <2>1 DEF Agree
<1>14. Cardinality(Seqs(q)) <= Cardinality(Seqs(r))
  <2>1. IsFiniteSet(Seqs(r))
    BY SetsOf
  <2> QED
    BY <1>5, <2>1, FS_Subset
<1>15. (InOrder(r) => InOrder(q)) /\ \A at : SeenBy(r, at) => SeenBy(q, at)
  BY <1>5 DEF InOrder, SeenBy
<1> QED
  BY <1>5, <1>6, <1>7, <1>13, <1>14, <1>15 DEF q, gone

\* What a prune leaves is within the cap and, if the ring was in order, not too old.
LEMMA PrunedBounds ==
  ASSUME NEW r, Rows(r), NEW now \in Int, NEW shed \in Int,
         NEW q, Seqs(q) = Seqs(r) \ Gone(r, now, shed),
         \A s \in Seqs(q) : q.events[s] = r.events[s]
  PROVE  /\ Cardinality(Seqs(q)) <= Cap
         /\ Retain > 0 /\ InOrder(r) => \A s \in Seqs(q) : q.events[s].seen >= now - Retain
<1> DEFINE S == Seqs(r)
           G == Gone(r, now, shed)
           Before(s) == {t \in S : t < s}
           over == Max({Cardinality(S) - Cap, shed})
           Goes(t) == Cardinality(Before(t)) < over \/ (Retain > 0 /\ r.events[t].seen < now - Retain)
<1>1. S \subseteq Nat /\ G \in SUBSET S /\ Cap \in Nat /\ Retain \in Nat
  BY GoneFacts, RingAssumption DEF Rows
<1>2. IsFiniteSet(S) /\ Cardinality(S) \in Nat /\ IsFiniteSet(G) /\ Cardinality(G) \in Nat
  BY <1>1, SetsOf
<1>3. over \in Int /\ over >= Cardinality(S) - Cap
  BY <1>1, <1>2, MaxOfTwo
<1> HIDE DEF over
<1>4. \A s \in S : s \in G <=> \A t \in S : t <= s => Goes(t)
  BY DEF Gone, over
<1> HIDE DEF G
<1>5. CASE S \ G = {}
  BY <1>1, <1>5, FS_EmptySet DEF G
<1>6. CASE S \ G # {}
  <2>1. PICK m \in S \ G : \A y \in S \ G : m <= y
    BY <1>1, <1>6, Least
  <2>2. /\ ~(Cardinality(Before(m)) < over)
        /\ Retain > 0 => ~(r.events[m].seen < now - Retain)
    <3> HIDE DEF Goes
    <3>1. PICK t \in S : t <= m /\ ~Goes(t)
      BY <1>4, <2>1
    <3>2. t <= t
      BY <1>1
    <3>3. t \notin G
      BY <1>4, <3>1, <3>2
    <3>4. t = m
      BY <1>1, <2>1, <3>1, <3>3
    <3>5. ~Goes(m)
      BY <3>1, <3>4
    <3> QED
      BY <3>5 DEF Goes
  <2>3. Before(m) \in SUBSET G
    BY <1>1, <2>1
  <2>4. Cardinality(Before(m)) <= Cardinality(G) /\ Cardinality(Before(m)) \in Nat
    BY <1>2, <2>3, FS_Subset, FS_CardinalityType
  <2>5. Cardinality(S \ G) = Cardinality(S) - Cardinality(G)
    <3>1. S \cap G = G
      BY <1>1
    <3> QED
      BY <1>2, <3>1, FS_Difference, ZenonT(40)
  <2>6. Cardinality(Seqs(q)) <= Cap
    <3>1. Seqs(q) = S \ G
      BY DEF G
    <3>2. Cardinality(G) >= over
      BY <1>2, <1>3, <2>2, <2>4
    <3>3. Cardinality(S) \in Nat /\ Cardinality(G) \in Nat /\ Cap \in Nat
      BY <1>1, <1>2
    <3>4. Cardinality(S \ G) <= Cap
      BY <1>3, <2>5, <3>2, <3>3
    <3> QED
      BY <3>1, <3>4
  <2>7. ASSUME Retain > 0, InOrder(r), NEW s \in Seqs(q)
        PROVE  q.events[s].seen >= now - Retain
    <3>1. s \in S \ G /\ m <= s /\ q.events[s] = r.events[s]
      BY <2>1 DEF G
    <3>2. r.events[m].seen <= r.events[s].seen
      <4>1. m = s \/ m < s
        BY <1>1, <2>1, <3>1
      <4>2. r.events[s].seen \in Int
        BY <3>1 DEF Rows
      <4> QED
        BY <2>1, <2>7, <3>1, <4>1, <4>2 DEF InOrder
    <3>3. r.events[s].seen \in Int /\ r.events[m].seen \in Int
      BY <2>1, <3>1 DEF Rows
    <3> QED
      BY <1>1, <2>2, <2>7, <3>1, <3>2, <3>3
  <2> QED
    BY <2>6, <2>7
<1> QED
  BY <1>5, <1>6

-----------------------------------------------------------------------------
(* The inductive invariant. *)

Operation ==
  [pc : {"idle", "insert", "prune", "look", "count", "shed", "compact", "tell"},
   mode : {"first", "recover", "reopen", "retry"}, at : Nat, rec : Nat,
   batch : Batches \cup {<<>>}, force : BOOLEAN, n : Nat]

TypesInv ==
  /\ task \in [Tasks -> Operation]
  /\ stage \in {"opening", "unswept", "swept"}
  /\ since \in 0..(PruneEvery - 1)
  /\ dedup \in Dedups
  /\ clock \in Nat
  /\ spent \in [faults : Nat, crashes : Nat, back : Nat]

\* Only the collector inserts, and nothing is under way before the ring is opened.
OperationInv(t) ==
  /\ task[t].pc = "insert" => t = "collector" /\ task[t].batch \in Batches
  /\ task[t].pc = "idle" => task[t].mode = "first"

TasksInv ==
  /\ \A t \in Tasks : OperationInv(t)
  /\ db = "none" => stage = "opening" /\ task = [t \in Tasks |-> Idle]

RingInv == Rows(ring) /\ Indexed(ring) /\ Agree(ring)

\* A clock never set back stamps the entries in order, and the batch in hand after all of them.
OrderInv ==
  spent.back = 0 =>
    /\ InOrder(ring) /\ SeenBy(ring, clock)
    /\ \A t \in Tasks : task[t].at <= clock
    /\ task["collector"].pc = "insert" => SeenBy(ring, task["collector"].at)

\* A prune was made since boot, or the ring was reopened since the sweeper set out to make one.
Swept ==
  \/ stage = "swept"
  \/ /\ stage = "unswept" /\ task["sweeper"].pc # "idle"
     /\ ~(task["sweeper"].pc = "prune" /\ task["sweeper"].mode = "first")

\* Until the collector has tried the prune that is due, since_prune does not count its lines.
Allowed ==
  Cap + (IF task["collector"].pc = "prune" /\ task["collector"].mode = "first"
         THEN PruneEvery - 1 + BatchMax ELSE since)

BoundInv == Swept /\ db = "open" => Cardinality(Seqs(ring)) <= Allowed

IInv == TypesInv /\ TasksInv /\ RingInv /\ OrderInv /\ BoundInv

LEMMA InitInv == Init => IInv
<1> SUFFICES ASSUME Init PROVE IInv
  OBVIOUS
<1>1. PruneEvery \in Nat \ {0} /\ FirstDedups \subseteq Dedups
  BY RingAssumption
<1>2. Idle \in Operation /\ Idle.pc = "idle" /\ Idle.mode = "first" /\ Idle.at = 0
  BY DEF Idle, Operation
<1>3. task["collector"] = Idle /\ \A t \in Tasks : task[t] = Idle
  BY DEF Init, Tasks
<1>4. TypesInv
  BY <1>1, <1>2, <1>3 DEF Init, TypesInv
<1>5. TasksInv
  BY <1>2, <1>3 DEF Init, TasksInv, OperationInv
<1>6. RingInv /\ OrderInv
  BY <1>2, <1>3, EmptyRingRows DEF Init, RingInv, OrderInv
<1>7. BoundInv
  BY DEF Init, BoundInv
<1> QED
  BY <1>4, <1>5, <1>6, <1>7 DEF IInv

-----------------------------------------------------------------------------
(* What a step does to the two tasks. *)

LEMMA OneMoves ==
  ASSUME TypesInv, TasksInv, NEW t \in Tasks, NEW x \in Operation,
         x.pc = "insert" => t = "collector" /\ x.batch \in Batches,
         x.pc = "idle" => x.mode = "first",
         task' = [task EXCEPT ![t] = x]
  PROVE  task' \in [Tasks -> Operation] /\ \A u \in Tasks : OperationInv(u)'
<1>1. task' \in [Tasks -> Operation]
  BY DEF TypesInv
<1>2. task'[t] = x /\ \A u \in Tasks \ {t} : task'[u] = task[u]
  BY DEF TypesInv
<1> QED
  BY <1>1, <1>2 DEF TasksInv, OperationInv

LEMMA TaskShapes ==
  ASSUME TypesInv, TasksInv, NEW t \in Tasks
  PROVE  LET Good == task' \in [Tasks -> Operation] /\ \A u \in Tasks : OperationInv(u)'
         IN  /\ Ended(t) => Good
             /\ \A pc \in {"prune", "look", "compact", "tell"} : Goto(t, pc) => Good
             /\ Stumbled(t) /\ task[t].pc # "idle" => Good
             /\ Finish(t) => Good
<1> DEFINE Good == task' \in [Tasks -> Operation] /\ \A u \in Tasks : OperationInv(u)'
<1>1. task[t] \in Operation /\ OperationInv(t)
  BY DEF TypesInv, TasksInv
<1>2. Idle \in Operation /\ Idle.pc = "idle" /\ Idle.mode = "first"
  BY DEF Idle, Operation
<1>3. ASSUME Ended(t) PROVE Good
  BY <1>2, <1>3, OneMoves DEF Ended
<1>4. ASSUME NEW pc \in {"prune", "look", "compact", "tell"}, Goto(t, pc) PROVE Good
  <2> DEFINE x == [Idle EXCEPT !.pc = pc, !.at = IF pc = "prune" THEN task[t].at ELSE 0]
  <2>1. task[t].at \in Nat
    BY <1>1 DEF Operation
  <2>2. x \in Operation /\ x.pc = pc
    BY <1>2, <2>1 DEF Operation
  <2>3. task' = [task EXCEPT ![t] = x]
    BY <1>4 DEF Goto
  <2> HIDE DEF x
  <2> QED
    BY <2>2, <2>3, OneMoves
<1>5. ASSUME Stumbled(t), task[t].pc # "idle" PROVE Good
  <2>1. CASE task[t].mode = "first" /\ task' = [task EXCEPT ![t].mode = "recover"]
    <3> DEFINE x == [task[t] EXCEPT !.mode = "recover"]
    <3>1. x \in Operation /\ x.pc = task[t].pc /\ x.batch = task[t].batch
      BY <1>1 DEF Operation
    <3>2. task' = [task EXCEPT ![t] = x]
      BY <2>1
    <3> HIDE DEF x
    <3> QED
      BY <1>1, <1>5, <3>1, <3>2, OneMoves DEF OperationInv
  <2> QED
    BY <1>3, <1>5, <2>1 DEF Stumbled, Failed
<1>6. ASSUME Finish(t) PROVE Good
  BY <1>3, <1>4, <1>6 DEF Finish
<1> QED
  BY <1>3, <1>4, <1>5, <1>6

\* A task with something to do is a task of a ring that was opened.
LEMMA BusyIsUp ==
  ASSUME TypesInv, TasksInv, NEW t \in Tasks, Step(t)
  PROVE  task[t].pc # "idle" /\ db # "none" /\ db' # "none"
<1>1. task[t].pc # "idle"
  BY DEF TasksInv, OperationInv, Step, Insert, Prune, Look, Count, Shed, Compact, Poisons, Refused,
         Claim, Reopen, Trying
<1>2. db # "none"
  BY <1>1 DEF TasksInv, Idle
<1>3. db' # "none"
  BY <1>2 DEF Step, Insert, Prune, Look, Count, Shed, Compact, Poisons, Refused, Claim, Reopen
<1> QED
  BY <1>1, <1>2, <1>3

LEMMA TasksStep ==
  ASSUME IInv, [Next]_vars
  PROVE  task' \in [Tasks -> Operation] /\ TasksInv'
<1> DEFINE Good == task' \in [Tasks -> Operation] /\ \A u \in Tasks : OperationInv(u)'
<1>1. TypesInv /\ TasksInv /\ RingInv
  BY DEF IInv
<1>2. \A t \in Tasks : task[t] \in Operation /\ OperationInv(t)
  BY <1>1 DEF TypesInv, TasksInv
<1>3. Idle \in Operation /\ Idle.pc = "idle" /\ Idle.mode = "first"
  BY DEF Idle, Operation
<1>4. "collector" \in Tasks /\ "sweeper" \in Tasks /\ "collector" # "sweeper"
  BY DEF Tasks
<1>5. clock \in Nat
  BY <1>1 DEF TypesInv
<1>6. ASSUME NEW t \in Tasks, Step(t) PROVE Good
  <2>0. task[t].pc # "idle"
    BY <1>1, <1>6, BusyIsUp
  <2>1. CASE Insert(t)
    <3>1. AfterInsert(since, since + Len(task[t].batch)) \in {"prune", "look", "tell"}
      BY DEF AfterInsert
    <3> QED
      BY <1>1, <2>1, <3>1, TaskShapes DEF Insert
  <2>2. CASE Prune(t)
    <3> DEFINE x == [Idle EXCEPT !.pc = "look", !.force = TRUE]
    <3>1. x \in Operation /\ x.pc = "look"
      BY <1>3 DEF Operation
    <3>2. task' = [task EXCEPT ![t] = x]
      BY <2>2 DEF Prune
    <3> HIDE DEF x
    <3> QED
      BY <1>1, <3>1, <3>2, OneMoves
  <2>3. CASE Look(t)
    <3>1. CASE Finish(t)
      BY <1>1, <3>1, TaskShapes
    <3>2. CASE task' = [task EXCEPT ![t].pc = "count", ![t].at = clock, ![t].force = FALSE]
      <4> DEFINE x == [task[t] EXCEPT !.pc = "count", !.at = clock, !.force = FALSE]
      <4>1. x \in Operation /\ x.pc = "count"
        BY <1>2, <1>5 DEF Operation
      <4>2. task' = [task EXCEPT ![t] = x]
        BY <1>1, <3>2 DEF TypesInv
      <4> HIDE DEF x
      <4> QED
        BY <1>1, <4>1, <4>2, OneMoves
    <3> QED
      BY <2>3, <3>1, <3>2 DEF Look
  <2>4. CASE Count(t)
    <3> DEFINE e == Cardinality(Seqs(ring))
    <3>1. PICK share \in 1..(ShareBase - 1) :
            task' = [task EXCEPT ![t].pc = "shed", ![t].mode = "first",
                                 ![t].n = (e * share + ShareBase - 1) \div ShareBase]
      BY <2>4 DEF Count
    <3> DEFINE n == (e * share + ShareBase - 1) \div ShareBase
    <3>2. n \in Nat
      <4>1. e \in Nat /\ share \in Nat /\ ShareBase \in Nat \ {0}
        BY <1>1, SetsOf, RingAssumption DEF RingInv
      <4> HIDE DEF e
      <4>2. e * share \in Nat
        BY <4>1
      <4>3. \A a \in Nat, b \in Nat \ {0} : (a + b - 1) \div b \in Nat
        OBVIOUS
      <4> QED
        BY <4>1, <4>2, <4>3
    <3> DEFINE x == [task[t] EXCEPT !.pc = "shed", !.mode = "first", !.n = n]
    <3> HIDE DEF n
    <3>3. x \in Operation /\ x.pc = "shed"
      BY <1>2, <3>2 DEF Operation
    <3>4. task' = [task EXCEPT ![t] = x]
      BY <1>1, <3>1 DEF TypesInv, n
    <3> HIDE DEF x
    <3> QED
      BY <1>1, <3>3, <3>4, OneMoves
  <2>5. CASE Shed(t)
    BY <1>1, <2>5, TaskShapes DEF Shed
  <2>6. CASE Compact(t)
    BY <1>1, <2>6, TaskShapes DEF Compact, Failed
  <2>7. CASE Poisons(t)
    BY <1>1, <2>0, <2>7, TaskShapes DEF Poisons
  <2>8. CASE Refused(t)
    BY <1>1, <2>0, <2>8, TaskShapes DEF Refused
  <2>9. CASE Claim(t)
    <3>1. CASE Failed(t)
      BY <1>1, <3>1, TaskShapes DEF Failed
    <3>2. CASE task' = [task EXCEPT ![t].mode = "reopen", ![t].rec = clock]
      <4> DEFINE x == [task[t] EXCEPT !.mode = "reopen", !.rec = clock]
      <4>1. x \in Operation /\ x.pc = task[t].pc /\ x.batch = task[t].batch
        BY <1>2, <1>5 DEF Operation
      <4>2. task' = [task EXCEPT ![t] = x]
        BY <1>1, <3>2 DEF TypesInv
      <4> HIDE DEF x
      <4>3. x.pc # "idle" /\ (x.pc = "insert" => t = "collector" /\ x.batch \in Batches)
        BY <1>2, <2>0, <4>1 DEF OperationInv
      <4> QED
        BY <1>1, <4>1, <4>2, <4>3, OneMoves
    <3> QED
      BY <2>9, <3>1, <3>2 DEF Claim
  <2>10. CASE Reopen(t)
    <3>1. CASE Failed(t)
      BY <1>1, <3>1, TaskShapes DEF Failed
    <3>2. CASE task' = [task EXCEPT ![t].mode = "retry", ![t].rec = 0]
      <4> DEFINE x == [task[t] EXCEPT !.mode = "retry", !.rec = 0]
      <4>1. x \in Operation /\ x.pc = task[t].pc /\ x.batch = task[t].batch
        BY <1>2 DEF Operation
      <4>2. task' = [task EXCEPT ![t] = x]
        BY <1>1, <3>2 DEF TypesInv
      <4> HIDE DEF x
      <4>3. x.pc # "idle" /\ (x.pc = "insert" => t = "collector" /\ x.batch \in Batches)
        BY <1>2, <2>0, <4>1 DEF OperationInv
      <4> QED
        BY <1>1, <4>1, <4>2, <4>3, OneMoves
    <3> QED
      BY <2>10, <3>1, <3>2 DEF Reopen
  <2> QED
    BY <1>6, <2>1, <2>2, <2>3, <2>4, <2>5, <2>6, <2>7, <2>8, <2>9, <2>10 DEF Step
<1>7. ASSUME NEW batch \in Batches, Receive(batch) PROVE Good
  <2> DEFINE x == [Idle EXCEPT !.pc = "insert", !.at = clock, !.batch = batch]
  <2>1. x \in Operation /\ x.pc = "insert" /\ x.batch = batch
    BY <1>3, <1>5 DEF Operation, Idle
  <2>2. task' = [task EXCEPT !["collector"] = x]
    BY <1>7 DEF Receive
  <2> HIDE DEF x
  <2> QED
    BY <1>1, <1>4, <2>1, <2>2, OneMoves
<1>8. ASSUME Tell PROVE Good
  BY <1>1, <1>4, <1>8, TaskShapes DEF Tell
<1>9. ASSUME Sweep PROVE Good
  <2> DEFINE x == [Idle EXCEPT !.pc = "prune", !.at = clock]
  <2>1. x \in Operation /\ x.pc = "prune"
    BY <1>3, <1>5 DEF Operation
  <2>2. task' = [task EXCEPT !["sweeper"] = x]
    BY <1>9 DEF Sweep
  <2> HIDE DEF x
  <2> QED
    BY <1>1, <1>4, <2>1, <2>2, OneMoves
<1>10. ASSUME UNCHANGED task PROVE Good
  BY <1>1, <1>10 DEF TypesInv, TasksInv, OperationInv
<1>11. ASSUME Open PROVE Good
  <2> DEFINE x == [Idle EXCEPT !.pc = "look", !.force = TRUE]
  <2>1. x \in Operation /\ x.pc = "look"
    BY <1>3 DEF Operation
  <2>2. UNCHANGED task \/ task' = [task EXCEPT !["sweeper"] = x]
    BY <1>11 DEF Open
  <2> HIDE DEF x
  <2> QED
    BY <1>1, <1>4, <1>10, <2>1, <2>2, OneMoves
<1>12. ASSUME Crash PROVE Good
  <2>1. task' = [u \in Tasks |-> Idle]
    BY <1>12 DEF Crash
  <2> QED
    BY <1>3, <2>1 DEF OperationInv
<1>13. ASSUME Tick \/ SetBack \/ RecoverWaitEnds \/ RoomWaitEnds \/ UNCHANGED vars PROVE Good
  BY <1>10, <1>13 DEF Tick, SetBack, RecoverWaitEnds, RoomWaitEnds, vars
<1>14. Good
  BY <1>6, <1>7, <1>8, <1>9, <1>11, <1>12, <1>13 DEF Next
<1>15. db' = "none" => stage' = "opening" /\ task' = [u \in Tasks |-> Idle]
  <2>1. ASSUME NEW t \in Tasks, Step(t) PROVE db' # "none"
    BY <1>1, <2>1, BusyIsUp
  <2>2. ASSUME NEW batch \in Batches, Receive(batch) PROVE db' # "none"
    BY <2>2 DEF Receive, Up
  <2>3. CASE Tell
    BY <1>1, <1>4, <2>3 DEF Tell, TasksInv, Idle
  <2>4. CASE Sweep \/ Open
    BY <2>4 DEF Sweep, Open, Up
  <2>5. CASE Crash
    BY <2>5 DEF Crash
  <2>6. CASE Tick \/ SetBack \/ RecoverWaitEnds \/ RoomWaitEnds \/ UNCHANGED vars
    BY <1>1, <2>6 DEF TasksInv, Tick, SetBack, RecoverWaitEnds, RoomWaitEnds, vars
  <2> QED
    BY <2>1, <2>2, <2>3, <2>4, <2>5, <2>6 DEF Next
<1> QED
  BY <1>14, <1>15 DEF TasksInv

LEMMA TypesStep ==
  ASSUME IInv, [Next]_vars
  PROVE  /\ TypesInv'
         /\ (spent'.back = spent.back /\ clock' \in {clock, clock + 1}) \/ spent'.back > 0
<1>1. TypesInv /\ PruneEvery \in Nat \ {0}
  BY RingAssumption DEF IInv
<1>2. \A t \in Tasks : task[t].pc = "insert" => Len(task[t].batch) \in Nat
  BY DEF IInv, TasksInv, OperationInv, Batches
<1>3. since' \in 0..(PruneEvery - 1)
  <2>1. ASSUME NEW t \in Tasks, Insert(t) PROVE since' \in 0..(PruneEvery - 1)
    <3>1. since' = Counted(since + Len(task[t].batch)) /\ Len(task[t].batch) \in Nat
      BY <1>2, <2>1 DEF Insert, Trying
    <3> QED
      BY <1>1, <3>1 DEF TypesInv, Counted
  <2>2. ASSUME NEW t \in Tasks, Step(t), ~Insert(t) PROVE since' = since
    BY <2>2 DEF Step, Prune, Look, Count, Shed, Compact, Poisons, Refused, Claim, Reopen
  <2>3. ASSUME NEW batch \in Batches, Receive(batch) PROVE since' = since
    BY <2>3 DEF Receive
  <2>4. ASSUME Tell \/ Sweep \/ Open \/ Tick \/ SetBack \/ RecoverWaitEnds \/ RoomWaitEnds
               \/ UNCHANGED vars
        PROVE  since' = since
    BY <2>4 DEF Tell, Sweep, Open, Tick, SetBack, RecoverWaitEnds, RoomWaitEnds, vars
  <2>5. ASSUME Crash PROVE since' = 0
    BY <2>5 DEF Crash
  <2> QED
    BY <1>1, <2>1, <2>2, <2>3, <2>4, <2>5 DEF Next, TypesInv
<1>4. dedup' \in Dedups
  <2>1. ASSUME NEW t \in Tasks, Step(t) PROVE dedup' = dedup
    BY <2>1 DEF Step, Insert, Prune, Look, Count, Shed, Compact, Poisons, Refused, Claim, Reopen
  <2>2. ASSUME NEW batch \in Batches, Receive(batch) PROVE dedup' = dedup
    BY <2>2 DEF Receive
  <2>3. ASSUME Tell \/ Sweep \/ Open \/ Tick \/ SetBack \/ RecoverWaitEnds \/ RoomWaitEnds
               \/ UNCHANGED vars
        PROVE  dedup' = dedup
    BY <2>3 DEF Tell, Sweep, Open, Tick, SetBack, RecoverWaitEnds, RoomWaitEnds, vars
  <2>4. ASSUME Crash PROVE dedup' \in Dedups
    BY <2>4 DEF Crash
  <2> QED
    BY <1>1, <2>1, <2>2, <2>3, <2>4 DEF Next, TypesInv
<1> DEFINE Spends == /\ spent' \in [faults : Nat, crashes : Nat, back : Nat]
                     /\ spent'.back = spent.back
           Times  == Spends /\ clock' = clock
<1>5. ASSUME UNCHANGED spent PROVE Spends
  BY <1>1, <1>5 DEF TypesInv
<1>6. ASSUME Fault PROVE Spends
  <2>1. spent' = [spent EXCEPT !.faults = @ + 1]
    BY <1>6 DEF Fault
  <2> QED
    BY <1>1, <2>1 DEF TypesInv
<1>7. ASSUME NEW t \in Tasks, Step(t) PROVE Times
  <2>1. clock' = clock /\ (UNCHANGED spent \/ Fault)
    BY <1>7 DEF Step, Insert, Prune, Look, Count, Shed, Compact, Poisons, Refused, Claim, Reopen
  <2> QED
    BY <1>5, <1>6, <2>1
<1>8. ASSUME NEW batch \in Batches, Receive(batch) PROVE Times
  BY <1>5, <1>8 DEF Receive
<1>9. ASSUME Tell \/ Sweep \/ Open \/ RecoverWaitEnds \/ RoomWaitEnds \/ UNCHANGED vars PROVE Times
  <2>1. clock' = clock /\ (UNCHANGED spent \/ Fault)
    BY <1>9 DEF Tell, Sweep, Open, RecoverWaitEnds, RoomWaitEnds, vars
  <2> QED
    BY <1>5, <1>6, <2>1
<1>10. ASSUME Crash PROVE Times
  <2>1. spent' = [spent EXCEPT !.crashes = @ + 1] /\ clock' = clock
    BY <1>10 DEF Crash
  <2> QED
    BY <1>1, <2>1 DEF TypesInv
<1>11. ASSUME Tick PROVE Spends /\ clock' = clock + 1
  BY <1>5, <1>11 DEF Tick
<1>12. ASSUME SetBack
       PROVE  /\ spent' \in [faults : Nat, crashes : Nat, back : Nat] /\ spent'.back > 0
              /\ clock' \in Nat
  <2>1. spent' = [spent EXCEPT !.back = @ + 1] /\ clock' \in 0..(clock - 1)
    BY <1>12 DEF SetBack
  <2> QED
    BY <1>1, <2>1 DEF TypesInv
<1> HIDE DEF Spends
<1>13. \/ Spends /\ clock' \in {clock, clock + 1}
       \/ /\ spent' \in [faults : Nat, crashes : Nat, back : Nat] /\ spent'.back > 0
          /\ clock' \in Nat
  BY <1>7, <1>8, <1>9, <1>10, <1>11, <1>12 DEF Next
<1>14. clock \in Nat /\ task' \in [Tasks -> Operation]
  BY <1>1, TasksStep DEF TypesInv
<1>16. stage' \in {"opening", "unswept", "swept"}
  <2>1. ASSUME NEW t \in Tasks, Step(t) PROVE stage' = stage \/ stage' = StageAfter(t)
    BY <2>1 DEF Step, Insert, Prune, Look, Count, Shed, Compact, Poisons, Refused, Claim, Reopen,
                Finish, Stumbled, Failed
  <2>2. \A t \in Tasks : StageAfter(t) \in {stage, "unswept", "swept"}
    BY DEF StageAfter
  <2>3. ASSUME NEW batch \in Batches, Receive(batch) PROVE stage' = stage
    BY <2>3 DEF Receive
  <2>4. ASSUME Tell \/ Sweep \/ Open \/ Tick \/ SetBack \/ RecoverWaitEnds \/ RoomWaitEnds
               \/ UNCHANGED vars
        PROVE  stage' = stage
    BY <2>4 DEF Tell, Sweep, Open, Tick, SetBack, RecoverWaitEnds, RoomWaitEnds, vars
  <2>5. ASSUME Crash PROVE stage' = "opening"
    BY <2>5 DEF Crash
  <2> QED
    BY <1>1, <2>1, <2>2, <2>3, <2>4, <2>5 DEF Next, TypesInv
<1> USE DEF Spends
<1>15. clock' \in Nat /\ spent' \in [faults : Nat, crashes : Nat, back : Nat]
  BY <1>13, <1>14
<1> QED
  BY <1>3, <1>4, <1>13, <1>14, <1>15, <1>16 DEF TypesInv

-----------------------------------------------------------------------------
(* What a step does to the ring. *)

Moved(q) ==
  \/ q = ring
  \/ q = EmptyRing
  \/ \E now, shed \in Int : q = Pruned(ring, now, shed)
  \/ /\ task["collector"].pc = "insert"
     /\ q = Stored(ring, task["collector"].batch, task["collector"].at).ring

LEMMA RingMoves ==
  ASSUME IInv, [Next]_vars
  PROVE  Moved(ring')
<1>1. TypesInv /\ TasksInv /\ RingInv
  BY DEF IInv
<1>2. \A t \in Tasks : /\ task[t].at \in Int /\ task[t].rec \in Int /\ task[t].n \in Int
                       /\ task[t].pc = "insert" => t = "collector"
  BY <1>1 DEF TypesInv, Operation, TasksInv, OperationInv
<1>3. ASSUME NEW t \in Tasks PROVE Moved(Written(t))
  <2>1. CASE task[t].pc = "insert"
    BY <1>2, <2>1 DEF Written, Moved
  <2>2. CASE task[t].pc = "prune"
    BY <1>2, <2>2 DEF Written, Moved
  <2>3. CASE task[t].pc = "shed"
    BY <1>2, <2>3 DEF Written, Moved
  <2>4. CASE task[t].pc \notin {"insert", "prune", "shed"}
    BY <2>4 DEF Written, Moved
  <2> QED
    BY <2>1, <2>2, <2>3, <2>4
<1>4. ASSUME NEW t \in Tasks, Step(t) PROVE Moved(ring')
  <2>1. CASE Insert(t)
    BY <1>2, <2>1 DEF Insert, Trying, Moved
  <2>2. CASE Prune(t)
    BY <1>2, <2>2 DEF Prune, Moved
  <2>3. CASE Shed(t)
    BY <1>2, <2>3 DEF Shed, Moved
  <2>4. CASE Poisons(t)
    BY <1>3, <2>4 DEF Poisons, Moved
  <2>5. CASE Reopen(t)
    <3>1. Cardinality(Seqs(ring)) \div 2 \in Int
      BY <1>1, SetsOf DEF RingInv
    <3> QED
      BY <1>2, <2>5, <3>1 DEF Reopen, Moved
  <2>6. CASE Look(t) \/ Count(t) \/ Compact(t) \/ Refused(t) \/ Claim(t)
    BY <2>6 DEF Look, Count, Compact, Refused, Claim, Moved
  <2> QED
    BY <1>4, <2>1, <2>2, <2>3, <2>4, <2>5, <2>6 DEF Step
<1>5. ASSUME NEW batch \in Batches, Receive(batch) PROVE Moved(ring')
  BY <1>5 DEF Receive, Moved
<1>6. CASE Tell \/ Sweep \/ Open \/ Crash \/ Tick \/ SetBack \/ RecoverWaitEnds \/ RoomWaitEnds
           \/ UNCHANGED vars
  BY <1>6 DEF Tell, Sweep, Open, Crash, Tick, SetBack, RecoverWaitEnds, RoomWaitEnds, vars, Moved
<1> QED
  BY <1>4, <1>5, <1>6 DEF Next

LEMMA MovedKept ==
  ASSUME IInv, NEW q, Moved(q)
  PROVE  /\ Rows(q) /\ Indexed(q) /\ Agree(q)
         /\ spent.back = 0 =>
              /\ InOrder(q) /\ SeenBy(q, clock)
              /\ task["collector"].pc = "insert" => SeenBy(q, task["collector"].at)
<1>1. Rows(ring) /\ Indexed(ring) /\ Agree(ring)
  BY DEF IInv, RingInv
<1>2. /\ task["collector"].at \in Int /\ clock \in Int /\ dedup \in Dedups /\ Dedups \subseteq BOOLEAN
      /\ task["collector"].pc = "insert" => task["collector"].batch \in Batches
  <2>1. task["collector"] \in Operation /\ OperationInv("collector")
    BY DEF IInv, TypesInv, TasksInv, Tasks
  <2>2. task["collector"].at \in Nat
    BY <2>1 DEF Operation
  <2>3. clock \in Nat /\ dedup \in Dedups
    BY DEF IInv, TypesInv
  <2>4. Dedups \subseteq BOOLEAN
    BY RingAssumption
  <2> QED
    BY <2>1, <2>2, <2>3, <2>4 DEF OperationInv
<1>3. spent.back = 0 =>
        /\ InOrder(ring) /\ SeenBy(ring, clock) /\ task["collector"].at <= clock
        /\ task["collector"].pc = "insert" => SeenBy(ring, task["collector"].at)
  BY DEF IInv, OrderInv, Tasks
<1>4. CASE q = ring
  BY <1>1, <1>3, <1>4
<1>5. CASE q = EmptyRing
  BY <1>5, EmptyRingRows
<1>6. ASSUME NEW now \in Int, NEW shed \in Int, q = Pruned(ring, now, shed)
      PROVE  /\ Rows(q) /\ Indexed(q) /\ Agree(q)
             /\ InOrder(ring) => InOrder(q)
             /\ \A at : SeenBy(ring, at) => SeenBy(q, at)
  BY <1>1, <1>6, PrunedKept
<1>7. CASE /\ task["collector"].pc = "insert"
           /\ q = Stored(ring, task["collector"].batch, task["collector"].at).ring
  <2>1. /\ Rows(q) /\ Indexed(q) /\ Agree(q)
        /\ InOrder(ring) /\ SeenBy(ring, task["collector"].at) =>
             InOrder(q) /\ SeenBy(q, task["collector"].at)
    BY <1>1, <1>2, <1>7, StoredKept
  <2>2. ASSUME task["collector"].at <= clock, SeenBy(q, task["collector"].at)
        PROVE  SeenBy(q, clock)
    BY <1>2, <2>1, <2>2 DEF SeenBy, Rows
  <2> QED
    BY <1>3, <1>7, <2>1, <2>2
<1> QED
  BY <1>3, <1>4, <1>5, <1>6, <1>7 DEF Moved

\* An operation keeps its stamp, or takes the time of now; a batch takes its own in order.
LEMMA StampMoves ==
  ASSUME IInv, [Next]_vars
  PROVE  /\ \A u \in Tasks : task'[u].at \in {0, clock, task[u].at}
         /\ task'["collector"].pc = "insert" =>
              \/ /\ task["collector"].pc = "insert"
                 /\ task'["collector"].at = task["collector"].at
              \/ task'["collector"].at = clock /\ ring' = ring
<1> DEFINE Stamps(u) == task'[u].at \in {0, clock, task[u].at}
           Batch == task'["collector"].pc = "insert" =>
              \/ /\ task["collector"].pc = "insert"
                 /\ task'["collector"].at = task["collector"].at
              \/ task'["collector"].at = clock /\ ring' = ring
           Good == (\A u \in Tasks : Stamps(u)) /\ Batch
<1>1. task \in [Tasks -> Operation]
  BY DEF IInv, TypesInv
<1>2. "collector" \in Tasks /\ "sweeper" \in Tasks /\ "collector" # "sweeper"
  BY DEF Tasks
<1>3. ASSUME NEW t \in Tasks, NEW x, task' = [task EXCEPT ![t] = x],
             x.at \in {0, clock, task[t].at},
             x.pc = "insert" => \/ task[t].pc = "insert" /\ x.at = task[t].at
                                \/ x.at = clock /\ ring' = ring
      PROVE  Good
  <2>1. task'[t] = x /\ \A u \in Tasks \ {t} : task'[u] = task[u]
    BY <1>1, <1>3
  <2> QED
    BY <1>2, <1>3, <2>1
<1>4. Idle.pc = "idle" /\ Idle.at = 0 /\ DOMAIN Idle = {"pc", "mode", "at", "rec", "batch", "force", "n"}
  BY DEF Idle
<1>5. ASSUME NEW t \in Tasks, Ended(t) PROVE Good
  BY <1>3, <1>4, <1>5 DEF Ended
<1>6. ASSUME NEW t \in Tasks, NEW pc, pc # "insert", Goto(t, pc) PROVE Good
  <2> DEFINE x == [Idle EXCEPT !.pc = pc, !.at = IF pc = "prune" THEN task[t].at ELSE 0]
  <2>1. x.pc = pc /\ x.at \in {0, task[t].at}
    BY <1>4
  <2>2. task' = [task EXCEPT ![t] = x]
    BY <1>6 DEF Goto
  <2> HIDE DEF x
  <2> QED
    BY <1>3, <1>6, <2>1, <2>2
<1>7. ASSUME NEW t \in Tasks, NEW x \in Operation, task' = [task EXCEPT ![t] = x],
             x.pc = task[t].pc, x.at = task[t].at
      PROVE  Good
  BY <1>3, <1>7
<1> HIDE DEF Stamps, Batch
<1>8. \A t \in Tasks : task[t] \in Operation
  BY <1>1
<1>9. ASSUME NEW t \in Tasks, Stumbled(t) PROVE Good
  <2>1. CASE task' = [task EXCEPT ![t].mode = "recover"]
    <3> DEFINE x == [task[t] EXCEPT !.mode = "recover"]
    <3>1. x \in Operation /\ x.pc = task[t].pc /\ x.at = task[t].at
      BY <1>8 DEF Operation
    <3>2. task' = [task EXCEPT ![t] = x]
      BY <1>1, <2>1
    <3> HIDE DEF x
    <3> QED
      BY <1>7, <3>1, <3>2
  <2> QED
    BY <1>5, <1>9, <2>1 DEF Stumbled, Failed
<1>10. ASSUME NEW t \in Tasks, Finish(t) PROVE Good
  BY <1>5, <1>6, <1>10 DEF Finish
<1>11. ASSUME NEW t \in Tasks, Step(t) PROVE Good
  <2>1. CASE Insert(t)
    <3>1. AfterInsert(since, since + Len(task[t].batch)) # "insert"
      BY DEF AfterInsert
    <3> QED
      BY <1>6, <2>1, <3>1 DEF Insert
  <2>2. CASE Prune(t)
    <3> DEFINE x == [Idle EXCEPT !.pc = "look", !.force = TRUE]
    <3>1. x.pc = "look" /\ x.at = 0
      BY <1>4
    <3>2. task' = [task EXCEPT ![t] = x]
      BY <2>2 DEF Prune
    <3> HIDE DEF x
    <3> QED
      BY <1>3, <3>1, <3>2
  <2>3. CASE Look(t)
    <3>1. CASE task' = [task EXCEPT ![t].pc = "count", ![t].at = clock, ![t].force = FALSE]
      <4> DEFINE x == [task[t] EXCEPT !.pc = "count", !.at = clock, !.force = FALSE]
      <4>1. x.pc = "count" /\ x.at = clock
        BY <1>8 DEF Operation
      <4>2. task' = [task EXCEPT ![t] = x]
        BY <1>1, <3>1
      <4> HIDE DEF x
      <4> QED
        BY <1>3, <4>1, <4>2
    <3> QED
      BY <1>10, <2>3, <3>1 DEF Look
  <2>4. CASE Count(t)
    <3>1. PICK n : task' = [task EXCEPT ![t].pc = "shed", ![t].mode = "first", ![t].n = n]
      BY <2>4 DEF Count
    <3> DEFINE x == [task[t] EXCEPT !.pc = "shed", !.mode = "first", !.n = n]
    <3>2. x.pc = "shed" /\ x.at = task[t].at
      BY <1>8 DEF Operation
    <3>3. task' = [task EXCEPT ![t] = x]
      BY <1>1, <3>1
    <3> HIDE DEF x
    <3> QED
      BY <1>3, <3>2, <3>3
  <2>5. CASE Shed(t)
    BY <1>6, <2>5 DEF Shed
  <2>6. CASE Compact(t)
    BY <1>5, <1>10, <2>6 DEF Compact, Failed
  <2>7. CASE Poisons(t) \/ Refused(t)
    BY <1>9, <2>7 DEF Poisons, Refused
  <2>8. CASE Claim(t)
    <3>1. CASE task' = [task EXCEPT ![t].mode = "reopen", ![t].rec = clock]
      <4> DEFINE x == [task[t] EXCEPT !.mode = "reopen", !.rec = clock]
      <4>1. x.pc = task[t].pc /\ x.at = task[t].at
        BY <1>8 DEF Operation
      <4>2. task' = [task EXCEPT ![t] = x]
        BY <1>1, <3>1
      <4> HIDE DEF x
      <4> QED
        BY <1>3, <4>1, <4>2
    <3> QED
      BY <1>5, <2>8, <3>1 DEF Claim, Failed
  <2>9. CASE Reopen(t)
    <3>1. CASE task' = [task EXCEPT ![t].mode = "retry", ![t].rec = 0]
      <4> DEFINE x == [task[t] EXCEPT !.mode = "retry", !.rec = 0]
      <4>1. x.pc = task[t].pc /\ x.at = task[t].at
        BY <1>8 DEF Operation
      <4>2. task' = [task EXCEPT ![t] = x]
        BY <1>1, <3>1
      <4> HIDE DEF x
      <4> QED
        BY <1>3, <4>1, <4>2
    <3> QED
      BY <1>5, <2>9, <3>1 DEF Reopen, Failed
  <2> QED
    BY <1>11, <2>1, <2>2, <2>3, <2>4, <2>5, <2>6, <2>7, <2>8, <2>9 DEF Step
<1>12. ASSUME NEW batch \in Batches, Receive(batch) PROVE Good
  <2> DEFINE x == [Idle EXCEPT !.pc = "insert", !.at = clock, !.batch = batch]
  <2>1. x.at = clock
    BY <1>4
  <2>2. task' = [task EXCEPT !["collector"] = x] /\ ring' = ring
    BY <1>12 DEF Receive
  <2> HIDE DEF x
  <2> QED
    BY <1>2, <1>3, <2>1, <2>2
<1>13. ASSUME Tell PROVE Good
  BY <1>2, <1>5, <1>13 DEF Tell
<1>14. ASSUME Sweep PROVE Good
  <2> DEFINE x == [Idle EXCEPT !.pc = "prune", !.at = clock]
  <2>1. x.at = clock /\ x.pc = "prune"
    BY <1>4
  <2>2. task' = [task EXCEPT !["sweeper"] = x]
    BY <1>14 DEF Sweep
  <2> HIDE DEF x
  <2> QED
    BY <1>2, <1>3, <2>1, <2>2
<1>15. ASSUME UNCHANGED task PROVE Good
  BY <1>15 DEF Stamps, Batch
<1>16. ASSUME Open PROVE Good
  <2> DEFINE x == [Idle EXCEPT !.pc = "look", !.force = TRUE]
  <2>1. x.at = 0 /\ x.pc = "look"
    BY <1>4
  <2>2. UNCHANGED task \/ task' = [task EXCEPT !["sweeper"] = x]
    BY <1>16 DEF Open
  <2> HIDE DEF x
  <2> QED
    BY <1>2, <1>3, <1>15, <2>1, <2>2
<1>17. ASSUME Crash PROVE Good
  <2>1. task' = [u \in Tasks |-> Idle]
    BY <1>17 DEF Crash
  <2>2. \A u \in Tasks : task'[u].at = 0 /\ task'[u].pc = "idle"
    BY <1>4, <2>1
  <2> QED
    BY <1>2, <2>2 DEF Stamps, Batch
<1>18. ASSUME Tick \/ SetBack \/ RecoverWaitEnds \/ RoomWaitEnds \/ UNCHANGED vars PROVE Good
  BY <1>15, <1>18 DEF Tick, SetBack, RecoverWaitEnds, RoomWaitEnds, vars
<1>19. Good
  BY <1>11, <1>12, <1>13, <1>14, <1>16, <1>17, <1>18 DEF Next
<1> QED
  BY <1>19 DEF Stamps, Batch

LEMMA OrderStep ==
  ASSUME IInv, [Next]_vars
  PROVE  RingInv' /\ OrderInv'
<1>1. Moved(ring')
  BY RingMoves
<1>2. /\ Rows(ring') /\ Indexed(ring') /\ Agree(ring')
      /\ spent.back = 0 =>
           /\ InOrder(ring') /\ SeenBy(ring', clock)
           /\ task["collector"].pc = "insert" => SeenBy(ring', task["collector"].at)
  BY <1>1, MovedKept
<1>3. RingInv'
  BY <1>2 DEF RingInv
<1>4. SUFFICES ASSUME spent'.back = 0
      PROVE  /\ InOrder(ring') /\ SeenBy(ring', clock')
             /\ \A t \in Tasks : task'[t].at <= clock'
             /\ task'["collector"].pc = "insert" => SeenBy(ring', task'["collector"].at)
  BY <1>3 DEF OrderInv
<1>5. spent.back = 0 /\ clock' \in {clock, clock + 1} /\ clock \in Nat
  BY <1>4, TypesStep DEF IInv, TypesInv
<1>6. InOrder(ring') /\ SeenBy(ring', clock)
  BY <1>2, <1>5
<1>7. SeenBy(ring', clock')
  <2>1. \A s \in Seqs(ring') : ring'.events[s].seen \in Int /\ ring'.events[s].seen <= clock
    BY <1>2, <1>6 DEF Rows, SeenBy
  <2>2. \A s \in Seqs(ring') : ring'.events[s].seen <= clock'
    BY <1>5, <2>1
  <2> QED
    BY <2>2 DEF SeenBy
<1>8. ASSUME NEW t \in Tasks PROVE task'[t].at <= clock'
  <2>1. task[t].at \in Nat /\ task[t].at <= clock
    BY <1>5 DEF IInv, OrderInv, TypesInv, Operation
  <2>2. task'[t].at \in {0, clock, task[t].at}
    BY StampMoves
  <2> QED
    BY <1>5, <2>1, <2>2
<1>9. ASSUME task'["collector"].pc = "insert" PROVE SeenBy(ring', task'["collector"].at)
  <2>1. \/ /\ task["collector"].pc = "insert"
           /\ task'["collector"].at = task["collector"].at
        \/ task'["collector"].at = clock /\ ring' = ring
    BY <1>9, StampMoves
  <2> QED
    BY <1>2, <1>5, <1>6, <2>1
<1> QED
  BY <1>6, <1>7, <1>8, <1>9

\* Where the ring, the handle and the counter stay, the bound can be lost only by a sweeper
\* that is swept without having been, or by a collector that gives its prune up.
LEMMA BoundCarried ==
  ASSUME IInv, ring' = ring, db' = db, since' = since, Swept' => Swept,
         /\ task["collector"].pc = "prune" /\ task["collector"].mode = "first"
         => task'["collector"].pc = "prune" /\ task'["collector"].mode = "first"
  PROVE  BoundInv'
<1>1. since \in 0..(PruneEvery - 1) /\ Cap \in Nat /\ PruneEvery \in Nat /\ BatchMax \in Nat
  BY RingAssumption DEF IInv, TypesInv
<1>2. Cardinality(Seqs(ring)) \in Nat
  BY SetsOf DEF IInv, RingInv
<1>3. Allowed' >= Allowed /\ Allowed' \in Nat /\ Allowed \in Nat
  BY <1>1 DEF Allowed
<1>4. Seqs(ring)' = Seqs(ring)
  BY DEF Seqs
<1> QED
  BY <1>2, <1>3, <1>4 DEF IInv, BoundInv

LEMMA BoundRestored ==
  ASSUME IInv, [Next]_vars,
         ring' = EmptyRing \/ \E now, shed \in Int : ring' = Pruned(ring, now, shed)
  PROVE  BoundInv'
<1>1. since' \in 0..(PruneEvery - 1) /\ Cap \in Nat /\ PruneEvery \in Nat \ {0} /\ BatchMax \in Nat
  BY TypesStep, RingAssumption DEF TypesInv
<1>2. Rows(ring) /\ Indexed(ring) /\ Agree(ring)
  BY DEF IInv, RingInv
<1>3. Cardinality(Seqs(ring')) <= Cap
  <2>1. CASE ring' = EmptyRing
    BY <1>1, <2>1, EmptyRingRows, FS_EmptySet
  <2>2. ASSUME NEW now \in Int, NEW shed \in Int, ring' = Pruned(ring, now, shed)
        PROVE  Cardinality(Seqs(ring')) <= Cap
    <3>1. /\ Seqs(ring') = Seqs(ring) \ Gone(ring, now, shed)
          /\ \A s \in Seqs(ring') : ring'.events[s] = ring.events[s]
      BY <1>2, <2>2, PrunedKept
    <3> QED
      BY <1>2, <3>1, PrunedBounds, ZenonT(40)
  <2> QED
    BY <2>1, <2>2
<1>4. Cardinality(Seqs(ring')) \in Nat
  BY SetsOf, OrderStep DEF RingInv
<1>5. Allowed' \in Nat /\ Allowed' >= Cap
  <2>1. PruneEvery - 1 + BatchMax \in Nat /\ since' \in Nat
    BY <1>1
  <2>2. \/ Allowed' = Cap + (PruneEvery - 1 + BatchMax)
        \/ Allowed' = Cap + since'
    BY DEF Allowed
  <2> QED
    BY <1>1, <2>1, <2>2
<1>6. Seqs(ring)' = Seqs(ring')
  BY DEF Seqs
<1> QED
  BY <1>1, <1>3, <1>4, <1>5, <1>6 DEF BoundInv

LEMMA BoundStep ==
  ASSUME IInv, [Next]_vars
  PROVE  BoundInv'
<1>1. TypesInv /\ TasksInv /\ RingInv /\ BoundInv
  BY DEF IInv
<1>2. /\ task \in [Tasks -> Operation] /\ since \in 0..(PruneEvery - 1) /\ Cap \in Nat
      /\ PruneEvery \in Nat \ {0} /\ BatchMax \in Nat
  BY <1>1, RingAssumption DEF TypesInv
<1>3. "collector" \in Tasks /\ "sweeper" \in Tasks /\ "collector" # "sweeper"
      /\ Tasks = {"collector", "sweeper"}
  BY DEF Tasks
<1>4. \A t \in Tasks : /\ task[t].pc = "insert" => t = "collector" /\ task[t].batch \in Batches
                       /\ task[t].at \in Int /\ task[t].rec \in Int /\ task[t].n \in Int
  <2>1. \A t \in Tasks : task[t] \in Operation
    BY <1>2
  <2> QED
    BY <1>1, <2>1 DEF TasksInv, OperationInv, Operation
<1>5. Idle.pc = "idle" /\ Idle.mode = "first"
  BY DEF Idle
<1> DEFINE Waits(p) == p.pc = "prune" /\ p.mode = "first"
\* A sweeper that is done with anything but a prune not yet tried leaves what it found.
<1>6. ASSUME task' = [task EXCEPT !["sweeper"] = Idle], stage' = StageAfter("sweeper"), ring' = ring,
             db' = db, since' = since, task["sweeper"].pc # "idle", ~Waits(task["sweeper"])
      PROVE  BoundInv'
  <2>1. task'["sweeper"] = Idle /\ task'["collector"] = task["collector"]
    BY <1>2, <1>3, <1>6
  <2>2. Swept' => Swept
    BY <1>1, <1>3, <1>5, <1>6, <2>1 DEF Swept, StageAfter, TypesInv
  <2> QED
    BY <1>6, <2>1, <2>2, BoundCarried
<1>7. ASSUME NEW t \in Tasks, NEW x, task' = [task EXCEPT ![t] = x], stage' = stage, ring' = ring,
             db' = db, since' = since, task[t].pc # "idle", ~Waits(task[t])
      PROVE  BoundInv'
  <2>1. task'[t] = x /\ \A u \in Tasks \ {t} : task'[u] = task[u]
    BY <1>2, <1>7
  <2>2. CASE t = "sweeper"
    <3>1. task'["collector"] = task["collector"]
      BY <1>3, <2>1, <2>2
    <3>2. Swept' => Swept
      BY <1>7, <2>2 DEF Swept
    <3> QED
      BY <1>7, <3>1, <3>2, BoundCarried
  <2>3. CASE t = "collector"
    <3>1. task'["sweeper"] = task["sweeper"]
      BY <1>3, <2>1, <2>3
    <3>2. Swept' => Swept
      BY <1>7, <3>1 DEF Swept
    <3> QED
      BY <1>7, <2>3, <3>2, BoundCarried
  <2> QED
    BY <1>3, <2>2, <2>3
<1>8. ASSUME db' # "open" PROVE BoundInv'
  BY <1>8 DEF BoundInv
<1>9. ASSUME NEW t \in Tasks, Ended(t), stage' = StageAfter(t), ring' = ring, db' = db, since' = since,
             task[t].pc # "idle", ~Waits(task[t])
      PROVE  BoundInv'
  <2>1. task' = [task EXCEPT ![t] = Idle]
    BY <1>9 DEF Ended
  <2>2. CASE t = "sweeper"
    BY <1>6, <1>9, <2>1, <2>2
  <2>3. CASE t = "collector"
    <3>1. stage' = stage
      BY <1>9, <2>3 DEF StageAfter
    <3> QED
      BY <1>7, <1>9, <2>1, <3>1
  <2> QED
    BY <1>3, <2>2, <2>3
<1>10. ASSUME NEW t \in Tasks, Finish(t), ring' = ring, db' = db, since' = since, task[t].pc # "idle",
              ~Waits(task[t])
       PROVE  BoundInv'
  <2>1. CASE t = "collector" /\ Goto(t, "tell") /\ UNCHANGED stage
    <3>1. PICK x : task' = [task EXCEPT ![t] = x]
      BY <2>1 DEF Goto
    <3>2. stage' = stage
      BY <2>1
    <3> QED
      BY <1>7, <1>10, <3>1, <3>2
  <2>2. CASE t = "sweeper" /\ Ended(t) /\ stage' = StageAfter(t)
    BY <1>9, <1>10, <2>2
  <2> QED
    BY <1>10, <2>1, <2>2 DEF Finish
<1>11. ASSUME NEW t \in Tasks, Step(t) PROVE BoundInv'
  <2>1. CASE Insert(t)
    <3> DEFINE out == Stored(ring, task[t].batch, task[t].at)
               n   == since + Len(task[t].batch)
               pc  == AfterInsert(since, n)
               x   == [Idle EXCEPT !.pc = pc, !.at = IF pc = "prune" THEN task[t].at ELSE 0]
    <3>1. /\ t = "collector" /\ task[t].batch \in Batches /\ task[t].pc = "insert"
          /\ ring' = out.ring /\ since' = Counted(n) /\ db = "open" /\ stage' = stage
          /\ task' = [task EXCEPT ![t] = x]
      BY <1>4, <2>1 DEF Insert, Trying, Goto
    <3>2. Len(task[t].batch) \in 0..BatchMax
      BY <1>2, <3>1 DEF Batches
    <3>3. x.pc = pc /\ x.mode = "first"
      BY DEF Idle
    <3>4. /\ n \in Nat /\ n <= PruneEvery - 1 + BatchMax
          /\ (pc = "prune" <=> n >= PruneEvery) /\ since' = IF n >= PruneEvery THEN 0 ELSE n
      BY <1>2, <3>1, <3>2 DEF AfterInsert, Counted
    <3> HIDE DEF x, n, pc
    <3>5. task'["collector"] = x /\ task'["sweeper"] = task["sweeper"]
      BY <1>2, <1>3, <3>1
    <3>6. Swept' => Swept
      BY <3>1, <3>5 DEF Swept
    <3>7. Cardinality(Seqs(ring')) <= Cardinality(Seqs(ring)) + Len(task[t].batch)
      <4>1. Dedups \subseteq BOOLEAN /\ dedup \in Dedups
        BY <1>1, RingAssumption DEF TypesInv
      <4> QED
        BY <1>1, <1>4, <3>1, <4>1, StoredKept DEF RingInv
    <3>8. Cardinality(Seqs(ring)) \in Nat /\ Cardinality(Seqs(ring')) \in Nat
      BY <1>1, SetsOf, OrderStep DEF RingInv
    <3>9. Swept => Cardinality(Seqs(ring)) <= Cap + since
      BY <1>1, <3>1 DEF BoundInv, Allowed
    <3>10. Swept => Cardinality(Seqs(ring')) <= Cap + n
      BY <1>2, <3>2, <3>7, <3>8, <3>9 DEF n
    <3>11. Allowed' >= Cap + n
      <4>1. Allowed' = Cap + (IF pc = "prune" THEN PruneEvery - 1 + BatchMax ELSE since')
        BY <3>3, <3>5 DEF Allowed
      <4> QED
        BY <1>2, <3>4, <4>1
    <3>12. Allowed' \in Int
      BY <1>2, <3>4 DEF Allowed
    <3>13. Seqs(ring)' = Seqs(ring')
      BY DEF Seqs
    <3> QED
      BY <1>2, <3>4, <3>6, <3>8, <3>10, <3>11, <3>12, <3>13 DEF BoundInv
  <2>2. CASE Prune(t)
    BY <1>4, <2>2, BoundRestored DEF Prune
  <2>3. CASE Shed(t)
    BY <1>4, <2>3, BoundRestored DEF Shed
  <2>4. CASE Look(t)
    <3>1. task[t].pc = "look" /\ ring' = ring /\ db' = db /\ since' = since
      BY <2>4 DEF Look, Trying
    <3>2. CASE task' = [task EXCEPT ![t].pc = "count", ![t].at = clock, ![t].force = FALSE]
               /\ UNCHANGED stage
      <4>1. PICK x : task' = [task EXCEPT ![t] = x]
        <5>1. task' = [task EXCEPT ![t] = [task[t] EXCEPT !.pc = "count", !.at = clock, !.force = FALSE]]
          BY <1>2, <3>2
        <5> QED
          BY <5>1
      <4> QED
        BY <1>7, <3>1, <3>2, <4>1
    <3> QED
      BY <1>10, <2>4, <3>1, <3>2 DEF Look
  <2>5. CASE Count(t)
    <3>1. task[t].pc = "count" /\ ring' = ring /\ db' = db /\ since' = since /\ stage' = stage
      BY <2>5 DEF Count, Trying
    <3>2. PICK n : task' = [task EXCEPT ![t].pc = "shed", ![t].mode = "first", ![t].n = n]
      BY <2>5 DEF Count
    <3>3. task' = [task EXCEPT ![t] = [task[t] EXCEPT !.pc = "shed", !.mode = "first", !.n = n]]
      BY <1>2, <3>2
    <3> QED
      BY <1>7, <3>1, <3>3
  <2>6. CASE Compact(t)
    <3>1. task[t].pc = "compact" /\ ring' = ring /\ since' = since
      BY <2>6 DEF Compact, Trying
    <3>2. \/ db' = db /\ (Finish(t) \/ Failed(t))
          \/ db' # "open"
      BY <2>6 DEF Compact
    <3> QED
      BY <1>8, <1>9, <1>10, <3>1, <3>2 DEF Failed
  <2>7. CASE Poisons(t) \/ Refused(t)
    BY <1>8, <2>7 DEF Poisons, Refused
  <2>8. CASE Claim(t)
    <3>1. task[t].mode = "recover" /\ ring' = ring /\ db' = db /\ since' = since
      BY <2>8 DEF Claim
    <3>2. task[t].pc # "idle" /\ ~Waits(task[t])
      BY <1>1, <1>11, <3>1, BusyIsUp
    <3>3. CASE task' = [task EXCEPT ![t].mode = "reopen", ![t].rec = clock] /\ UNCHANGED stage
      <4>1. task' = [task EXCEPT ![t] = [task[t] EXCEPT !.mode = "reopen", !.rec = clock]]
        BY <1>2, <3>3
      <4>2. stage' = stage
        BY <3>3
      <4> QED
        BY <1>7, <3>1, <3>2, <4>1, <4>2
    <3>4. CASE Failed(t)
      BY <1>9, <3>1, <3>2, <3>4 DEF Failed
    <3> QED
      BY <2>8, <3>3, <3>4 DEF Claim
  <2>9. CASE Reopen(t)
    <3>1. Cardinality(Seqs(ring)) \div 2 \in Int
      BY <1>1, SetsOf DEF RingInv
    <3>2. \/ db' # "open"
          \/ ring' = EmptyRing \/ \E now, shed \in Int : ring' = Pruned(ring, now, shed)
      BY <1>4, <2>9, <3>1 DEF Reopen
    <3> QED
      BY <1>8, <3>2, BoundRestored
  <2> QED
    BY <1>11, <2>1, <2>2, <2>3, <2>4, <2>5, <2>6, <2>7, <2>8, <2>9 DEF Step
<1>12. ASSUME NEW batch \in Batches, Receive(batch) PROVE BoundInv'
  <2>1. PICK x : task' = [task EXCEPT !["collector"] = x]
    BY <1>12 DEF Receive
  <2>2. task'["sweeper"] = task["sweeper"]
    BY <1>2, <1>3, <2>1
  <2>3. /\ task["collector"].pc = "idle" /\ ring' = ring /\ db' = db /\ since' = since
        /\ stage' = stage
    BY <1>12 DEF Receive
  <2>4. Swept' => Swept
    BY <2>2, <2>3 DEF Swept
  <2> QED
    BY <2>3, <2>4, BoundCarried
<1>13. ASSUME Tell PROVE BoundInv'
  <2>1. /\ task' = [task EXCEPT !["collector"] = Idle] /\ task["collector"].pc = "tell"
        /\ ring' = ring /\ db' = db /\ since' = since /\ stage' = stage
    BY <1>13 DEF Tell, Ended
  <2> QED
    BY <1>3, <1>7, <2>1
<1>14. ASSUME Sweep PROVE BoundInv'
  <2>1. /\ task' = [task EXCEPT !["sweeper"] = [Idle EXCEPT !.pc = "prune", !.at = clock]]
        /\ ring' = ring /\ db' = db /\ since' = since /\ stage' = stage
    BY <1>14 DEF Sweep
  <2>2. task'["collector"] = task["collector"] /\ Waits(task'["sweeper"])
    BY <1>2, <1>3, <2>1 DEF Idle
  <2>3. Swept' => Swept
    BY <2>1, <2>2 DEF Swept
  <2> QED
    BY <2>1, <2>2, <2>3, BoundCarried
<1>15. ASSUME Open PROVE BoundInv'
  <2>1. stage = "opening" /\ stage' = stage
    BY <1>1, <1>15 DEF Open, TasksInv
  <2> QED
    BY <2>1 DEF BoundInv, Swept
<1>16. ASSUME Crash PROVE BoundInv'
  BY <1>8, <1>16 DEF Crash
<1>17. ASSUME Tick \/ SetBack \/ RecoverWaitEnds \/ RoomWaitEnds \/ UNCHANGED vars PROVE BoundInv'
  <2>1. ring' = ring /\ db' = db /\ since' = since /\ task' = task /\ stage' = stage
    BY <1>17 DEF Tick, SetBack, RecoverWaitEnds, RoomWaitEnds, vars
  <2>2. Swept' => Swept
    BY <2>1 DEF Swept
  <2> QED
    BY <2>1, <2>2, BoundCarried
<1> QED
  BY <1>11, <1>12, <1>13, <1>14, <1>15, <1>16, <1>17 DEF Next

LEMMA Invariant == Spec => []IInv
<1>1. IInv /\ [Next]_vars => IInv'
  <2> SUFFICES ASSUME IInv, [Next]_vars PROVE IInv'
    OBVIOUS
  <2>1. TypesInv' /\ TasksInv'
    BY TypesStep, TasksStep
  <2>2. RingInv' /\ OrderInv'
    BY OrderStep
  <2>3. BoundInv'
    BY BoundStep
  <2> QED
    BY <2>1, <2>2, <2>3 DEF IInv
<1> QED
  BY <1>1, InitInv, PTL DEF Spec

-----------------------------------------------------------------------------
(* What the runs check. *)

\* Every line in the ring is indexed by its newest entry, which is of that line: index and
\* entries are written, moved and pruned together.
THEOREM LinesAreFound == Spec => []IndexFollows
<1>1. IInv => IndexFollows
  <2> SUFFICES ASSUME Rows(ring), Indexed(ring), NEW s \in Seqs(ring)
               PROVE  LET l == ring.events[s].line
                      IN  /\ ring.index[l] >= s
                          /\ ring.index[l] \in Seqs(ring)
                          /\ ring.events[ring.index[l]].line = l
    BY DEF IInv, RingInv, IndexFollows
  <2>1. ring.events[s].line \in Lines
    BY DEF Rows
  <2> QED
    BY <2>1 DEF Indexed
<1> QED
  BY <1>1, Invariant, PTL

\* Deduplication that is never off leaves a line one entry, through every restart.
THEOREM LinesStoredOnce == Spec => []OneEntryEach
<1>1. IInv => OneEntryEach
  BY DEF IInv, RingInv, Indexed, OneEntryEach
<1> QED
  BY <1>1, Invariant, PTL

\* The aggregates that insert_in and prune_in maintain are what counting the ring gives,
\* after any batches, prunes, sheds, recoveries and restarts.
THEOREM AggregatesStayTrue == Spec => []AggregatesAgree
<1>1. IInv => AggregatesAgree
  <2> SUFFICES ASSUME Agree(ring) PROVE AggregatesAgree
    BY DEF IInv, RingInv
  <2>1. \A V : CountOf(ring, V) = MapThenSumSet(LAMBDA s : ring.events[s].count, V)
    BY DEF CountOf
  <2>2. \A h \in Hosts :
          ring.hosts[h] = [count |-> ring.hosts[h].count, entries |-> ring.hosts[h].entries]
    BY DEF Agree
  <2> QED
    BY <2>1, <2>2 DEF Agree, AggregatesAgree, Of
<1> QED
  BY <1>1, Invariant, PTL

\* Once swept since boot an open ring is within its cap and what came since the collector
\* last pruned, whatever fails and is tried again.
THEOREM RingStaysBounded == Spec => []RingBounded
<1>1. IInv => RingBounded
  <2> SUFFICES ASSUME IInv, stage = "swept", db = "open"
               PROVE  Cardinality(Seqs(ring)) <=
                        Cap + (IF task["collector"].pc = "prune" THEN PruneEvery - 1 + BatchMax ELSE since)
    BY DEF RingBounded
  <2>1. Cardinality(Seqs(ring)) <= Allowed
    BY DEF IInv, BoundInv, Swept
  <2>2. /\ since \in 0..(PruneEvery - 1) /\ Cap \in Nat /\ PruneEvery \in Nat \ {0} /\ BatchMax \in Nat
        /\ Cardinality(Seqs(ring)) \in Nat
    BY RingAssumption, SetsOf DEF IInv, TypesInv, RingInv
  <2>3. since <= PruneEvery - 1 + BatchMax
    BY <2>2
  <2> QED
    BY <2>1, <2>2, <2>3 DEF Allowed
<1> QED
  BY <1>1, Invariant, PTL

\* A prune leaves nothing last seen before its cutoff, although it stops at the first entry
\* still wanted: as long as the clock is never set back the entries are in order.
THEOREM PrunesLeaveNothingOld == Spec => PruneLeavesNothingOld
<1> DEFINE Leaves == \A t \in Tasks :
             Retain > 0 /\ Trying(t, "prune") /\ task'[t].pc = "look" /\ spent.back = 0 =>
               \A s \in Seqs(ring') : ring'.events[s].seen >= task[t].at - Retain
<1>1. IInv /\ [Next]_vars => Leaves
  <2> SUFFICES ASSUME IInv, [Next]_vars, NEW t \in Tasks, Retain > 0, Trying(t, "prune"),
                      task'[t].pc = "look", spent.back = 0
               PROVE  \A s \in Seqs(ring') : ring'.events[s].seen >= task[t].at - Retain
    OBVIOUS
  <2>1. task \in [Tasks -> Operation] /\ task[t].pc = "prune"
    BY DEF IInv, TypesInv, Trying
  <2>2. task'[t] # task[t] /\ task'[t] # Idle /\ task[t].mode \in {"first", "retry"}
    BY <2>1 DEF Idle, Trying
  <2>3. Prune(t)
    <3>1. ASSUME NEW u \in Tasks, Step(u), u # t PROVE FALSE
      <4>1. task'[t] = task[t]
        BY <2>1, <3>1 DEF Step, Insert, Prune, Look, Count, Shed, Compact, Poisons, Refused, Claim,
                          Reopen, Finish, Stumbled, Failed, Ended, Goto
      <4> QED
        BY <2>2, <4>1
    <3>2. ASSUME Step(t), ~Prune(t) PROVE FALSE
      <4>1. CASE Poisons(t) \/ Refused(t)
        <5>1. task'[t].pc = "prune" \/ task'[t] = Idle
          BY <2>1, <4>1 DEF Poisons, Refused, Stumbled, Failed, Ended, Operation
        <5> QED
          BY <2>2, <5>1
      <4> QED
        BY <2>1, <2>2, <3>2, <4>1 DEF Step, Insert, Look, Count, Shed, Compact, Claim, Reopen, Trying
    <3>3. ASSUME NEW batch \in Batches, Receive(batch) PROVE FALSE
      <4>1. t # "collector"
        BY <2>1, <3>3 DEF Receive
      <4>2. task'[t] = task[t]
        BY <2>1, <3>3, <4>1 DEF Receive
      <4> QED
        BY <2>2, <4>2
    <3>4. ASSUME Tell \/ Sweep PROVE FALSE
      <4>1. task'[t] = task[t]
        BY <2>1, <3>4 DEF Tell, Sweep, Ended
      <4> QED
        BY <2>2, <4>1
    <3>5. ASSUME Open PROVE FALSE
      BY <2>1, <3>5 DEF Open, IInv, TasksInv, Idle
    <3>6. ASSUME Crash PROVE FALSE
      BY <2>2, <3>6 DEF Crash
    <3>7. ASSUME Tick \/ SetBack \/ RecoverWaitEnds \/ RoomWaitEnds \/ UNCHANGED vars PROVE FALSE
      BY <2>2, <3>7 DEF Tick, SetBack, RecoverWaitEnds, RoomWaitEnds, vars
    <3> QED
      BY <3>1, <3>2, <3>3, <3>4, <3>5, <3>6, <3>7 DEF Next
  <2>4. ring' = Pruned(ring, task[t].at, 0) /\ task[t].at \in Int
    BY <2>1, <2>3 DEF Prune, Operation
  <2>5. Rows(ring) /\ Indexed(ring) /\ Agree(ring) /\ InOrder(ring)
    BY DEF IInv, RingInv, OrderInv
  <2>6. /\ Seqs(ring') = Seqs(ring) \ Gone(ring, task[t].at, 0)
        /\ \A s \in Seqs(ring') : ring'.events[s] = ring.events[s]
    BY <2>4, <2>5, PrunedKept
  <2> QED
    BY <2>4, <2>5, <2>6, PrunedBounds
<1> QED
  BY <1>1, Invariant, PTL DEF Spec, PruneLeavesNothingOld

=============================================================================
