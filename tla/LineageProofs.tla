----------------------------- MODULE LineageProofs -----------------------------
(***************************************************************************)
(* Proofs about Lineage, for every configuration, seed, number of workers    *)
(* and of generations, and for every hash.                                   *)
(*                                                                           *)
(* The inductive invariant is built in layers: Typed (types, and what the    *)
(* tasks in the pool stand for), Filed (records and checkpoint agree),       *)
(* Traced (ids and parents), Topped (Hall of Fame), Elites (archive).  Steps *)
(* says once what each action does to a lineage; the later layers use it in  *)
(* place of the actions.  Made and Same compare the files with the           *)
(* experiment that is never interrupted.                                     *)
(***************************************************************************)
EXTENDS Lineage, TLAPS, FiniteSetTheorems, SequenceTheorems, WellFoundedInduction

\* A hash is a number, whatever is hashed: stable_seed reads it from the bytes of a digest.
HashIsNatural == \A parts \in Seq(Int) : Hash(parts) \in Nat

--------------------------------------------------------------------------------
(* Numbers and orders *)

\* A population has two candidates or more, and each nominee is one of them.
LEMMA Sizes == /\ Size \in Nat /\ Size >= 2
               /\ NomineeCount \in 1 .. Size
  <1>1. Size \in Nat /\ Size >= 2
    BY LineageAssumption DEF Size
  <1>2. Config.nominees \in Nat \ {0}
    BY LineageAssumption
  <1>3. NomineeCount \in {Config.nominees, Size}
        /\ \A y \in {Config.nominees, Size} : NomineeCount <= y
    <2>1. \E x \in {Config.nominees, Size} : \A y \in {Config.nominees, Size} : x <= y
      BY <1>1, <1>2
    <2> QED
      BY <2>1 DEF NomineeCount, Min
  <1> QED
    BY <1>1, <1>2, <1>3

\* What is drawn is below the number of choices.
LEMMA DrawInRange ==
  ASSUME HashIsNatural, seed \in Nat, NEW parts \in Seq(Int), NEW n \in Nat \ {0}
  PROVE  Draw(parts, n) \in 0 .. n - 1
  <1>1. <<seed>> \o parts \in Seq(Int)
    OBVIOUS
  <1>2. PICK h \in Nat : h = Hash(<<seed>> \o parts)
    BY <1>1 DEF HashIsNatural
  <1>3. h % n \in 0 .. n - 1
    OBVIOUS
  <1> QED
    BY <1>2, <1>3 DEF Draw

\* Tuples of one number compare like numbers.
LEMMA AboveOne ==
  ASSUME NEW a \in Int, NEW x \in Int
  PROVE  Above(<<a>>, <<x>>) <=> a > x
  <1>1. DOMAIN <<a>> = {1} /\ 1 .. 1 - 1 = {} /\ <<a>>[1] = a /\ <<x>>[1] = x
    OBVIOUS
  <1> QED
    BY <1>1 DEF Above

\* Pairs of numbers compare element by element.
LEMMA AboveTwo ==
  ASSUME NEW a \in Int, NEW b \in Int, NEW x \in Int, NEW y \in Int
  PROVE  Above(<<a, b>>, <<x, y>>) <=> a > x \/ (a = x /\ b > y)
  <1>1. DOMAIN <<a, b>> = {1, 2} /\ 1 .. 1 - 1 = {} /\ 1 .. 2 - 1 = {1}
    OBVIOUS
  <1> QED
    BY <1>1 DEF Above

\* Triples too.
LEMMA AboveThree ==
  ASSUME NEW a \in Int, NEW b \in Int, NEW c \in Int, NEW x \in Int, NEW y \in Int, NEW z \in Int
  PROVE  Above(<<a, b, c>>, <<x, y, z>>)
           <=> a > x \/ (a = x /\ b > y) \/ (a = x /\ b = y /\ c > z)
  <1>1. /\ DOMAIN <<a, b, c>> = {1, 2, 3} /\ 1 .. 1 - 1 = {} /\ 1 .. 2 - 1 = {1}
        /\ 1 .. 3 - 1 = {1, 2}
    OBVIOUS
  <1> QED
    BY <1>1 DEF Above

\* The elements of a finite set, strictly and totally ordered by R, that have k before them.
Strict(S, R) ==
  /\ \A x \in S : <<x, x>> \notin R
  /\ \A x, y, z \in S : <<x, y>> \in R /\ <<y, z>> \in R => <<x, z>> \in R
  /\ \A x, y \in S : x # y => <<x, y>> \in R \/ <<y, x>> \in R
Below(S, R, x) == {y \in S : <<y, x>> \in R}

Numbers(S, R) ==
  /\ Cardinality(S) \in Nat
  /\ \A x \in S : Cardinality(Below(S, R, x)) \in 0 .. Cardinality(S) - 1
  /\ \A k \in 0 .. Cardinality(S) - 1 :
       \E x \in S : /\ Cardinality(Below(S, R, x)) = k
                    /\ \A y \in S : Cardinality(Below(S, R, y)) = k => y = x

\* Counting what comes before numbers the elements of a finite set, each once.
LEMMA CountingNumbers ==
  ASSUME NEW S, NEW R, IsFiniteSet(S), Strict(S, R)
  PROVE  Numbers(S, R)
  <1> DEFINE n == Cardinality(S)
  <1> DEFINE Place(x) == Cardinality(Below(S, R, x))
  <1>1. n \in Nat
    BY FS_CardinalityType
  <1>2. ASSUME NEW x \in S PROVE IsFiniteSet(Below(S, R, x)) /\ Place(x) \in 0 .. n - 1
    <2>1. Below(S, R, x) \subseteq S \ {x}
      BY DEF Below, Strict
    <2>2. IsFiniteSet(S \ {x}) /\ Cardinality(S \ {x}) = n - 1
      BY FS_RemoveElement
    <2>3. IsFiniteSet(Below(S, R, x)) /\ Place(x) <= n - 1
      BY <2>1, <2>2, FS_Subset
    <2>4. Place(x) \in Nat
      BY <2>3, FS_CardinalityType
    <2> QED
      BY <2>3, <2>4, <1>1
  <1>3. ASSUME NEW x \in S, NEW y \in S, <<x, y>> \in R PROVE Place(x) < Place(y)
    <2>1. Below(S, R, x) \subseteq Below(S, R, y) /\ x \in Below(S, R, y) \ Below(S, R, x)
      BY <1>3 DEF Below, Strict
    <2>2. Place(x) <= Place(y) /\ (Place(x) = Place(y) => Below(S, R, x) = Below(S, R, y))
      BY <2>1, <1>2, FS_Subset
    <2>3. Place(x) \in Nat /\ Place(y) \in Nat
      BY <1>2
    <2> QED
      BY <2>1, <2>2, <2>3
  <1>4. ASSUME NEW x \in S, NEW y \in S, Place(x) = Place(y) PROVE x = y
    <2>1. Place(x) \in Int /\ Place(y) \in Int
      BY <1>2
    <2>2. <<x, y>> \notin R /\ <<y, x>> \notin R
      BY <1>3, <1>4, <2>1
    <2> QED
      BY <2>2 DEF Strict
  <1> DEFINE f == [x \in S |-> Place(x)]
  <1>5. f \in Injection(S, 0 .. n - 1)
    BY <1>2, <1>4 DEF Injection, IsInjective
  <1>6. IsFiniteSet(0 .. n - 1) /\ Cardinality(0 .. n - 1) = n
    BY <1>1, FS_Interval
  <1>7. f \in Surjection(S, 0 .. n - 1)
    BY <1>5, <1>6, FS_Injection
  <1>8. \A k \in 0 .. n - 1 : \E x \in S : Place(x) = k
    BY <1>7 DEF Surjection
  <1> QED
    BY <1>1, <1>2, <1>4, <1>8 DEF Numbers

\* A finite set of numbers in ascending order: every element once.
LEMMA SortedNumbers ==
  ASSUME NEW S \in SUBSET Int, IsFiniteSet(S)
  PROVE  /\ Cardinality(S) \in Nat
         /\ Sorted(S, <) \in [1 .. Cardinality(S) -> S]
         /\ \A i \in 1 .. Cardinality(S) : Cardinality({y \in S : y < Sorted(S, <)[i]}) = i - 1
         /\ \A x \in S : \E i \in 1 .. Cardinality(S) : Sorted(S, <)[i] = x
  <1> DEFINE n == Cardinality(S)
  <1>0. PICK R : R = {p \in S \X S : p[1] < p[2]}
    OBVIOUS
  <1>1. Strict(S, R)
    BY <1>0 DEF Strict
  <1>2. \A x \in S : Below(S, R, x) = {y \in S : y < x}
    BY <1>0 DEF Below
  <1>3. Numbers(S, R)
    BY <1>1, CountingNumbers
  <1>4. /\ n \in Nat
        /\ \A x \in S : Cardinality({y \in S : y < x}) \in 0 .. n - 1
        /\ \A k \in 0 .. n - 1 :
             \E x \in S : /\ Cardinality({y \in S : y < x}) = k
                          /\ \A z \in S : Cardinality({y \in S : y < z}) = k => z = x
    <2>1. /\ Cardinality(S) \in Nat
          /\ \A x \in S : Cardinality(Below(S, R, x)) \in 0 .. Cardinality(S) - 1
          /\ \A k \in 0 .. Cardinality(S) - 1 :
               \E x \in S : /\ Cardinality(Below(S, R, x)) = k
                            /\ \A y \in S : Cardinality(Below(S, R, y)) = k => y = x
      BY <1>3 DEF Numbers
    <2>2. \A x \in S : Cardinality({y \in S : y < x}) = Cardinality(Below(S, R, x))
      BY <1>2
    <2> QED
      BY <2>1, <2>2
  <1>5. ASSUME NEW i \in 1 .. n
        PROVE  Sorted(S, <)[i] \in S /\ Cardinality({y \in S : y < Sorted(S, <)[i]}) = i - 1
    <2>1. i - 1 \in 0 .. n - 1
      BY <1>4
    <2>2. \E x \in S : Cardinality({y \in S : y < x}) = i - 1
      BY <1>4, <2>1
    <2>3. Sorted(S, <)[i] = CHOOSE x \in S : Cardinality({y \in S : y < x}) = i - 1
      BY DEF Sorted
    <2> QED
      BY <2>2, <2>3
  <1>6. ASSUME NEW x \in S PROVE \E i \in 1 .. n : Sorted(S, <)[i] = x
    <2>1. Cardinality({y \in S : y < x}) + 1 \in 1 .. n
      BY <1>4
    <2>2. PICK i \in 1 .. n : i = Cardinality({y \in S : y < x}) + 1
      BY <2>1
    <2>3. i - 1 \in 0 .. n - 1 /\ Cardinality({y \in S : y < x}) = i - 1
      BY <1>4, <2>2
    <2>4. Sorted(S, <)[i] = x
      BY <1>4, <1>5, <2>3
    <2> QED
      BY <2>4
  <1>7. Sorted(S, <) \in [1 .. n -> S]
    <2>1. Sorted(S, <) = [i \in 1 .. n |-> CHOOSE x \in S : Cardinality({y \in S : y < x}) = i - 1]
      BY DEF Sorted
    <2> QED
      BY <2>1, <1>5
  <1> QED
    BY <1>4, <1>5, <1>6, <1>7

--------------------------------------------------------------------------------
(* Ranks *)

\* No two candidates of a population have the same id.
Distinct(population) == \A i, j \in 1 .. Size : population[i].id = population[j].id => i = j

\* Candidates that were tried compare by fitness, genome and id.
LEMMA RankOrder ==
  ASSUME NEW c \in Candidates(Tested), NEW d \in Candidates(Tested)
  PROVE  /\ Fitness(c) \in Nat
         /\ Outranks(c, d) <=>
              \/ Fitness(c) > Fitness(d)
              \/ Fitness(c) = Fitness(d) /\ c.genome # d.genome
                 /\ (c.genome > d.genome <=> version = "v37")
              \/ Fitness(c) = Fitness(d) /\ c.genome = d.genome /\ c.id < d.id
  <1>1. ASSUME NEW e \in Candidates(Tested)
        PROVE  Fitness(e) \in Nat /\ e.genome \in Nat /\ e.id \in Nat
    <2>1. e.trials \in Nat \X Nat /\ e.genome \in Nat /\ e.id \in Nat
      BY DEF Candidates, Tested
    <2>2. e.trials[1] \in Nat /\ e.trials[2] \in Nat
      BY <2>1
    <2> QED
      BY <2>1, <2>2 DEF Fitness
  <1> DEFINE key(e) == IF version = "v37" THEN e.genome ELSE -e.genome
  <1>2. PICK a \in Nat, x \in Nat : a = Fitness(c) /\ x = Fitness(d)
    BY <1>1
  <1>3. PICK b \in Int, y \in Int : b = key(c) /\ y = key(d)
    BY <1>1
  <1>4. PICK k \in Int, z \in Int : k = -c.id /\ z = -d.id
    BY <1>1
  <1>5. Outranks(c, d) <=> Above(<<a, b, k>>, <<x, y, z>>)
    BY <1>2, <1>3, <1>4 DEF Outranks, RankKey
  <1>6. Outranks(c, d) <=> a > x \/ (a = x /\ b > y) \/ (a = x /\ b = y /\ k > z)
    BY <1>5, AboveThree
  <1>7. /\ b > y <=> c.genome # d.genome /\ (c.genome > d.genome <=> version = "v37")
        /\ b = y <=> c.genome = d.genome
        /\ k > z <=> c.id < d.id
    BY <1>1, <1>3, <1>4
  <1> QED
    BY <1>1, <1>2, <1>6, <1>7

\* Ranking puts the same candidates in another order.
LEMMA RankPermutes ==
  ASSUME NEW p \in Populations(Tested), Distinct(p)
  PROVE  /\ Rank(p) \in Populations(Tested)
         /\ Distinct(Rank(p))
         /\ Range(Rank(p)) = Range(p)
  <1> DEFINE S == Range(p)
  <1>1. S = {p[i] : i \in 1 .. Size} /\ \A c \in S : c \in Candidates(Tested)
    BY DEF Range, Populations
  <1>2. \A c, d \in S : c # d => c.id # d.id
    BY <1>1 DEF Distinct
  <1>3. IsFiniteSet(S) /\ Cardinality(S) = Size
    <2>1. IsFiniteSet(1 .. Size) /\ Cardinality(1 .. Size) = Size
      BY Sizes, FS_Interval
    <2>2. p \in Surjection(1 .. Size, S) /\ p \in Injection(1 .. Size, S)
      <3>1. p \in [1 .. Size -> S]
        BY <1>1 DEF Populations
      <3>2. \A t \in S : \E i \in 1 .. Size : p[i] = t
        BY <1>1
      <3>3. \A i, j \in 1 .. Size : p[i] = p[j] => i = j
        BY DEF Distinct
      <3> QED
        BY <3>1, <3>2, <3>3 DEF Surjection, Injection, IsInjective
    <2> QED
      BY <2>1, <2>2, FS_Surjection
  <1>4. PICK R : R = {q \in S \X S : Outranks(q[1], q[2])}
    OBVIOUS
  <1>5. \A c, d \in S : <<c, d>> \in R <=> Outranks(c, d)
    BY <1>4
  <1>6. Strict(S, R)
    <2>1. \A c \in S : ~Outranks(c, c)
      <3> TAKE c \in S
      <3>1. c \in Candidates(Tested)
        BY <1>1
      <3>2. Fitness(c) \in Nat /\ c.genome \in Nat /\ c.id \in Nat
        BY <3>1, RankOrder DEF Candidates
      <3> QED
        BY <3>1, <3>2, RankOrder
    <2>2. \A c, d, e \in S : Outranks(c, d) /\ Outranks(d, e) => Outranks(c, e)
      <3> TAKE c, d, e \in S
      <3>1. c \in Candidates(Tested) /\ d \in Candidates(Tested) /\ e \in Candidates(Tested)
        BY <1>1
      <3>2. /\ Fitness(c) \in Nat /\ c.genome \in Nat /\ c.id \in Nat
            /\ Fitness(d) \in Nat /\ d.genome \in Nat /\ d.id \in Nat
            /\ Fitness(e) \in Nat /\ e.genome \in Nat /\ e.id \in Nat
        BY <3>1, RankOrder DEF Candidates
      <3> QED
        BY <3>1, <3>2, RankOrder
    <2>3. \A c, d \in S : c # d => Outranks(c, d) \/ Outranks(d, c)
      <3> TAKE c, d \in S
      <3>1. c \in Candidates(Tested) /\ d \in Candidates(Tested)
        BY <1>1
      <3>2. /\ Fitness(c) \in Nat /\ c.genome \in Nat /\ c.id \in Nat
            /\ Fitness(d) \in Nat /\ d.genome \in Nat /\ d.id \in Nat
        BY <3>1, RankOrder DEF Candidates
      <3> QED
        BY <1>2, <3>1, <3>2, RankOrder
    <2> QED
      BY <2>1, <2>2, <2>3, <1>5 DEF Strict
  <1>7. Numbers(S, R)
    BY <1>3, <1>6, CountingNumbers
  <1>8. \A c \in S : Below(S, R, c) = {d \in S : Outranks(d, c)}
    BY <1>5 DEF Below
  <1>9. /\ \A c \in S : Cardinality({d \in S : Outranks(d, c)}) \in 0 .. Size - 1
        /\ \A k \in 0 .. Size - 1 :
             \E c \in S : /\ Cardinality({d \in S : Outranks(d, c)}) = k
                          /\ \A e \in S : Cardinality({d \in S : Outranks(d, e)}) = k => e = c
    BY <1>3, <1>7, <1>8 DEF Numbers
  <1>10. Rank(p) = [i \in 1 .. Size |->
                      CHOOSE c \in S : Cardinality({d \in S : Outranks(d, c)}) = i - 1]
    BY <1>3 DEF Rank, Sorted
  <1>11. ASSUME NEW i \in 1 .. Size
         PROVE  Rank(p)[i] \in S /\ Cardinality({d \in S : Outranks(d, Rank(p)[i])}) = i - 1
    <2>1. i - 1 \in 0 .. Size - 1
      BY Sizes
    <2>2. \E c \in S : Cardinality({d \in S : Outranks(d, c)}) = i - 1
      BY <1>9, <2>1
    <2>3. Rank(p)[i] = CHOOSE c \in S : Cardinality({d \in S : Outranks(d, c)}) = i - 1
      BY <1>10
    <2> QED
      BY <2>2, <2>3
  <1>12. \A c \in S : \E i \in 1 .. Size : Rank(p)[i] = c
    <2> TAKE c \in S
    <2>1. PICK i \in 1 .. Size : i - 1 = Cardinality({d \in S : Outranks(d, c)})
      <3>1. PICK k \in 0 .. Size - 1 : k = Cardinality({d \in S : Outranks(d, c)})
        BY <1>9
      <3>2. k + 1 \in 1 .. Size /\ (k + 1) - 1 = k
        BY Sizes
      <3> QED
        BY <3>1, <3>2
    <2>2. i - 1 \in 0 .. Size - 1
      BY Sizes
    <2>3. Rank(p)[i] \in S /\ Cardinality({d \in S : Outranks(d, Rank(p)[i])}) = i - 1
      BY <1>11
    <2>4. Rank(p)[i] = c
      BY <1>9, <2>1, <2>2, <2>3
    <2> QED
      BY <2>4
  <1>13. Rank(p) \in Populations(Tested)
    BY <1>10, <1>11, <1>1 DEF Populations
  <1>14. Range(Rank(p)) = S
    <2>1. DOMAIN Rank(p) = 1 .. Size
      BY <1>10
    <2> QED
      BY <2>1, <1>11, <1>12 DEF Range
  <1>15. Distinct(Rank(p))
    <2> SUFFICES ASSUME NEW i \in 1 .. Size, NEW j \in 1 .. Size,
                        Rank(p)[i].id = Rank(p)[j].id
                 PROVE  i = j
      BY DEF Distinct
    <2>1. Rank(p)[i] = Rank(p)[j]
      BY <1>2, <1>11
    <2>2. i - 1 = j - 1
      BY <1>11, <2>1
    <2> QED
      BY <2>2
  <1> QED
    BY <1>13, <1>14, <1>15

--------------------------------------------------------------------------------
(* What the operators make *)

\* What every state knows of its experiment.
Seeded == HashIsNatural /\ seed \in Nat /\ version \in {"v35", "v36", "v37"}

\* Candidates are numbered from first on.
Numbered(population, first) == \A i \in 1 .. Size : population[i].id = first + (i - 1)

\* Such candidates have ids of their own.
LEMMA NumberedIsDistinct ==
  ASSUME NEW p, NEW first \in Int, Numbered(p, first)
  PROVE  Distinct(p)
  <1> SUFFICES ASSUME NEW i \in 1 .. Size, NEW j \in 1 .. Size, p[i].id = p[j].id
               PROVE  i = j
    BY DEF Distinct
  <1>1. first + (i - 1) = first + (j - 1)
    BY DEF Numbered
  <1> QED
    BY <1>1

\* Drawn genomes are numbers.
LEMMA DrawnTyped ==
  ASSUME Seeded, NEW parts \in Seq(Int)
  PROVE  Drawn(parts) \in Nat
  <1>1. Config.genomes \in Nat \ {0}
    BY LineageAssumption
  <1>2. Draw(parts, Config.genomes) \in 0 .. Config.genomes - 1
    BY <1>1, DrawInRange DEF Seeded
  <1> QED
    BY <1>1, <1>2 DEF Drawn

\* So are scores.
LEMMA ScoreTyped ==
  ASSUME Seeded, NEW profile \in DOMAIN Suite, NEW generation \in Nat, NEW genome \in Nat
  PROVE  Score(profile, generation, genome) \in Nat
  <1>1. Config.scores \in Nat \ {0}
    BY LineageAssumption
  <1>2. Suite[profile] \in Int
    BY DEF Suite
  <1>3. <<Suite[profile], generation, genome>> \in Seq(Int)
    BY <1>2
  <1>4. Draw(<<Suite[profile], generation, genome>>, Config.scores) \in 0 .. Config.scores - 1
    BY <1>1, <1>3, DrawInRange DEF Seeded
  <1> QED
    BY <1>1, <1>4 DEF Score

\* And the sum of the validation scores.
LEMMA ValidationTyped ==
  ASSUME Seeded, NEW genome \in Nat
  PROVE  Validation(genome) \in Nat
  <1>1. "validation" \in DOMAIN Suite
    BY DEF Suite
  <1>2. Score("validation", 1, genome) \in Nat /\ Score("validation", 2, genome) \in Nat
    BY <1>1, ScoreTyped
  <1> QED
    BY <1>2 DEF Validation

\* The first population, of an experiment of its own or of specialists.
LEMMA FoundersTyped ==
  ASSUME Seeded
  PROVE  /\ Founders \in Populations({<<>>}) /\ Numbered(Founders, 1)
         /\ Specialists \in Populations({<<>>}) /\ Numbered(Specialists, 1)
         /\ \A i \in 1 .. Size : Founders[i].parent = None /\ Specialists[i].parent = None
  <1>1. \A i \in 1 .. Size : Drawn(<<5, i>>) \in Nat /\ Drawn(<<6, i % 2>>) \in Nat /\ i \in Nat
    <2> TAKE i \in 1 .. Size
    <2>1. <<5, i>> \in Seq(Int) /\ <<6, i % 2>> \in Seq(Int) /\ i \in Nat
      BY Sizes
    <2> QED
      BY <2>1, DrawnTyped
  <1>2. \A i \in 1 .. Size, g \in Nat :
          /\ Candidate(i, g, None) \in Candidates({<<>>})
          /\ Candidate(i, g, None).id = 1 + (i - 1)
          /\ Candidate(i, g, None).parent = None
    BY <1>1 DEF Candidate, Candidates
  <1>3. /\ Founders = [i \in 1 .. Size |-> Candidate(i, Drawn(<<5, i>>), None)]
        /\ Specialists = [i \in 1 .. Size |-> Candidate(i, Drawn(<<6, i % 2>>), None)]
    BY DEF Founders, Specialists
  <1>4. \A i \in 1 .. Size : /\ Founders[i] = Candidate(i, Drawn(<<5, i>>), None)
                            /\ Specialists[i] = Candidate(i, Drawn(<<6, i % 2>>), None)
    BY <1>3
  <1>5. \A i \in 1 .. Size :
          /\ Founders[i] \in Candidates({<<>>}) /\ Specialists[i] \in Candidates({<<>>})
          /\ Founders[i].id = 1 + (i - 1) /\ Specialists[i].id = 1 + (i - 1)
          /\ Founders[i].parent = None /\ Specialists[i].parent = None
    BY <1>1, <1>2, <1>4
  <1> QED
    BY <1>3, <1>5 DEF Populations, Numbered

\* The next population of v35: numbered on, each child and elite with a ranked parent.
LEMMA BredTyped ==
  ASSUME Seeded, NEW ranked \in Populations(Tested), NEW nextId \in Nat, NEW generation \in Nat
  PROVE  /\ Bred(ranked, nextId, generation) \in Populations({<<>>})
         /\ Numbered(Bred(ranked, nextId, generation), nextId)
         /\ \A i \in 1 .. Size :
              Bred(ranked, nextId, generation)[i].parent
                \in {None} \cup {ranked[j].id : j \in 1 .. Size}
  <1> DEFINE child(i) == i - Config.elites
             parent(i) == IF child(i) <= 0 THEN ranked[i]
                          ELSE ranked[1 + Draw(<<7, generation, child(i)>>, Size)]
             made(i) == CASE child(i) <= 0 ->
                              Candidate(nextId + i - 1, parent(i).genome, parent(i).id)
                          [] child(i) \in 1 .. Config.children ->
                              Candidate(nextId + i - 1,
                                        Drawn(<<8, generation, child(i), parent(i).genome>>),
                                        parent(i).id)
                          [] OTHER -> Candidate(nextId + i - 1, Drawn(<<9, generation, child(i)>>), None)
  <1>1. Bred(ranked, nextId, generation) = [i \in 1 .. Size |-> made(i)]
    BY DEF Bred
  <1>2. ASSUME NEW i \in 1 .. Size
        PROVE  /\ made(i) \in Candidates({<<>>})
               /\ made(i).id = nextId + (i - 1)
               /\ made(i).parent \in {None} \cup {ranked[j].id : j \in 1 .. Size}
    <2>1. child(i) \in Int /\ i \in Nat /\ nextId + i - 1 \in Nat /\ nextId + i - 1 = nextId + (i - 1)
      BY Sizes, LineageAssumption
    <2>2. \E j \in 1 .. Size : parent(i) = ranked[j]
      <3>1. <<7, generation, child(i)>> \in Seq(Int)
        BY <2>1
      <3>2. Draw(<<7, generation, child(i)>>, Size) \in 0 .. Size - 1
        <4>1. Size \in Nat \ {0} /\ HashIsNatural /\ seed \in Nat
          BY Sizes DEF Seeded
        <4> HIDE DEF child
        <4> QED
          BY <3>1, <4>1, DrawInRange
      <3>3. 1 + Draw(<<7, generation, child(i)>>, Size) \in 1 .. Size
        BY <3>2, Sizes
      <3> QED
        BY <3>3
    <2>3. PICK j \in 1 .. Size : parent(i) = ranked[j]
      BY <2>2
    <2>4. ranked[j].genome \in Nat /\ ranked[j].id \in Nat
      BY DEF Populations, Candidates
    <2>5. /\ <<8, generation, child(i), parent(i).genome>> \in Seq(Int)
          /\ <<9, generation, child(i)>> \in Seq(Int)
      BY <2>1, <2>3, <2>4
    <2>6. /\ Drawn(<<8, generation, child(i), parent(i).genome>>) \in Nat
          /\ Drawn(<<9, generation, child(i)>>) \in Nat
      BY <2>5, DrawnTyped
    <2> HIDE DEF parent, child
    <2>7. \E g \in Nat, q \in {None} \cup {ranked[l].id : l \in 1 .. Size} :
            made(i) = Candidate(nextId + i - 1, g, q)
      BY <2>3, <2>4, <2>6
    <2>8. PICK g \in Nat, q \in {None} \cup {ranked[l].id : l \in 1 .. Size} :
            made(i) = Candidate(nextId + i - 1, g, q)
      BY <2>7
    <2>9. q \in Nat \cup {None}
      BY DEF Populations, Candidates
    <2> HIDE DEF made
    <2> QED
      BY <2>1, <2>8, <2>9 DEF Candidate, Candidates
  <1> HIDE DEF made
  <1> QED
    BY <1>1, <1>2 DEF Populations, Numbered

\* The ids of a population, and those of the candidates whose policies the archive keeps.
IdsOf(population) == {population[i].id : i \in 1 .. Size}
Kept(archive) == {archive[cell].id : cell \in Occupied(archive)}

\* Who has children under v36: the archive's policies, or every candidate while it is empty.
LEMMA ParentsTyped ==
  ASSUME NEW archive \in Maps, NEW candidates \in Populations({<<>>} \cup Tested)
  PROVE  \E n \in Nat \ {0} :
           /\ DOMAIN Parents(archive, candidates) = 1 .. n
           /\ \A i \in 1 .. n :
                /\ Parents(archive, candidates)[i].id \in Kept(archive) \cup IdsOf(candidates)
                /\ Parents(archive, candidates)[i].id \in Nat
                /\ Parents(archive, candidates)[i].genome \in Nat
  <1>1. CASE Occupied(archive) = {}
    <2>1. Parents(archive, candidates) = candidates
      BY <1>1 DEF Parents
    <2>2. \A i \in 1 .. Size : candidates[i].id \in Nat /\ candidates[i].genome \in Nat
      BY DEF Populations, Candidates
    <2>3. DOMAIN candidates = 1 .. Size
      BY DEF Populations
    <2> QED
      BY <2>1, <2>2, <2>3, Sizes DEF IdsOf
  <1>2. CASE Occupied(archive) # {}
    <2> DEFINE S == Occupied(archive)
               cells == Sorted(S, <)
               n == Cardinality(S)
    <2>1. Config.bins \in Nat
      BY LineageAssumption
    <2>2. IsFiniteSet(Cells) /\ Cells \subseteq Int /\ S \subseteq Cells
      BY <2>1, FS_Interval DEF Cells, Occupied
    <2>3. S \in SUBSET Int /\ IsFiniteSet(S)
      BY <2>2, FS_Subset
    <2>4. n \in Nat /\ cells \in [1 .. n -> S]
      <3> HIDE DEF S
      <3> QED
        BY <2>3, SortedNumbers
    <2>5. n # 0
      BY <1>2, <2>3, FS_EmptySet
    <2>6. Parents(archive, candidates) = [i \in 1 .. n |-> archive[cells[i]]]
      <3>1. Parents(archive, candidates) = [i \in DOMAIN cells |-> archive[cells[i]]]
        BY <1>2 DEF Parents
      <3>2. DOMAIN cells = 1 .. n
        BY <2>4
      <3> QED
        BY <3>1, <3>2
    <2>7. \A cell \in S : /\ archive[cell].id \in Kept(archive)
                          /\ archive[cell].id \in Nat /\ archive[cell].genome \in Nat
      <3> TAKE cell \in S
      <3>1. archive[cell] \in Entries
        BY <2>2 DEF Maps, Occupied
      <3> QED
        BY <3>1 DEF Entries, Kept
    <2> HIDE DEF cells, n, S
    <2> QED
      BY <2>4, <2>5, <2>6, <2>7
  <1> QED
    BY <1>1, <1>2

\* The next population of v36: numbered on, each with a parent that was kept or ranked.
LEMMA EmittedTyped ==
  ASSUME Seeded, NEW archive \in Maps, NEW candidates \in Populations({<<>>} \cup Tested),
         NEW nextId \in Nat, NEW generation \in Nat
  PROVE  /\ Emitted(archive, candidates, nextId, generation) \in Populations({<<>>})
         /\ Numbered(Emitted(archive, candidates, nextId, generation), nextId)
         /\ \A i \in 1 .. Size :
              Emitted(archive, candidates, nextId, generation)[i].parent
                \in Kept(archive) \cup IdsOf(candidates)
  <1> DEFINE parents == Parents(archive, candidates)
             elites == Max({1, Size \div 2})
             parent(i) == parents[1 + ((i - 1) % Cardinality(DOMAIN parents))]
             made(i) == Candidate(nextId + i - 1,
                                  IF i <= elites THEN parent(i).genome
                                  ELSE Drawn(<<10, generation, i, parent(i).genome>>), parent(i).id)
  <1>1. Emitted(archive, candidates, nextId, generation) = [i \in 1 .. Size |-> made(i)]
    BY DEF Emitted
  <1>2. PICK n \in Nat \ {0} :
           /\ DOMAIN parents = 1 .. n
           /\ \A i \in 1 .. n :
                /\ parents[i].id \in Kept(archive) \cup IdsOf(candidates)
                /\ parents[i].id \in Nat
                /\ parents[i].genome \in Nat
    BY ParentsTyped
  <1>3. Cardinality(DOMAIN parents) = n
    BY <1>2, FS_Interval
  <1> HIDE DEF parents, elites
  <1>4. ASSUME NEW i \in 1 .. Size
        PROVE  /\ made(i) \in Candidates({<<>>})
               /\ made(i).id = nextId + (i - 1)
               /\ made(i).parent \in Kept(archive) \cup IdsOf(candidates)
    <2>1. i \in Nat /\ i - 1 \in Nat /\ nextId + i - 1 \in Nat /\ nextId + i - 1 = nextId + (i - 1)
      BY Sizes
    <2>2. 1 + ((i - 1) % n) \in 1 .. n
      BY <2>1, <1>2
    <2>3. PICK j \in 1 .. n : parent(i) = parents[j]
      BY <2>2, <1>3
    <2>4. /\ parent(i).genome \in Nat /\ parent(i).id \in Nat
          /\ parent(i).id \in Kept(archive) \cup IdsOf(candidates)
      BY <2>3, <1>2
    <2>5. <<10, generation, i, parent(i).genome>> \in Seq(Int)
      BY <2>1, <2>4
    <2>6. Drawn(<<10, generation, i, parent(i).genome>>) \in Nat
      BY <2>5, DrawnTyped
    <2> HIDE DEF parent
    <2>7. \E g \in Nat, q \in Nat \cap (Kept(archive) \cup IdsOf(candidates)) :
            made(i) = Candidate(nextId + i - 1, g, q)
      BY <2>4, <2>6
    <2>8. PICK g \in Nat, q \in Nat \cap (Kept(archive) \cup IdsOf(candidates)) :
            made(i) = Candidate(nextId + i - 1, g, q)
      BY <2>7
    <2> HIDE DEF made
    <2> QED
      BY <2>1, <2>8 DEF Candidate, Candidates
  <1> HIDE DEF made
  <1> QED
    BY <1>1, <1>4 DEF Populations, Numbered

\* A population that was not tried, or that was, is a population.
LEMMA PopulationsJoin ==
  /\ Populations({<<>>}) \subseteq Populations({<<>>} \cup Tested)
  /\ Populations(Tested) \subseteq Populations({<<>>} \cup Tested)
  <1>1. ASSUME NEW T, NEW U, T \subseteq U PROVE Populations(T) \subseteq Populations(U)
    <2>1. Candidates(T) \subseteq Candidates(U)
      BY <1>1 DEF Candidates
    <2> QED
      BY <2>1 DEF Populations
  <1> QED
    BY <1>1

\* A session that has not evaluated anything yet.
LEMMA SessionTyped ==
  ASSUME NEW g \in 0 .. Generations - 1, NEW p \in Populations({<<>>}), NEW n \in Nat,
         NEW a \in Maps, NEW h \in Hofs \cup {None}
  PROVE  Session(g, p, n, a, h) \in Sessions
  <1>1. p \in Populations({<<>>} \cup Tested)
    BY PopulationsJoin
  <1>2. 0 \in 0 .. Size /\ 1 \in 1 .. NomineeCount + 1
    BY Sizes
  <1> QED
    BY <1>1, <1>2 DEF Session, Sessions

\* What holds of a session before its generation is evaluated.
Started(s) ==
  /\ s \in Sessions
  /\ s = Session(s.generation, s.population, s.nextId, s.archive, s.hof)
  /\ s.population \in Populations({<<>>})
  /\ s.nextId > Size /\ Numbered(s.population, s.nextId - Size)

\* A new experiment starts with founders and nothing else.
LEMMA FreshStarts ==
  ASSUME Seeded
  PROVE  /\ Started(Fresh) /\ Fresh.generation = 0 /\ Fresh.hof = None /\ Fresh.archive = Empty
         /\ Fresh.nextId = Size + 1
         /\ \A i \in 1 .. Size : Fresh.population[i].parent = None
  <1> DEFINE p == IF version = "v37" THEN Specialists ELSE Founders
  <1>1. p \in Populations({<<>>}) /\ Numbered(p, 1) /\ \A i \in 1 .. Size : p[i].parent = None
    BY FoundersTyped
  <1>2. 0 \in 0 .. Generations - 1 /\ Size + 1 \in Nat /\ (Size + 1) - Size = 1 /\ Size + 1 > Size
    BY LineageAssumption, Sizes
  <1>3. Empty \in Maps
    BY DEF Empty, Maps
  <1>4. Fresh = Session(0, p, Size + 1, Empty, None)
    BY DEF Fresh
  <1> HIDE DEF p
  <1>5. Fresh \in Sessions
    BY <1>1, <1>2, <1>3, <1>4, SessionTyped
  <1>6. /\ Fresh.generation = 0 /\ Fresh.population = p /\ Fresh.nextId = Size + 1
        /\ Fresh.archive = Empty /\ Fresh.hof = None
    BY <1>4 DEF Session
  <1> QED
    BY <1>1, <1>2, <1>4, <1>5, <1>6 DEF Started

\* What a checkpoint holds for the process that goes on from it.
Saved(k) ==
  /\ k \in Checkpoints
  /\ k.nextId > Size /\ Numbered(k.population, k.nextId - Size)

\* The next round starts with what was saved, and its candidates have saved parents.
LEMMA FollowingStarts ==
  ASSUME Seeded, NEW k, Saved(k), k.generation + 1 < Generations,
         NEW candidates \in Populations({<<>>} \cup Tested)
  PROVE  /\ Started(Following(k, candidates))
         /\ Following(k, candidates).generation = k.generation + 1
         /\ Following(k, candidates).archive = k.archive
         /\ Following(k, candidates).hof = k.hof
         /\ Following(k, candidates).nextId = IF version = "v36" THEN k.nextId + Size ELSE k.nextId
         /\ version = "v36" =>
              \A i \in 1 .. Size :
                Following(k, candidates).population[i].parent \in Kept(k.archive) \cup IdsOf(candidates)
         /\ version # "v36" =>
              \A i \in 1 .. Size :
                /\ Following(k, candidates).population[i].parent = k.population[i].parent
                /\ Following(k, candidates).population[i].id = k.population[i].id
  <1> DEFINE emitted == Emitted(k.archive, candidates, k.nextId, k.generation)
             cleared == [i \in DOMAIN k.population |-> [k.population[i] EXCEPT !.trials = <<>>]]
             p == IF version = "v36" THEN emitted ELSE cleared
             n == IF version = "v36" THEN k.nextId + Size ELSE k.nextId
  <1>1. /\ k.generation \in 0 .. Generations - 1 /\ k.nextId \in Nat /\ k.archive \in Maps
        /\ k.hof \in Hofs /\ k.population \in Populations({<<>>} \cup Tested)
    BY DEF Saved, Checkpoints
  <1>2. k.generation + 1 \in 0 .. Generations - 1 /\ k.generation \in Nat /\ n \in Nat /\ n > Size
    <2>1. PICK g \in Nat : g = k.generation
      BY <1>1
    <2>2. Generations \in Nat /\ g + 1 < Generations
      BY <2>1, LineageAssumption
    <2>3. k.nextId > Size
      BY DEF Saved
    <2> QED
      BY <1>1, <2>1, <2>2, <2>3, Sizes
  <1>3. /\ emitted \in Populations({<<>>}) /\ Numbered(emitted, k.nextId)
        /\ \A i \in 1 .. Size : emitted[i].parent \in Kept(k.archive) \cup IdsOf(candidates)
    BY <1>1, <1>2, EmittedTyped
  <1>4. /\ cleared \in Populations({<<>>}) /\ Numbered(cleared, k.nextId - Size)
        /\ \A i \in 1 .. Size : /\ cleared[i].parent = k.population[i].parent
                               /\ cleared[i].id = k.population[i].id
    <2>1. DOMAIN k.population = 1 .. Size
          /\ \A i \in 1 .. Size : k.population[i] \in Candidates({<<>>} \cup Tested)
      BY <1>1 DEF Populations
    <2>2. cleared = [i \in 1 .. Size |-> [k.population[i] EXCEPT !.trials = <<>>]]
      BY <2>1
    <2>3. \A c \in Candidates({<<>>} \cup Tested) :
            /\ [c EXCEPT !.trials = <<>>] \in Candidates({<<>>})
            /\ [c EXCEPT !.trials = <<>>].id = c.id
            /\ [c EXCEPT !.trials = <<>>].parent = c.parent
      BY DEF Candidates
    <2> HIDE DEF cleared
    <2>4. \A i \in 1 .. Size : /\ cleared[i] \in Candidates({<<>>})
                              /\ cleared[i].id = k.population[i].id
                              /\ cleared[i].parent = k.population[i].parent
      BY <2>1, <2>2, <2>3
    <2>5. cleared \in Populations({<<>>})
      BY <2>2, <2>4 DEF Populations
    <2>6. Numbered(cleared, k.nextId - Size)
      BY <2>4 DEF Numbered, Saved
    <2> QED
      BY <2>4, <2>5, <2>6
  <1> HIDE DEF emitted, cleared
  <1>5. Following(k, candidates) = Session(k.generation + 1, p, n, k.archive, k.hof)
    BY DEF Following, emitted, cleared
  <1>6. p \in Populations({<<>>}) /\ Numbered(p, n - Size)
    <2>1. (k.nextId + Size) - Size = k.nextId
      BY <1>1, Sizes
    <2> QED
      BY <1>3, <1>4, <2>1
  <1>7. Following(k, candidates) \in Sessions
    <2> HIDE DEF p, n
    <2> QED
      BY <1>1, <1>2, <1>5, <1>6, SessionTyped
  <1>8. /\ Following(k, candidates).generation = k.generation + 1
        /\ Following(k, candidates).population = p
        /\ Following(k, candidates).nextId = n
        /\ Following(k, candidates).archive = k.archive
        /\ Following(k, candidates).hof = k.hof
    <2> HIDE DEF p, n
    <2> QED
      BY <1>5 DEF Session
  <1>9. Started(Following(k, candidates))
    <2> HIDE DEF p, n
    <2> QED
      BY <1>2, <1>5, <1>6, <1>7, <1>8 DEF Started
  <1> QED
    BY <1>3, <1>4, <1>8, <1>9

\* Training and trying a candidate leave its id and its parent.
LEMMA TriedTyped ==
  ASSUME Seeded, NEW c \in Candidates({<<>>}), NEW g \in Nat
  PROVE  /\ Trained(c, g) \in Candidates({<<>>}) /\ Trained(c, g).id = c.id
         /\ Trained(c, g).parent = c.parent
         /\ Tried(c, g) \in Candidates(Tested) /\ Tried(c, g).id = c.id
         /\ Tried(c, g).parent = c.parent
  <1>1. c.id \in Nat /\ c.genome \in Nat /\ c.optimizer \in Nat
    BY DEF Candidates
  <1>2. <<11, g, c.id, c.genome, c.optimizer>> \in Seq(Int)
    BY <1>1
  <1>3. PICK drawn \in Nat : drawn = Drawn(<<11, g, c.id, c.genome, c.optimizer>>)
    BY <1>2, DrawnTyped
  <1>4. Trained(c, g) = [c EXCEPT !.genome = drawn, !.optimizer = @ + 1]
    BY <1>3 DEF Trained
  <1>5. "standard" \in DOMAIN Suite /\ "challenge" \in DOMAIN Suite
    BY DEF Suite
  <1>6. PICK x \in Nat : x = Score("standard", g, c.genome)
    BY <1>1, <1>5, ScoreTyped
  <1>7. PICK y \in Nat : y = Score("challenge", g, c.genome)
    BY <1>1, <1>5, ScoreTyped
  <1>8. Tried(c, g) = [c EXCEPT !.trials = <<x, y>>]
    BY <1>6, <1>7 DEF Tried
  <1>9. <<x, y>> \in Tested /\ c.optimizer + 1 \in Nat
    BY <1>1 DEF Tested
  <1> QED
    BY <1>4, <1>8, <1>9 DEF Candidates

\* A cell is one of the archive's.
LEMMA CellTyped ==
  ASSUME Seeded, NEW c \in Candidates(Tested)
  PROVE  Cell(c) \in Cells
  <1>1. PICK x \in Nat, y \in Nat : c.trials = <<x, y>>
    BY DEF Candidates, Tested
  <1>2. <<4>> \o c.trials \in Seq(Int)
    BY <1>1
  <1>3. Config.bins \in Nat \ {0}
    BY LineageAssumption
  <1>4. Draw(<<4>> \o c.trials, Config.bins) \in 0 .. Config.bins - 1
    BY <1>2, <1>3, DrawInRange DEF Seeded
  <1> QED
    BY <1>4 DEF Cell, Cells

\* An archive that was shown a candidate keeps it, or what it kept.
LEMMA ConsiderTyped ==
  ASSUME Seeded, NEW archive \in Maps, NEW c \in Candidates(Tested), NEW g \in Nat
  PROVE  /\ Entry(c, g) \in Entries
         /\ Consider(archive, c, g) \in Maps
         /\ Kept(Consider(archive, c, g)) \subseteq Kept(archive) \cup {c.id}
  <1>1. c.id \in Nat /\ c.genome \in Nat /\ Fitness(c) \in Nat
    BY RankOrder DEF Candidates
  <1>2. Entry(c, g) \in Entries /\ Entry(c, g).id = c.id
    BY <1>1 DEF Entry, Entries
  <1>3. Cell(c) \in Cells
    BY CellTyped
  <1>4. CASE Consider(archive, c, g) = archive
    BY <1>2, <1>4
  <1>5. CASE Consider(archive, c, g) = [archive EXCEPT ![Cell(c)] = Entry(c, g)]
    <2>1. PICK e \in Entries : e = Entry(c, g)
      BY <1>2
    <2>2. PICK b : b = Consider(archive, c, g)
      OBVIOUS
    <2>3. b = [archive EXCEPT ![Cell(c)] = e] /\ archive \in [Cells -> Entries \cup {None}]
      BY <1>5, <2>1, <2>2 DEF Maps
    <2>4. b \in [Cells -> Entries \cup {None}]
      BY <2>3, <1>3
    <2>5. \A cell \in Cells : b[cell] = IF cell = Cell(c) THEN e ELSE archive[cell]
      BY <2>3
    <2>6. Kept(b) \subseteq Kept(archive) \cup {c.id}
      BY <2>1, <2>5, <1>2 DEF Kept, Occupied
    <2> QED
      BY <1>2, <2>2, <2>4, <2>6 DEF Maps
  <1> QED
    BY <1>4, <1>5 DEF Consider

\* Whoever is judged, there is a Hall of Fame afterwards.
LEMMA BetterTyped ==
  ASSUME NEW hof \in Hofs \cup {None}, NEW c \in Candidates(Tested), NEW score \in Nat, NEW g \in Nat
  PROVE  Better(hof, c, score, g) \in Hofs
  <1>1. [id |-> c.id, genome |-> c.genome, score |-> score, generation |-> g] \in Hofs
    BY DEF Candidates, Hofs
  <1> QED
    BY <1>1 DEF Better

\* What holds of a session that is ready to be committed.
Ready(s) ==
  /\ s \in Sessions /\ s.hof \in Hofs
  /\ s.population \in Populations(Tested) /\ s.ranked \in Populations(Tested)
  /\ s.nextId > Size /\ Numbered(s.population, s.nextId - Size)

\* A checkpoint saves all of it.
LEMMA CheckpointSaves ==
  ASSUME Seeded, NEW s, Ready(s)
  PROVE  /\ Saved(Checkpoint(s))
         /\ Checkpoint(s).generation = s.generation
         /\ Checkpoint(s).record = Record(s) /\ Record(s) \in Rows
         /\ Record(s).candidates = s.ranked
         /\ Checkpoint(s).archive = s.archive /\ Checkpoint(s).hof = s.hof
         /\ Checkpoint(s).nextId = IF version = "v35" THEN s.nextId + Size ELSE s.nextId
         /\ version # "v35" => Checkpoint(s).population = s.population
         /\ version = "v35" =>
              \A i \in 1 .. Size :
                Checkpoint(s).population[i].parent \in {None} \cup IdsOf(s.ranked)
  <1> DEFINE bred == Bred(s.ranked, s.nextId, s.generation + 1)
  <1>1. /\ s.generation \in 0 .. Generations - 1 /\ s.generation + 1 \in Nat /\ s.nextId \in Nat
        /\ s.archive \in Maps
    BY LineageAssumption DEF Ready, Sessions
  <1>2. /\ bred \in Populations({<<>>}) /\ Numbered(bred, s.nextId)
        /\ \A i \in 1 .. Size : bred[i].parent \in {None} \cup IdsOf(s.ranked)
    BY <1>1, BredTyped DEF Ready, IdsOf
  <1>3. Record(s) \in Rows /\ Record(s).candidates = s.ranked
    BY <1>1 DEF Record, Rows, Ready
  <1> HIDE DEF bred
  <1> DEFINE p == IF version = "v35" THEN bred ELSE s.population
             n == IF version = "v35" THEN s.nextId + Size ELSE s.nextId
  <1>4. Checkpoint(s) = [generation |-> s.generation, record |-> Record(s), archive |-> s.archive,
                         hof |-> s.hof, population |-> p, nextId |-> n]
    BY DEF Checkpoint, bred
  <1>5. p \in Populations({<<>>} \cup Tested)
    BY <1>2, PopulationsJoin DEF Ready
  <1>6. n \in Nat /\ n > Size /\ Numbered(p, n - Size)
    <2>1. (s.nextId + Size) - Size = s.nextId /\ s.nextId + Size \in Nat /\ s.nextId + Size > Size
      BY <1>1, Sizes DEF Ready
    <2> QED
      BY <1>1, <1>2, <2>1 DEF Ready
  <1> HIDE DEF p, n
  <1>7. Checkpoint(s) \in Checkpoints
    BY <1>1, <1>3, <1>4, <1>5, <1>6 DEF Checkpoints, Ready
  <1>8. Saved(Checkpoint(s))
    BY <1>4, <1>6, <1>7 DEF Saved
  <1> QED
    BY <1>2, <1>3, <1>4, <1>8 DEF p, n

--------------------------------------------------------------------------------
(* Tasks and their results                                                        *)

\* What a worker answers to a task.
AnswerTo(tasks, n) ==
  [ordinal |-> n, id |-> tasks[n].id,
   score |-> Score(tasks[n].profile, tasks[n].environment, tasks[n].genome)]

\* A task is handed out once, and what has arrived are answers to tasks, one for each.
Answered(p) ==
  /\ p \in Pools
  /\ p.handed \in 0 .. Len(p.tasks)
  /\ \A w \in Workers : p.busy[w] # None => p.busy[w] \in 1 .. p.handed
  /\ \A v, w \in Workers : p.busy[v] # None /\ p.busy[v] = p.busy[w] => v = w
  /\ \A i \in 1 .. Len(p.arrived) : /\ p.arrived[i].ordinal \in 1 .. p.handed
                                   /\ p.arrived[i] = AnswerTo(p.tasks, p.arrived[i].ordinal)
                                   /\ \A w \in Workers : p.busy[w] # p.arrived[i].ordinal
  /\ \A i, j \in 1 .. Len(p.arrived) : p.arrived[i].ordinal = p.arrived[j].ordinal => i = j

\* In the order of their ordinals, complete results are the answers to the tasks, one by one,
\* in whatever order they arrived.
LEMMA CollectedInOrder ==
  ASSUME NEW p, Answered(p), Len(p.arrived) = Len(p.tasks)
  PROVE  InTaskOrder(p.arrived) = [n \in 1 .. Len(p.tasks) |-> AnswerTo(p.tasks, n)]
  <1> DEFINE arrived == p.arrived
             L == Len(p.tasks)
             ordinal == [i \in 1 .. L |-> arrived[i].ordinal]
  <1>1. L \in Nat /\ arrived \in Seq(Answers) /\ Len(arrived) = L /\ p.handed \in 0 .. L
    BY DEF Answered, Pools
  <1>2. ordinal \in Injection(1 .. L, 1 .. L)
    <2>1. \A i \in 1 .. L : arrived[i].ordinal \in 1 .. L
      BY <1>1 DEF Answered
    <2>2. \A i, j \in 1 .. L : arrived[i].ordinal = arrived[j].ordinal => i = j
      BY <1>1 DEF Answered
    <2> QED
      BY <2>1, <2>2 DEF Injection, IsInjective
  <1>3. ordinal \in Surjection(1 .. L, 1 .. L)
    BY <1>1, <1>2, FS_Interval, FS_Injection
  <1>4. \A n \in 1 .. L : \E i \in 1 .. L : arrived[i].ordinal = n
    BY <1>3 DEF Surjection
  <1>5. DOMAIN arrived = 1 .. L /\ Range(arrived) = {arrived[i] : i \in 1 .. L}
    BY <1>1 DEF Range
  <1>6. ASSUME NEW n \in 1 .. L
        PROVE  (CHOOSE result \in Range(arrived) : result.ordinal = n) = AnswerTo(p.tasks, n)
    <2>1. \E result \in Range(arrived) : result.ordinal = n
      BY <1>4, <1>5
    <2>2. \A result \in Range(arrived) : result.ordinal = n => result = AnswerTo(p.tasks, n)
      BY <1>1, <1>5 DEF Answered
    <2> QED
      BY <2>1, <2>2
  <1>7. InTaskOrder(arrived)
          = [n \in 1 .. L |-> CHOOSE result \in Range(arrived) : result.ordinal = n]
    BY <1>5 DEF InTaskOrder
  <1> HIDE DEF arrived, L
  <1> QED
    BY <1>6, <1>7 DEF arrived, L

\* A candidate that two tasks in a row are about gets their scores in that order.
LEMMA ScoresOfTwo ==
  ASSUME Answered(pool), Complete, NEW id, NEW a \in 1 .. Len(pool.tasks),
         a + 1 \in 1 .. Len(pool.tasks),
         {n \in 1 .. Len(pool.tasks) : pool.tasks[n].id = id} = {a, a + 1}
  PROVE  ScoresOf(id) = <<AnswerTo(pool.tasks, a).score, AnswerTo(pool.tasks, a + 1).score>>
  <1> DEFINE ordered == InTaskOrder(pool.arrived)
             own == Sorted({n \in DOMAIN ordered : ordered[n].id = id}, <)
  <1>0. PICK pair : pair = {a, a + 1}
    OBVIOUS
  <1>1. Len(pool.tasks) \in Nat /\ a \in Int /\ a + 1 \in Int
    BY DEF Answered, Pools
  <1>2. ordered = [n \in 1 .. Len(pool.tasks) |-> AnswerTo(pool.tasks, n)]
    BY CollectedInOrder DEF Complete
  <1>3. DOMAIN ordered = 1 .. Len(pool.tasks)
        /\ \A n \in 1 .. Len(pool.tasks) : /\ ordered[n].id = pool.tasks[n].id
                                          /\ ordered[n].score = AnswerTo(pool.tasks, n).score
    BY <1>2 DEF AnswerTo
  <1> HIDE DEF ordered
  <1>4. {n \in DOMAIN ordered : ordered[n].id = id} = pair
    BY <1>0, <1>3
  <1>5. pair \in SUBSET Int /\ IsFiniteSet(pair) /\ Cardinality(pair) = 2
    <2>1. pair = a .. a + 1
      BY <1>0, <1>1
    <2>2. IsFiniteSet(a .. a + 1) /\ Cardinality(a .. a + 1) = 2
      BY <1>1, FS_Interval
    <2> QED
      BY <1>1, <2>1, <2>2
  <1>6. own \in [1 .. 2 -> pair]
        /\ \A i \in 1 .. 2 : Cardinality({y \in pair : y < own[i]}) = i - 1
    <2>1. own = Sorted(pair, <)
      BY <1>4
    <2>2. Sorted(pair, <) \in [1 .. Cardinality(pair) -> pair]
      BY <1>5, SortedNumbers
    <2>3. \A i \in 1 .. Cardinality(pair) : Cardinality({y \in pair : y < Sorted(pair, <)[i]}) = i - 1
      BY <1>5, SortedNumbers
    <2> HIDE DEF own
    <2> QED
      BY <1>5, <2>1, <2>2, <2>3
  <1> HIDE DEF own
  <1>7. Cardinality({y \in pair : y < a}) = 0
    <2>1. {y \in pair : y < a} = {}
      BY <1>0, <1>1
    <2> QED
      BY <2>1, FS_EmptySet
  <1>8. Cardinality({y \in pair : y < a + 1}) = 1
    <2>1. {y \in pair : y < a + 1} = {a}
      BY <1>0, <1>1
    <2> QED
      BY <2>1, FS_Singleton
  <1>9. own[1] = a /\ own[2] = a + 1
    <2>1. 1 \in 1 .. 2 /\ 2 \in 1 .. 2 /\ 1 - 1 = 0 /\ 2 - 1 = 1
      OBVIOUS
    <2>2. Cardinality({y \in pair : y < own[1]}) = 0 /\ Cardinality({y \in pair : y < own[2]}) = 1
      BY <1>6, <2>1
    <2>3. own[1] \in {a, a + 1} /\ own[2] \in {a, a + 1}
      BY <1>0, <1>6, <2>1
    <2>4. own[1] # a + 1
      <3>1. own[1] = a + 1 => Cardinality({y \in pair : y < own[1]}) = 1
        BY <1>8
      <3> QED
        BY <3>1, <2>2
    <2>5. own[2] # a
      <3>1. own[2] = a => Cardinality({y \in pair : y < own[2]}) = 0
        BY <1>7
      <3> QED
        BY <3>1, <2>2
    <2> QED
      BY <2>3, <2>4, <2>5
  <1>10. ScoresOf(id) = [t \in DOMAIN own |-> ordered[own[t]].score]
    BY DEF ScoresOf, own, ordered
  <1>11. DOMAIN own = 1 .. 2
    BY <1>6
  <1>12. ScoresOf(id) = [t \in 1 .. 2 |-> ordered[own[t]].score]
    BY <1>10, <1>11
  <1>13. /\ ordered[own[1]].score = AnswerTo(pool.tasks, a).score
         /\ ordered[own[2]].score = AnswerTo(pool.tasks, a + 1).score
    BY <1>3, <1>9
  <1> QED
    BY <1>12, <1>13

--------------------------------------------------------------------------------
(* The inductive invariant: types and shapes *)

\* What holds of a session from the scores of its candidates on.
Scored(s) ==
  /\ s \in Sessions
  /\ s.population \in Populations(Tested) /\ s.ranked \in Populations(Tested)
  /\ Range(s.ranked) = Range(s.population) /\ Distinct(s.ranked)
  /\ s.nextId > Size /\ Numbered(s.population, s.nextId - Size)

Starting == {"select", "selecting", "evaluate"}
Judging == {"consider", "validate", "validating", "commit"}
Written == {"append", "next"}

Pooled ==
  /\ pc = "selecting" => pool.tasks = SelectionTasks
  /\ pc = "validating" => pool.tasks = ValidationTasks
  /\ pc \notin {"selecting", "validating"} => pool = NoPool
  /\ Answered(pool)

Shaped ==
  /\ pc \in {"select", "selecting", "validating"} => version = "v35"
  /\ pc = "evaluate" => version # "v35"
  /\ pc = "consider" => version = "v36" /\ session.considered < Size /\ session.nominee = 1
  /\ pc \in Starting => Started(session)
  /\ pc \in Judging => Scored(session)
  /\ pc \in {"validate", "validating"} => session.nominee <= NomineeCount
  /\ pc = "commit" => session.hof \in Hofs
  /\ pc \in Written => checkpoint # None
  /\ checkpoint # None => Saved(checkpoint)

Typed == TypeOK /\ Pooled /\ Shaped

\* The absent values are none of the others.
LEMMA Absent == None \notin Nat /\ None \notin Hofs /\ None \notin Entries
                /\ None \notin Checkpoints /\ None \notin Sessions
  BY AbsenceAssumption

\* An experiment has a seed and one of the three versions.
LEMMA TypedIsSeeded ==
  ASSUME HashIsNatural, TypeOK
  PROVE  Seeded
  BY LineageAssumption DEF Seeded, TypeOK

\* A pool that has just been filled, or that is not in use.
LEMMA FilledPool ==
  ASSUME NEW tasks \in Seq(Tasks)
  PROVE  Answered([NoPool EXCEPT !.tasks = tasks]) /\ Answered(NoPool)
  <1>1. ASSUME NEW t \in Seq(Tasks), NEW p, p = [NoPool EXCEPT !.tasks = t]
        PROVE  Answered(p)
    <2>1. p = [tasks |-> t, handed |-> 0, busy |-> [w \in Workers |-> None], arrived |-> <<>>]
      BY <1>1 DEF NoPool
    <2>2. p \in Pools
      BY <2>1 DEF Pools
    <2>3. 0 \in 0 .. Len(t) /\ 1 .. Len(p.arrived) = {}
      BY <2>1
    <2>4. \A w \in Workers : p.busy[w] = None
      BY <2>1
    <2> QED
      BY <2>1, <2>2, <2>3, <2>4 DEF Answered
  <1>2. <<>> \in Seq(Tasks) /\ NoPool = [NoPool EXCEPT !.tasks = <<>>]
    BY DEF NoPool
  <1> QED
    BY <1>1, <1>2

\* The tasks of a generation are tasks, two of each candidate.
LEMMA SelectionTasksTyped ==
  ASSUME Started(session)
  PROVE  /\ SelectionTasks \in Seq(Tasks) /\ Len(SelectionTasks) = 2 * Size
         /\ \A n \in 1 .. 2 * Size :
              SelectionTasks[n] = Task(session.population[(n + 1) \div 2],
                                       IF n % 2 = 1 THEN "standard" ELSE "challenge",
                                       session.generation)
  <1>1. /\ session.population \in Populations({<<>>}) /\ session.generation \in Nat
    BY LineageAssumption DEF Started, Sessions
  <1>2. ASSUME NEW n \in 1 .. 2 * Size
        PROVE  SelectionTasks[n] \in Tasks
               /\ SelectionTasks[n] = Task(session.population[(n + 1) \div 2],
                                           IF n % 2 = 1 THEN "standard" ELSE "challenge",
                                           session.generation)
    <2>1. (n + 1) \div 2 \in 1 .. Size
      BY Sizes
    <2>2. PICK c \in Candidates({<<>>}) : c = session.population[(n + 1) \div 2]
      BY <1>1, <2>1 DEF Populations
    <2>3. PICK profile \in DOMAIN Suite : profile = IF n % 2 = 1 THEN "standard" ELSE "challenge"
      BY DEF Suite
    <2>4. Task(c, profile, session.generation) \in Tasks
      BY <1>1 DEF Task, Tasks, Candidates
    <2> QED
      BY <2>2, <2>3, <2>4 DEF SelectionTasks
  <1>3. SelectionTasks \in [1 .. 2 * Size -> Tasks] /\ 2 * Size \in Nat
    BY <1>2, Sizes DEF SelectionTasks
  <1> QED
    BY <1>2, <1>3

\* The two validation tasks of a nominee are tasks.
LEMMA ValidationTasksTyped ==
  ASSUME Scored(session), session.nominee \in 1 .. NomineeCount
  PROVE  /\ ValidationTasks \in Seq(Tasks) /\ Len(ValidationTasks) = 2
         /\ session.ranked[session.nominee] \in Candidates(Tested)
         /\ \A n \in 1 .. 2 :
              ValidationTasks[n] = Task(session.ranked[session.nominee], "validation", n)
  <1>1. session.ranked[session.nominee] \in Candidates(Tested)
    BY Sizes DEF Scored, Populations
  <1>2. PICK c \in Candidates(Tested) : c = session.ranked[session.nominee]
    BY <1>1
  <1>3. "validation" \in DOMAIN Suite
    BY DEF Suite
  <1>4. \A n \in 1 .. 2 : Task(c, "validation", n) \in Tasks
    BY <1>3 DEF Task, Tasks, Candidates
  <1>5. ValidationTasks = [n \in 1 .. 2 |-> Task(c, "validation", n)]
    BY <1>2 DEF ValidationTasks
  <1> QED
    BY <1>1, <1>2, <1>4, <1>5

\* Ranking a population of scored candidates.
LEMMA RankedIsScored ==
  ASSUME NEW s, Started(s), NEW scored \in Populations(Tested),
         \A i \in 1 .. Size : scored[i].id = s.population[i].id
  PROVE  /\ Scored(Ranked(s, scored))
         /\ Ranked(s, scored).population = scored /\ Ranked(s, scored).ranked = Rank(scored)
         /\ Ranked(s, scored).generation = s.generation /\ Ranked(s, scored).nextId = s.nextId
         /\ Ranked(s, scored).archive = s.archive /\ Ranked(s, scored).hof = s.hof
         /\ Ranked(s, scored).considered = 0 /\ Ranked(s, scored).nominee = 1
  <1>1. /\ s \in Sessions /\ s.considered = 0 /\ s.nominee = 1 /\ s.nextId \in Nat
    BY DEF Started, Session, Sessions
  <1>2. Numbered(scored, s.nextId - Size)
    BY DEF Started, Numbered
  <1>3. s.nextId - Size \in Int
    BY <1>1, Sizes
  <1>4. Distinct(scored)
    BY <1>2, <1>3, NumberedIsDistinct
  <1>5. PICK r : r = Rank(scored)
    OBVIOUS
  <1>6. r \in Populations(Tested) /\ Distinct(r) /\ Range(r) = Range(scored)
    BY <1>4, <1>5, RankPermutes
  <1>7. PICK t : t = Ranked(s, scored)
    OBVIOUS
  <1>8. t = [s EXCEPT !.population = scored, !.ranked = r]
    BY <1>5, <1>7 DEF Ranked
  <1>9. scored \in Populations({<<>>} \cup Tested)
    BY PopulationsJoin
  <1>10. t \in Sessions
    BY <1>1, <1>6, <1>8, <1>9 DEF Sessions
  <1>11. /\ t.population = scored /\ t.ranked = r /\ t.generation = s.generation
         /\ t.nextId = s.nextId /\ t.archive = s.archive /\ t.hof = s.hof
         /\ t.considered = s.considered /\ t.nominee = s.nominee
    BY <1>1, <1>8 DEF Sessions
  <1>12. Scored(t)
    BY <1>2, <1>6, <1>10, <1>11 DEF Scored, Started
  <1> QED
    BY <1>1, <1>5, <1>7, <1>11, <1>12

\* Showing the archive one candidate more.
LEMMA ConsideredIsScored ==
  ASSUME Seeded, NEW s, Scored(s), s.considered < Size
  PROVE  /\ Scored(Considered(s))
         /\ s.considered + 1 \in 1 .. Size
         /\ s.population[s.considered + 1] \in Candidates(Tested)
         /\ Considered(s).archive
              = Consider(s.archive, s.population[s.considered + 1], s.generation)
         /\ Considered(s).considered = s.considered + 1
         /\ Considered(s).population = s.population /\ Considered(s).ranked = s.ranked
         /\ Considered(s).generation = s.generation /\ Considered(s).nextId = s.nextId
         /\ Considered(s).hof = s.hof /\ Considered(s).nominee = s.nominee
  <1>1. /\ s \in Sessions /\ s.considered + 1 \in 1 .. Size /\ s.generation \in Nat
        /\ s.archive \in Maps
    BY Sizes, LineageAssumption DEF Scored, Sessions
  <1>2. s.population[s.considered + 1] \in Candidates(Tested)
    BY <1>1 DEF Scored, Populations
  <1>3. PICK a : a = Consider(s.archive, s.population[s.considered + 1], s.generation)
    OBVIOUS
  <1>4. a \in Maps
    BY <1>1, <1>2, <1>3, ConsiderTyped
  <1>5. PICK t : t = Considered(s)
    OBVIOUS
  <1>6. t = [s EXCEPT !.archive = a, !.considered = @ + 1]
    BY <1>1, <1>3, <1>5 DEF Considered
  <1>7. s.considered + 1 \in 0 .. Size
    BY <1>1, Sizes
  <1>8. t \in Sessions
    BY <1>1, <1>4, <1>6, <1>7 DEF Sessions
  <1>9. /\ t.archive = a /\ t.considered = s.considered + 1
        /\ t.population = s.population /\ t.ranked = s.ranked /\ t.generation = s.generation
        /\ t.nextId = s.nextId /\ t.hof = s.hof /\ t.nominee = s.nominee
    BY <1>1, <1>6 DEF Sessions
  <1>10. Scored(t)
    BY <1>8, <1>9 DEF Scored
  <1> QED
    BY <1>1, <1>2, <1>3, <1>5, <1>9, <1>10

\* Judging one nominee more.
LEMMA JudgedIsScored ==
  ASSUME NEW s, Scored(s), s.nominee <= NomineeCount, NEW score \in Nat
  PROVE  /\ Scored(Judged(s, score)) /\ Judged(s, score).hof \in Hofs
         /\ s.nominee \in 1 .. NomineeCount /\ s.ranked[s.nominee] \in Candidates(Tested)
         /\ Judged(s, score).hof = Better(s.hof, s.ranked[s.nominee], score, s.generation)
         /\ Judged(s, score).nominee = s.nominee + 1
         /\ Judged(s, score).population = s.population /\ Judged(s, score).ranked = s.ranked
         /\ Judged(s, score).generation = s.generation /\ Judged(s, score).nextId = s.nextId
         /\ Judged(s, score).archive = s.archive /\ Judged(s, score).considered = s.considered
  <1>1. /\ s \in Sessions /\ s.nominee \in 1 .. NomineeCount /\ s.nominee \in 1 .. Size
        /\ s.generation \in Nat /\ s.hof \in Hofs \cup {None}
    BY Sizes, LineageAssumption DEF Scored, Sessions
  <1>2. s.ranked[s.nominee] \in Candidates(Tested)
    BY <1>1 DEF Scored, Populations
  <1>3. PICK h : h = Better(s.hof, s.ranked[s.nominee], score, s.generation)
    OBVIOUS
  <1>4. h \in Hofs
    BY <1>1, <1>2, <1>3, BetterTyped
  <1>5. PICK t : t = Judged(s, score)
    OBVIOUS
  <1>6. t = [s EXCEPT !.hof = h, !.nominee = @ + 1]
    BY <1>1, <1>3, <1>5 DEF Judged
  <1>7. s.nominee + 1 \in 1 .. NomineeCount + 1
    BY <1>1, Sizes
  <1>8. t \in Sessions
    BY <1>1, <1>4, <1>6, <1>7 DEF Sessions
  <1>9. /\ t.hof = h /\ t.nominee = s.nominee + 1
        /\ t.population = s.population /\ t.ranked = s.ranked /\ t.generation = s.generation
        /\ t.nextId = s.nextId /\ t.archive = s.archive /\ t.considered = s.considered
    BY <1>1, <1>6 DEF Sessions
  <1>10. Scored(t)
    BY <1>8, <1>9 DEF Scored
  <1> QED
    BY <1>1, <1>2, <1>3, <1>4, <1>5, <1>9, <1>10

\* A generation's scores: each candidate with those of its own tasks.
LEMMA EvaluatedTyped ==
  ASSUME Seeded, NEW s, Started(s)
  PROVE  /\ Evaluated(s) \in Populations(Tested)
         /\ \A i \in 1 .. Size : /\ Evaluated(s)[i].id = s.population[i].id
                                /\ Evaluated(s)[i].parent = s.population[i].parent
  <1>1. s.population \in Populations({<<>>}) /\ s.generation \in Nat
    BY LineageAssumption DEF Started, Sessions
  <1>2. ASSUME NEW i \in 1 .. Size
        PROVE  /\ Evaluated(s)[i] \in Candidates(Tested)
               /\ Evaluated(s)[i].id = s.population[i].id
               /\ Evaluated(s)[i].parent = s.population[i].parent
    <2>1. PICK c \in Candidates({<<>>}) : c = s.population[i]
      BY <1>1 DEF Populations
    <2>2. PICK d \in Candidates({<<>>}) : d = IF version = "v35" THEN c ELSE Trained(c, s.generation)
      BY <1>1, TriedTyped
    <2>3. d.id = c.id /\ d.parent = c.parent
      BY <1>1, <2>2, TriedTyped
    <2>4. Evaluated(s)[i] = Tried(d, s.generation)
      BY <2>1, <2>2 DEF Evaluated
    <2>5. /\ Tried(d, s.generation) \in Candidates(Tested)
          /\ Tried(d, s.generation).id = d.id /\ Tried(d, s.generation).parent = d.parent
      BY <1>1, TriedTyped
    <2> QED
      BY <2>1, <2>3, <2>4, <2>5
  <1>3. DOMAIN Evaluated(s) = 1 .. Size /\ Evaluated(s) = [i \in 1 .. Size |-> Evaluated(s)[i]]
    BY DEF Evaluated
  <1> QED
    BY <1>2, <1>3 DEF Populations

\* What the workers of v35 answered, in whatever order, is the evaluation of the generation.
LEMMA SelectionCollected ==
  ASSUME Seeded, version = "v35", Started(session), Answered(pool), pool.tasks = SelectionTasks,
         Complete
  PROVE  [i \in 1 .. Size |->
            [session.population[i] EXCEPT !.trials = ScoresOf(session.population[i].id)]]
           = Evaluated(session)
  <1>1. /\ Len(pool.tasks) = 2 * Size
        /\ \A n \in 1 .. 2 * Size :
             pool.tasks[n] = Task(session.population[(n + 1) \div 2],
                                  IF n % 2 = 1 THEN "standard" ELSE "challenge", session.generation)
    BY SelectionTasksTyped
  <1>2. Distinct(session.population) /\ session.population \in Populations({<<>>})
    <2>1. session.nextId - Size \in Int
      BY Sizes DEF Started, Sessions
    <2> QED
      BY <2>1, NumberedIsDistinct DEF Started
  <1>3. ASSUME NEW i \in 1 .. Size
        PROVE  [session.population[i] EXCEPT !.trials = ScoresOf(session.population[i].id)]
                 = Evaluated(session)[i]
    <2> DEFINE a == 2 * i - 1
               id == session.population[i].id
    <2>1. /\ a \in 1 .. 2 * Size /\ a + 1 \in 1 .. 2 * Size
          /\ (a + 1) \div 2 = i /\ (a + 1 + 1) \div 2 = i /\ a % 2 = 1 /\ (a + 1) % 2 = 0
      BY Sizes
    <2>2. \A n \in 1 .. 2 * Size : (n + 1) \div 2 \in 1 .. Size
                                   /\ ((n + 1) \div 2 = i <=> n \in {a, a + 1})
      BY Sizes
    <2>3. {n \in 1 .. Len(pool.tasks) : pool.tasks[n].id = id} = {a, a + 1}
      <3>1. \A n \in 1 .. 2 * Size : pool.tasks[n].id = session.population[(n + 1) \div 2].id
        BY <1>1 DEF Task
      <3>2. \A n \in 1 .. 2 * Size : pool.tasks[n].id = id <=> n \in {a, a + 1}
        BY <1>2, <2>2, <3>1 DEF Distinct
      <3> HIDE DEF a
      <3> QED
        BY <1>1, <2>1, <3>2
    <2>4. ScoresOf(id) = <<AnswerTo(pool.tasks, a).score, AnswerTo(pool.tasks, a + 1).score>>
      <3> HIDE DEF a, id
      <3> QED
        BY <1>1, <2>1, <2>3, ScoresOfTwo
    <2>5. /\ pool.tasks[a] = Task(session.population[i], "standard", session.generation)
          /\ pool.tasks[a + 1] = Task(session.population[i], "challenge", session.generation)
      <3> HIDE DEF a
      <3>1. pool.tasks[a] = Task(session.population[(a + 1) \div 2],
                                 IF a % 2 = 1 THEN "standard" ELSE "challenge", session.generation)
        BY <1>1, <2>1
      <3>2. pool.tasks[a + 1] = Task(session.population[(a + 1 + 1) \div 2],
                                 IF (a + 1) % 2 = 1 THEN "standard" ELSE "challenge", session.generation)
        BY <1>1, <2>1
      <3> QED
        BY <2>1, <3>1, <3>2
    <2>6. ScoresOf(id) = <<Score("standard", session.generation, session.population[i].genome),
                           Score("challenge", session.generation, session.population[i].genome)>>
      <3> HIDE DEF a, id
      <3> QED
        BY <2>4, <2>5 DEF AnswerTo, Task
    <2>7. Evaluated(session)[i] = Tried(session.population[i], session.generation)
      BY DEF Evaluated
    <2> QED
      BY <2>6, <2>7 DEF Tried
  <1>4. Evaluated(session) = [i \in 1 .. Size |-> Evaluated(session)[i]]
    BY DEF Evaluated
  <1> QED
    BY <1>3, <1>4

\* The two validation scores of a nominee, in whatever order they arrived.
LEMMA ValidationCollected ==
  ASSUME Seeded, Scored(session), session.nominee \in 1 .. NomineeCount, Answered(pool),
         pool.tasks = ValidationTasks, Complete,
         NEW scores, scores = ScoresOf(session.ranked[session.nominee].id)
  PROVE  scores[1] + scores[2] = Validation(session.ranked[session.nominee].genome)
  <1>1. PICK c \in Candidates(Tested) : c = session.ranked[session.nominee]
    BY ValidationTasksTyped
  <1>2. /\ Len(pool.tasks) = 2
        /\ pool.tasks[1] = Task(c, "validation", 1) /\ pool.tasks[2] = Task(c, "validation", 2)
    BY <1>1, ValidationTasksTyped
  <1>3. {n \in 1 .. Len(pool.tasks) : pool.tasks[n].id = c.id} = {1, 1 + 1}
    BY <1>2 DEF Task
  <1>4. 1 \in 1 .. Len(pool.tasks) /\ 1 + 1 \in 1 .. Len(pool.tasks)
    BY <1>2
  <1>5. ScoresOf(c.id) = <<AnswerTo(pool.tasks, 1).score, AnswerTo(pool.tasks, 1 + 1).score>>
    BY <1>3, <1>4, ScoresOfTwo
  <1>6. scores = <<Score("validation", 1, c.genome), Score("validation", 2, c.genome)>>
    BY <1>1, <1>2, <1>5 DEF AnswerTo, Task
  <1> QED
    BY <1>1, <1>6 DEF Validation

\* version and seed never change.
Steady == version' = version /\ seed' = seed

LEMMA NextIsSteady ==
  ASSUME [Next]_vars
  PROVE  Steady
  BY DEF Next, vars, Steady, Train, Resume, Select, CollectSelection, Validate, CollectValidation,
         Evaluate, ShowArchive, ValidateHere, Commit, AppendRecord, NextGeneration, Die, Take, Answer,
         WorkerFails, Submit

\* A pool that nobody touched is as before, and an empty one is in order.
LEMMA PoolSteady ==
  ASSUME Steady, NEW p, p = pool', Answered(p)
  PROVE  Answered(pool)'
  BY DEF Steady, Answered, AnswerTo, Score, Draw, Suite

\* So is the pool that is not in use.
LEMMA NoPoolAnswered == Answered(NoPool)
  <1>1. <<>> \in Seq(Tasks)
    OBVIOUS
  <1> QED
    BY <1>1, FilledPool

\* The types hold at first.
LEMMA InitTyped ==
  ASSUME HashIsNatural, Init
  PROVE  Typed
  <1>1. TypeOK
    <2>1. pool \in Pools
      BY NoPoolAnswered DEF Init, Answered
    <2> QED
      BY <2>1 DEF Init, TypeOK
  <1>2. Pooled
    BY NoPoolAnswered DEF Init, Pooled
  <1>3. Shaped
    BY DEF Init, Shaped, Starting, Judging, Written
  <1> QED
    BY <1>1, <1>2, <1>3 DEF Typed

\* Steps into the middle of the loop: what the new state has to show.
LEMMA TypedStep ==
  ASSUME Typed, Steady,
         checkpoint' \in Checkpoints \cup {None}, results' \in Seq(Rows),
         hofFile' \in Hofs \cup {None}, session' \in Sessions \cup {None},
         pc' \in {"idle", "select", "selecting", "evaluate", "consider", "validate", "validating",
                  "commit", "append", "next"},
         (pc' = "idle") <=> (session' = None),
         Pooled', Shaped'
  PROVE  Typed'
  <1>1. pool' \in Pools
    BY DEF Pooled, Answered
  <1>2. TypeOK'
    BY <1>1 DEF Typed, TypeOK, Steady
  <1> QED
    BY <1>2 DEF Typed

\* Each round of the loop starts with a session that has not evaluated anything.
LEMMA LoopHeadTyped ==
  ASSUME Typed, Steady, NEW s, Started(s), session' = s, pc' = LoopHead, pool = NoPool, pool' = pool,
         checkpoint' = checkpoint, results' \in Seq(Rows), hofFile' \in Hofs \cup {None}
  PROVE  Typed'
  <1>1. s \in Sessions /\ s # None
    BY Absent DEF Started
  <1>2. pc' = IF version = "v35" THEN "select" ELSE "evaluate"
    BY DEF LoopHead
  <1>3. Pooled'
    BY <1>2, NoPoolAnswered, PoolSteady DEF Pooled, NoPool
  <1>4. Shaped'
    BY <1>2 DEF Shaped, Typed, Steady, Starting, Judging, Written
  <1> QED
    BY <1>1, <1>2, <1>3, <1>4, TypedStep DEF Typed, TypeOK

\* Every end of a process leaves the disk as it is.
LEMMA ExitTyped ==
  ASSUME Typed, Steady, Exit, checkpoint' = checkpoint, results' = results,
         hofFile' \in Hofs \cup {None}
  PROVE  Typed'
  <1>1. session' = None /\ pool' = NoPool /\ pc' = "idle"
    BY DEF Exit
  <1>2. Pooled'
    BY <1>1, NoPoolAnswered, PoolSteady DEF Pooled, NoPool
  <1>3. Shaped'
    BY <1>1 DEF Shaped, Typed, Starting, Judging, Written
  <1> QED
    BY <1>1, <1>2, <1>3, TypedStep DEF Typed, TypeOK

\* A first process starts with the founders.
LEMMA TrainTyped ==
  ASSUME HashIsNatural, Typed, Train
  PROVE  Typed'
  <1>1. Seeded /\ Steady
    BY TypedIsSeeded DEF Typed, Train, Steady
  <1>2. PICK s : s = Fresh
    OBVIOUS
  <1>3. Started(s)
    BY <1>1, <1>2, FreshStarts
  <1>4. /\ session' = s /\ pc' = LoopHead /\ pool = NoPool /\ pool' = pool
        /\ checkpoint' = checkpoint /\ results' = results /\ hofFile' = hofFile
    BY <1>2 DEF Train, Typed, Pooled
  <1>5. results' \in Seq(Rows) /\ hofFile' \in Hofs \cup {None}
    BY <1>4 DEF Typed, TypeOK
  <1> QED
    BY <1>1, <1>3, <1>4, <1>5, LoopHeadTyped

\* A later process starts with what was saved.
LEMMA ResumeTyped ==
  ASSUME HashIsNatural, Typed, Resume
  PROVE  Typed' /\ Started(session)' /\ Saved(checkpoint)
  <1>1. Seeded /\ Steady
    BY TypedIsSeeded DEF Typed, Resume, Steady
  <1>2. Saved(checkpoint) /\ checkpoint.generation + 1 < Generations
    BY DEF Resume, Typed, Shaped
  <1>3. /\ checkpoint.population \in Populations({<<>>} \cup Tested)
        /\ checkpoint.record \in Rows /\ checkpoint.hof \in Hofs
    BY <1>2 DEF Saved, Checkpoints
  <1>4. PICK s : s = Following(checkpoint, checkpoint.population)
    OBVIOUS
  <1>5. Started(s)
    BY <1>1, <1>2, <1>3, <1>4, FollowingStarts
  <1>6. /\ session' = s /\ pc' = LoopHead /\ pool = NoPool /\ pool' = pool /\ checkpoint' = checkpoint
    BY <1>4 DEF Resume, Restored, Typed, Pooled
  <1>7. results' \in Seq(Rows) /\ hofFile' \in Hofs \cup {None}
    BY <1>3 DEF Resume, Typed, TypeOK
  <1>8. Typed'
    BY <1>1, <1>5, <1>6, <1>7, LoopHeadTyped
  <1> QED
    BY <1>2, <1>5, <1>6, <1>8

\* Tasks are handed to the workers, and come back.
LEMMA SubmitTyped ==
  ASSUME HashIsNatural, Typed, Select \/ Validate
  PROVE  Typed'
  <1>1. Steady
    BY DEF Select, Validate, Submit, Steady
  <1>2. PICK tasks, after :
          /\ pool' = [NoPool EXCEPT !.tasks = tasks] /\ pc' = after
          /\ \/ pc = "select" /\ tasks = SelectionTasks /\ after = "selecting"
             \/ pc = "validate" /\ version = "v35" /\ tasks = ValidationTasks /\ after = "validating"
    BY DEF Select, Validate, Submit
  <1>3. UNCHANGED <<checkpoint, results, hofFile, session>>
    BY DEF Select, Validate, Submit
  <1>4. tasks \in Seq(Tasks)
    <2>1. CASE pc = "select"
      BY <1>2, <2>1, SelectionTasksTyped DEF Typed, Shaped, Starting
    <2>2. CASE pc = "validate"
      <3>1. Scored(session) /\ session.nominee \in 1 .. NomineeCount
        BY <2>2, Sizes DEF Typed, Shaped, Judging, Scored, Sessions
      <3> QED
        BY <1>2, <2>2, <3>1, ValidationTasksTyped
    <2> QED
      BY <1>2, <2>1, <2>2
  <1>5. PICK p : p = pool'
    OBVIOUS
  <1>6. Answered(p) /\ p.tasks = tasks
    BY <1>2, <1>4, <1>5, FilledPool DEF NoPool
  <1>7. Pooled'
    <2>1. SelectionTasks' = SelectionTasks /\ ValidationTasks' = ValidationTasks
      BY <1>3 DEF SelectionTasks, ValidationTasks
    <2> QED
      BY <1>1, <1>2, <1>5, <1>6, <2>1, PoolSteady DEF Pooled
  <1>8. Shaped'
    BY <1>1, <1>2, <1>3 DEF Shaped, Typed, Steady, Starting, Judging, Written
  <1> QED
    BY <1>1, <1>2, <1>3, <1>7, <1>8, TypedStep DEF Typed, TypeOK

\* A worker takes the next task, which nobody has.
LEMMA TakeTyped ==
  ASSUME HashIsNatural, Typed, NEW w \in Workers, Take(w)
  PROVE  Typed'
  <1>1. Steady /\ UNCHANGED <<checkpoint, results, hofFile, session, pc>> /\ pc \in {"selecting", "validating"}
    BY DEF Take, Steady, Working
  <1>2. PICK p : p = pool /\ Answered(p)
    BY DEF Typed, Pooled
  <1>3. PICK q : q = pool'
    OBVIOUS
  <1>4. p.busy[w] = None /\ p.handed < Len(p.tasks)
        /\ q = [p EXCEPT !.busy[w] = p.handed + 1, !.handed = @ + 1]
    BY <1>2, <1>3 DEF Take
  <1>5. /\ p.tasks \in Seq(Tasks) /\ p.busy \in [Workers -> Nat \cup {None}]
        /\ p.arrived \in Seq(Answers) /\ p.handed \in Nat /\ Len(p.tasks) \in Nat
    BY <1>2 DEF Answered, Pools
  <1>6. PICK h \in Nat : h = p.handed + 1
    BY <1>5
  <1>7. PICK b : b = [p.busy EXCEPT ![w] = h]
    OBVIOUS
  <1>8. q = [tasks |-> p.tasks, handed |-> h, busy |-> b, arrived |-> p.arrived]
    BY <1>2, <1>4, <1>6, <1>7 DEF Answered, Pools
  <1>9. b \in [Workers -> Nat \cup {None}] /\ \A v \in Workers : b[v] = IF v = w THEN h ELSE p.busy[v]
    BY <1>5, <1>7
  <1>10. q \in Pools
    BY <1>5, <1>8, <1>9 DEF Pools
  <1>11. h \in 0 .. Len(p.tasks) /\ p.handed < h
    BY <1>4, <1>5, <1>6
  <1>12. \A v \in Workers : b[v] # None => b[v] \in 1 .. h
    BY <1>2, <1>5, <1>6, <1>9, <1>11 DEF Answered
  <1>13. \A u, v \in Workers : b[u] # None /\ b[u] = b[v] => u = v
    <2>1. \A v \in Workers : p.busy[v] # h
      BY <1>2, <1>5, <1>6, <1>11, Absent DEF Answered
    <2> QED
      BY <1>2, <1>9, <2>1 DEF Answered
  <1>14. \A i \in 1 .. Len(p.arrived) :
           /\ p.arrived[i].ordinal \in 1 .. h
           /\ p.arrived[i] = AnswerTo(p.tasks, p.arrived[i].ordinal)
           /\ \A v \in Workers : b[v] # p.arrived[i].ordinal
    <2> TAKE i \in 1 .. Len(p.arrived)
    <2>1. /\ p.arrived[i].ordinal \in 1 .. p.handed
          /\ p.arrived[i] = AnswerTo(p.tasks, p.arrived[i].ordinal)
          /\ \A v \in Workers : p.busy[v] # p.arrived[i].ordinal
      BY <1>2 DEF Answered
    <2>2. p.arrived[i].ordinal \in 1 .. h /\ p.arrived[i].ordinal # h
      BY <1>5, <1>11, <2>1
    <2> QED
      BY <1>9, <2>1, <2>2
  <1>15. Answered(q)
    BY <1>2, <1>8, <1>10, <1>11, <1>12, <1>13, <1>14 DEF Answered
  <1>16. Pooled'
    <2>1. SelectionTasks' = SelectionTasks /\ ValidationTasks' = ValidationTasks
      BY <1>1 DEF SelectionTasks, ValidationTasks
    <2> QED
      BY <1>1, <1>2, <1>3, <1>8, <1>15, <2>1, PoolSteady DEF Pooled, Typed
  <1>17. Shaped'
    BY <1>1 DEF Shaped, Typed, Steady, Starting, Judging, Written
  <1> QED
    BY <1>1, <1>16, <1>17, TypedStep DEF Typed, TypeOK

\* An answer is to the task its worker had, and no other answer is.
LEMMA AnswerTyped ==
  ASSUME HashIsNatural, Typed, NEW w \in Workers, Answer(w)
  PROVE  Typed'
  <1>1. Steady /\ UNCHANGED <<checkpoint, results, hofFile, session, pc>> /\ pc \in {"selecting", "validating"}
    BY DEF Answer, Steady, Working
  <1>2. PICK p : p = pool /\ Answered(p)
    BY DEF Typed, Pooled
  <1>3. PICK q : q = pool'
    OBVIOUS
  <1>4. PICK n : n = p.busy[w]
    OBVIOUS
  <1>5. n # None /\ q = [p EXCEPT !.busy[w] = None, !.arrived = Append(@, AnswerTo(p.tasks, n))]
    BY <1>2, <1>3, <1>4 DEF Answer, AnswerTo
  <1>6. /\ p.tasks \in Seq(Tasks) /\ p.busy \in [Workers -> Nat \cup {None}]
        /\ p.arrived \in Seq(Answers) /\ p.handed \in Nat /\ Len(p.tasks) \in Nat
        /\ n \in 1 .. p.handed /\ p.handed <= Len(p.tasks) /\ n \in 1 .. Len(p.tasks)
    BY <1>2, <1>4, <1>5 DEF Answered, Pools
  <1>7. PICK a \in Answers : a = AnswerTo(p.tasks, n)
    <2>1. p.tasks[n] \in Tasks
      BY <1>6
    <2>2. PICK task \in Tasks : task = p.tasks[n]
      BY <2>1
    <2>3. PICK score \in Nat : score = Score(task.profile, task.environment, task.genome)
      BY ScoreTyped, TypedIsSeeded DEF Typed, Tasks
    <2>4. AnswerTo(p.tasks, n) = [ordinal |-> n, id |-> task.id, score |-> score]
      BY <2>2, <2>3 DEF AnswerTo
    <2> QED
      BY <2>4, <1>6 DEF Answers, Tasks
  <1>8. a.ordinal = n
    BY <1>7 DEF AnswerTo
  <1>9. PICK b : b = [p.busy EXCEPT ![w] = None]
    OBVIOUS
  <1>10. PICK arrived : arrived = Append(p.arrived, a)
    OBVIOUS
  <1>11. q = [tasks |-> p.tasks, handed |-> p.handed, busy |-> b, arrived |-> arrived]
    BY <1>2, <1>5, <1>7, <1>9, <1>10 DEF Answered, Pools
  <1>12. b \in [Workers -> Nat \cup {None}] /\ \A v \in Workers : b[v] = IF v = w THEN None ELSE p.busy[v]
    BY <1>6, <1>9
  <1>13. /\ arrived \in Seq(Answers) /\ Len(p.arrived) \in Nat /\ Len(arrived) = Len(p.arrived) + 1
         /\ \A i \in 1 .. Len(p.arrived) : arrived[i] = p.arrived[i]
         /\ arrived[Len(p.arrived) + 1] = a
    BY <1>6, <1>7, <1>10
  <1>14. q \in Pools
    BY <1>6, <1>11, <1>12, <1>13 DEF Pools
  <1>15. \A i \in 1 .. Len(p.arrived) : p.arrived[i].ordinal # n
    BY <1>2, <1>4 DEF Answered
  <1>16. \A v \in Workers : b[v] # n
    BY <1>2, <1>4, <1>5, <1>12 DEF Answered
  <1>17. ASSUME NEW i \in 1 .. Len(arrived)
         PROVE  /\ arrived[i].ordinal \in 1 .. p.handed
                /\ arrived[i] = AnswerTo(p.tasks, arrived[i].ordinal)
                /\ \A v \in Workers : b[v] # arrived[i].ordinal
    <2>1. CASE i \in 1 .. Len(p.arrived)
      <3>1. /\ p.arrived[i].ordinal \in 1 .. p.handed
            /\ p.arrived[i] = AnswerTo(p.tasks, p.arrived[i].ordinal)
            /\ \A v \in Workers : p.busy[v] # p.arrived[i].ordinal
        BY <1>2, <2>1 DEF Answered
      <3>2. arrived[i] = p.arrived[i]
        BY <1>13, <2>1
      <3>3. arrived[i].ordinal # None
        BY <3>1, <3>2, <1>6, Absent
      <3> QED
        BY <3>1, <3>2, <3>3, <1>12
    <2>2. CASE i = Len(p.arrived) + 1
      BY <1>6, <1>7, <1>8, <1>13, <1>16, <2>2
    <2> QED
      BY <1>13, <2>1, <2>2
  <1>18. \A i, j \in 1 .. Len(arrived) : arrived[i].ordinal = arrived[j].ordinal => i = j
    <2>1. \A i, j \in 1 .. Len(p.arrived) : p.arrived[i].ordinal = p.arrived[j].ordinal => i = j
      BY <1>2 DEF Answered
    <2>2. \A i \in 1 .. Len(p.arrived) : arrived[i].ordinal = p.arrived[i].ordinal
                                        /\ arrived[i].ordinal # n
      BY <1>13, <1>15
    <2>3. arrived[Len(p.arrived) + 1].ordinal = n
      BY <1>8, <1>13
    <2>4. \A i \in 1 .. Len(arrived) : i \in 1 .. Len(p.arrived) \/ i = Len(p.arrived) + 1
      BY <1>13
    <2> QED
      BY <2>1, <2>2, <2>3, <2>4
  <1>19. \A v \in Workers : b[v] # None => b[v] \in 1 .. p.handed
    BY <1>2, <1>12 DEF Answered
  <1>20. \A u, v \in Workers : b[u] # None /\ b[u] = b[v] => u = v
    BY <1>2, <1>12 DEF Answered
  <1>21. Answered(q)
    BY <1>2, <1>11, <1>14, <1>17, <1>18, <1>19, <1>20 DEF Answered
  <1>22. Pooled'
    <2>1. SelectionTasks' = SelectionTasks /\ ValidationTasks' = ValidationTasks
      BY <1>1 DEF SelectionTasks, ValidationTasks
    <2> QED
      BY <1>1, <1>2, <1>3, <1>11, <1>21, <2>1, PoolSteady DEF Pooled, Typed
  <1>23. Shaped'
    BY <1>1 DEF Shaped, Typed, Steady, Starting, Judging, Written
  <1> QED
    BY <1>1, <1>22, <1>23, TypedStep DEF Typed, TypeOK

\* Evaluating a generation, by workers or in the process itself, comes to the same: the
\* candidates with their scores, ranked.
LEMMA EvaluateTyped ==
  ASSUME HashIsNatural, Typed, CollectSelection \/ Evaluate
  PROVE  /\ Typed'
         /\ pc \in Starting /\ Started(session)
         /\ session' = Ranked(session, Evaluated(session))
         /\ pc' = IF version = "v36" THEN "consider" ELSE "validate"
  <1>1. Steady /\ Seeded
    BY TypedIsSeeded DEF Typed, CollectSelection, Evaluate, Steady
  <1>2. Started(session) /\ pc \in Starting
    BY DEF CollectSelection, Evaluate, Typed, Shaped, Starting
  <1>3. session' = Ranked(session, Evaluated(session))
    <2>1. CASE CollectSelection
      <3>1. version = "v35" /\ Answered(pool) /\ pool.tasks = SelectionTasks /\ Complete
        BY <2>1 DEF CollectSelection, Typed, Shaped, Pooled
      <3>2. [i \in 1 .. Size |->
               [session.population[i] EXCEPT !.trials = ScoresOf(session.population[i].id)]]
              = Evaluated(session)
        BY <1>1, <1>2, <3>1, SelectionCollected
      <3> QED
        BY <2>1, <3>2 DEF CollectSelection
    <2>2. CASE Evaluate
      <3>1. version # "v35"
        BY <2>2 DEF Evaluate, Typed, Shaped
      <3>2. Evaluated(session) = [i \in 1 .. Size |->
              Tried(Trained(session.population[i], session.generation), session.generation)]
        BY <3>1 DEF Evaluated
      <3> QED
        BY <2>2, <3>2 DEF Evaluate
    <2> QED
      BY <2>1, <2>2
  <1>4. PICK s : s = Ranked(session, Evaluated(session))
    OBVIOUS
  <1>5. Scored(s) /\ s.considered = 0 /\ s.nominee = 1
    BY <1>1, <1>2, <1>4, EvaluatedTyped, RankedIsScored
  <1>6. /\ pc' = IF version = "v36" THEN "consider" ELSE "validate"
        /\ UNCHANGED <<checkpoint, results, hofFile>> /\ pool' = NoPool
    BY DEF CollectSelection, Evaluate, Typed, Pooled, Shaped
  <1>7. Pooled'
    BY <1>1, <1>6, NoPoolAnswered, PoolSteady DEF Pooled, NoPool
  <1>8. Shaped'
    BY <1>1, <1>3, <1>4, <1>5, <1>6, Sizes DEF Shaped, Typed, Steady, Starting, Judging, Written
  <1>9. s \in Sessions /\ s # None
    BY <1>5, Absent DEF Scored
  <1>10. Typed'
    BY <1>1, <1>3, <1>4, <1>6, <1>7, <1>8, <1>9, TypedStep DEF Typed, TypeOK
  <1> QED
    BY <1>2, <1>3, <1>6, <1>10

\* One candidate more is shown to the archive of v36.
LEMMA ShowArchiveTyped ==
  ASSUME HashIsNatural, Typed, ShowArchive
  PROVE  /\ Typed'
         /\ pc = "consider" /\ version = "v36" /\ Scored(session) /\ session.considered < Size
         /\ session' = Considered(session)
         /\ pc' = IF session.considered + 1 < Size THEN "consider" ELSE "validate"
  <1>1. Steady /\ Seeded
    BY TypedIsSeeded DEF Typed, ShowArchive, Steady
  <1>2. /\ Scored(session) /\ session.considered < Size /\ session.nominee = 1 /\ version = "v36"
        /\ pc = "consider"
    BY DEF ShowArchive, Typed, Shaped, Judging
  <1>3. PICK s : s = Considered(session)
    OBVIOUS
  <1>4. Scored(s) /\ s.considered = session.considered + 1 /\ s.nominee = 1
    BY <1>1, <1>2, <1>3, ConsideredIsScored
  <1>5. /\ session' = s /\ UNCHANGED <<checkpoint, results, hofFile>> /\ pool' = NoPool
        /\ pc' = IF session.considered + 1 < Size THEN "consider" ELSE "validate"
    BY <1>3 DEF ShowArchive, Typed, Pooled
  <1>6. Pooled'
    BY <1>1, <1>5, NoPoolAnswered, PoolSteady DEF Pooled, NoPool
  <1>7. Shaped'
    BY <1>1, <1>2, <1>4, <1>5, Sizes DEF Shaped, Typed, Steady, Starting, Judging, Written
  <1>8. s \in Sessions /\ s # None
    BY <1>4, Absent DEF Scored
  <1>9. Typed'
    BY <1>1, <1>5, <1>6, <1>7, <1>8, TypedStep DEF Typed, TypeOK
  <1> QED
    BY <1>2, <1>3, <1>5, <1>9

\* Judging a nominee, with the scores of workers or in the process itself, comes to the same.
LEMMA JudgeTyped ==
  ASSUME HashIsNatural, Typed, CollectValidation \/ ValidateHere
  PROVE  /\ Typed'
         /\ pc \in {"validate", "validating"}
         /\ Scored(session) /\ session.nominee \in 1 .. NomineeCount
         /\ session' = Judged(session, Validation(session.ranked[session.nominee].genome))
         /\ pc' = AfterNominee
  <1>1. Steady /\ Seeded
    BY TypedIsSeeded DEF Typed, CollectValidation, ValidateHere, Steady
  <1>2. /\ Scored(session) /\ session.nominee \in 1 .. NomineeCount
        /\ pc \in {"validate", "validating"}
    BY Sizes DEF CollectValidation, ValidateHere, Typed, Shaped, Judging, Scored, Sessions
  <1>3. session' = Judged(session, Validation(session.ranked[session.nominee].genome))
    <2>1. CASE CollectValidation
      <3>1. Answered(pool) /\ pool.tasks = ValidationTasks /\ Complete
        BY <2>1 DEF CollectValidation, Typed, Pooled
      <3>2. PICK scores : scores = ScoresOf(session.ranked[session.nominee].id)
        OBVIOUS
      <3>3. scores[1] + scores[2] = Validation(session.ranked[session.nominee].genome)
        BY <1>1, <1>2, <3>1, <3>2, ValidationCollected
      <3>4. session' = Judged(session, scores[1] + scores[2])
        BY <2>1, <3>2 DEF CollectValidation
      <3> QED
        BY <3>3, <3>4
    <2>2. CASE ValidateHere
      BY <2>2 DEF ValidateHere
    <2> QED
      BY <2>1, <2>2
  <1>4. session.ranked[session.nominee] \in Candidates(Tested)
    BY <1>2, ValidationTasksTyped
  <1>5. PICK score \in Nat : score = Validation(session.ranked[session.nominee].genome)
    <2>1. session.ranked[session.nominee].genome \in Nat
      BY <1>4 DEF Candidates
    <2> QED
      BY <1>1, <2>1, ValidationTyped
  <1>6. PICK s : s = Judged(session, score)
    OBVIOUS
  <1>7. session.nominee \in Int /\ NomineeCount \in Int /\ session.nominee <= NomineeCount
    BY <1>2, Sizes
  <1>8. Scored(s) /\ s.hof \in Hofs /\ s.nominee = session.nominee + 1
    BY <1>2, <1>6, <1>7, JudgedIsScored
  <1>9. /\ session' = s /\ UNCHANGED <<checkpoint, results, hofFile>> /\ pool' = NoPool
        /\ pc' = AfterNominee
    BY <1>3, <1>5, <1>6 DEF CollectValidation, ValidateHere, Typed, Pooled
  <1>10. Pooled'
    BY <1>1, <1>9, NoPoolAnswered, PoolSteady DEF Pooled, NoPool, AfterNominee
  <1>11. Shaped'
    <2>1. CASE session.nominee < NomineeCount
      <3>1. pc' = "validate" /\ session.nominee + 1 <= NomineeCount
        BY <1>7, <1>9, <2>1 DEF AfterNominee
      <3> QED
        BY <1>1, <1>8, <1>9, <3>1 DEF Shaped, Typed, Steady, Starting, Judging, Written
    <2>2. CASE ~(session.nominee < NomineeCount)
      <3>1. pc' = "commit"
        BY <1>9, <2>2 DEF AfterNominee
      <3> QED
        BY <1>1, <1>8, <1>9, <3>1 DEF Shaped, Typed, Steady, Starting, Judging, Written
    <2> QED
      BY <2>1, <2>2
  <1>12. s \in Sessions /\ s # None
    BY <1>8, Absent DEF Scored
  <1>13. Typed'
    BY <1>1, <1>9, <1>10, <1>11, <1>12, TypedStep DEF Typed, TypeOK, AfterNominee
  <1> QED
    BY <1>2, <1>3, <1>9, <1>13

\* The checkpoint replaces the one before.
LEMMA CommitTyped ==
  ASSUME HashIsNatural, Typed, Commit
  PROVE  /\ Typed' /\ Ready(session) /\ Scored(session)
         /\ checkpoint' = Checkpoint(session)
  <1>1. Steady /\ Seeded
    BY TypedIsSeeded DEF Typed, Commit, Steady
  <1>2. Scored(session) /\ session.hof \in Hofs
    BY DEF Commit, Typed, Shaped, Judging
  <1>3. Ready(session)
    BY <1>2 DEF Ready, Scored
  <1>4. PICK k : k = Checkpoint(session)
    OBVIOUS
  <1>5. Saved(k) /\ k \in Checkpoints /\ k # None
    BY <1>1, <1>3, <1>4, CheckpointSaves, Absent DEF Saved
  <1>6. /\ checkpoint' = k /\ UNCHANGED <<results, hofFile, session>> /\ pool' = NoPool
        /\ pc' = "append"
    BY <1>4 DEF Commit, Typed, Pooled
  <1>7. Pooled'
    BY <1>1, <1>6, NoPoolAnswered, PoolSteady DEF Pooled, NoPool
  <1>8. Shaped'
    BY <1>1, <1>5, <1>6 DEF Shaped, Typed, Steady, Starting, Judging, Written
  <1>9. session # None
    BY <1>2, Absent DEF Scored
  <1>10. Typed'
    BY <1>1, <1>5, <1>6, <1>7, <1>8, <1>9, TypedStep DEF Typed, TypeOK
  <1> QED
    BY <1>2, <1>3, <1>4, <1>6, <1>10

\* The JSONL follows the checkpoint.
LEMMA AppendRecordTyped ==
  ASSUME HashIsNatural, Typed, AppendRecord
  PROVE  Typed' /\ Saved(checkpoint)
  <1>1. Steady
    BY DEF AppendRecord, Steady
  <1>2. Saved(checkpoint)
    BY DEF AppendRecord, Typed, Shaped, Written
  <1>3. /\ UNCHANGED <<checkpoint, hofFile, session>> /\ pool' = NoPool /\ pc' = "next"
        /\ results' \in Seq(Rows)
    BY <1>2 DEF AppendRecord, Typed, TypeOK, Pooled, Saved, Checkpoints
  <1>4. Pooled'
    BY <1>1, <1>3, NoPoolAnswered, PoolSteady DEF Pooled, NoPool
  <1>5. Shaped'
    BY <1>1, <1>2, <1>3 DEF AppendRecord, Shaped, Typed, Steady, Starting, Judging, Written
  <1>6. session # None
    BY DEF AppendRecord, Typed, TypeOK
  <1>7. Typed'
    BY <1>1, <1>3, <1>4, <1>5, <1>6, TypedStep DEF Typed, TypeOK
  <1> QED
    BY <1>2, <1>7

\* The loop goes on from the checkpoint, or ends.
LEMMA NextGenerationTyped ==
  ASSUME HashIsNatural, Typed, NextGeneration
  PROVE  /\ Typed' /\ Saved(checkpoint)
         /\ \/ Exit
            \/ /\ checkpoint.generation + 1 < Generations
               /\ session' = Continued(checkpoint) /\ pc' = LoopHead /\ Started(session)'
  <1>1. Steady /\ Seeded
    BY TypedIsSeeded DEF Typed, NextGeneration, Steady
  <1>2. Saved(checkpoint)
    BY DEF NextGeneration, Typed, Shaped, Written
  <1>3. /\ checkpoint.record.candidates \in Populations({<<>>} \cup Tested) /\ checkpoint.hof \in Hofs
    <2>1. checkpoint.record \in Rows /\ checkpoint.hof \in Hofs
      BY <1>2 DEF Saved, Checkpoints
    <2>2. checkpoint.record.candidates \in Populations(Tested)
      BY <2>1 DEF Rows
    <2> QED
      BY <2>1, <2>2, PopulationsJoin
  <1>4. UNCHANGED <<checkpoint, results>> /\ pool = NoPool
        /\ results' \in Seq(Rows) /\ hofFile' \in Hofs \cup {None}
    BY <1>3 DEF NextGeneration, Typed, TypeOK, Pooled
  <1>5. CASE Exit
    BY <1>1, <1>2, <1>4, <1>5, ExitTyped
  <1>6. CASE checkpoint.generation + 1 < Generations /\ session' = Continued(checkpoint)
             /\ pc' = LoopHead /\ pool' = pool
    <2>1. PICK s : s = Following(checkpoint, checkpoint.record.candidates)
      OBVIOUS
    <2>2. Started(s)
      BY <1>1, <1>2, <1>3, <1>6, <2>1, FollowingStarts
    <2>3. session' = s
      BY <1>6, <2>1 DEF Continued
    <2>4. Typed'
      BY <1>1, <1>4, <1>6, <2>2, <2>3, LoopHeadTyped
    <2> QED
      BY <1>2, <1>6, <2>2, <2>3, <2>4
  <1> QED
    BY <1>5, <1>6 DEF NextGeneration

\* Every step keeps the types.
LEMMA TypedKept ==
  ASSUME HashIsNatural, Typed, [Next]_vars
  PROVE  Typed'
  <1>1. CASE UNCHANGED vars
    <2>1. Steady
      BY <1>1 DEF vars, Steady
    <2>2. Pooled'
      <3>1. SelectionTasks' = SelectionTasks /\ ValidationTasks' = ValidationTasks
        BY <1>1 DEF vars, SelectionTasks, ValidationTasks
      <3>2. PICK p : p = pool
        OBVIOUS
      <3>3. p = pool' /\ Answered(p)
        BY <1>1, <3>2 DEF vars, Typed, Pooled
      <3>4. Answered(pool)'
        BY <2>1, <3>3, PoolSteady
      <3> QED
        BY <1>1, <3>1, <3>4 DEF vars, Pooled, Typed, NoPool
    <2>3. Shaped'
      BY <1>1 DEF vars, Shaped, Typed, Starting, Judging, Written
    <2> QED
      BY <1>1, <2>1, <2>2, <2>3, TypedStep DEF vars, Typed, TypeOK
  <1>2. CASE Die \/ \E w \in Workers : WorkerFails(w)
    <2>1. Steady /\ Exit /\ checkpoint' = checkpoint /\ results' = results /\ hofFile' = hofFile
      BY <1>2 DEF Die, WorkerFails, Steady
    <2> QED
      BY <2>1, ExitTyped DEF Typed, TypeOK
  <1> QED
    BY <1>1, <1>2, TrainTyped, ResumeTyped, SubmitTyped, TakeTyped, AnswerTyped, EvaluateTyped,
       ShowArchiveTyped, JudgeTyped, CommitTyped, AppendRecordTyped, NextGenerationTyped DEF Next

--------------------------------------------------------------------------------
(* The records, and what each step means for the lineage                          *)

\* The JSONL is as long as the checkpoint says, or one row behind it.
Filed ==
  /\ checkpoint = None => results = <<>>
  /\ checkpoint # None =>
       \/ Len(results) = checkpoint.generation
       \/ Len(results) = checkpoint.generation + 1
          /\ results[checkpoint.generation + 1] = checkpoint.record
  /\ pc \in Starting \cup Judging => Len(results) = Committed /\ session.generation = Committed
  /\ pc = "append" => Len(results) = checkpoint.generation
  /\ pc = "next" => Len(results) = checkpoint.generation + 1

\* History has a row for every committed generation; the last one is the checkpoint's.
LEMMA HistoryShape ==
  ASSUME Typed, Filed
  PROVE  /\ Committed \in Nat /\ Len(results) \in Nat
         /\ Committed = 0 <=> checkpoint = None
         /\ History \in Seq(Rows) /\ Len(History) = Committed
         /\ checkpoint # None => History[Committed] = checkpoint.record
         /\ Committed = Len(results) => History = results
         /\ Committed > 0 => Saved(checkpoint)
  <1>1. results \in Seq(Rows) /\ Len(results) \in Nat
    BY DEF Typed, TypeOK
  <1>2. CASE checkpoint = None
    <2>1. Committed = 0 /\ Len(results) = 0 /\ History = results
      BY <1>1, <1>2 DEF Committed, Filed, History
    <2> QED
      BY <1>1, <1>2, <2>1
  <1>3. CASE checkpoint # None
    <2>1. Saved(checkpoint) /\ checkpoint.generation \in Nat /\ checkpoint.record \in Rows
      BY <1>3, LineageAssumption DEF Typed, Shaped, Saved, Checkpoints
    <2>2. Committed = checkpoint.generation + 1
      BY <1>3 DEF Committed
    <2>3. CASE Len(results) = checkpoint.generation
      <3>1. History = Append(results, checkpoint.record)
        BY <2>1, <2>2, <2>3 DEF History
      <3> QED
        BY <1>1, <1>3, <2>1, <2>2, <2>3, <3>1
    <2>4. CASE Len(results) = checkpoint.generation + 1
               /\ results[checkpoint.generation + 1] = checkpoint.record
      <3>1. History = results
        BY <2>1, <2>2, <2>4 DEF History
      <3> QED
        BY <1>1, <1>3, <2>1, <2>2, <2>4, <3>1
    <2> QED
      BY <1>3, <2>3, <2>4 DEF Filed
  <1> QED
    BY <1>2, <1>3

\* A step that leaves what is committed, and goes from one phase to another.
Keeps == checkpoint' = checkpoint /\ History' = History

Stays ==
  /\ Keeps /\ session' = session
  /\ \/ pc' = pc
     \/ pc \in Starting /\ pc' \in Starting
     \/ pc \in {"validate", "validating"} /\ pc' \in {"validate", "validating"}
     \/ pc \in Written /\ pc' \in Written
Stops == Keeps /\ session' = None /\ pc' = "idle"
Begins == Keeps /\ pc = "idle" /\ checkpoint = None /\ session' = Fresh /\ pc' \in Starting
GoesOn(candidates) ==
  /\ Keeps /\ checkpoint # None /\ Saved(checkpoint) /\ checkpoint.generation + 1 < Generations
  /\ session' = Following(checkpoint, candidates) /\ pc' \in Starting
Scores ==
  /\ Keeps /\ pc \in Starting /\ Started(session)
  /\ session' = Ranked(session, Evaluated(session))
  /\ pc' = IF version = "v36" THEN "consider" ELSE "validate"
Shows ==
  /\ Keeps /\ pc = "consider" /\ version = "v36" /\ Scored(session) /\ session.considered < Size
  /\ session' = Considered(session)
  /\ pc' = IF session.considered + 1 < Size THEN "consider" ELSE "validate"
Judges ==
  /\ Keeps /\ pc \in {"validate", "validating"}
  /\ Scored(session) /\ session.nominee \in 1 .. NomineeCount
  /\ session' = Judged(session, Validation(session.ranked[session.nominee].genome))
  /\ pc' = AfterNominee
Commits ==
  /\ pc = "commit" /\ pc' = "append" /\ session' = session
  /\ Ready(session) /\ Scored(session) /\ session.generation = Len(History)
  /\ checkpoint' = Checkpoint(session) /\ History' = Append(History, Record(session))

Steps ==
  /\ Steady
  /\ \/ Stays \/ Stops \/ Begins \/ Scores \/ Shows \/ Judges \/ Commits
     \/ pc = "idle" /\ GoesOn(checkpoint.population)
     \/ pc \in Written /\ GoesOn(checkpoint.record.candidates)

\* Where the files and the phase before commit are as they were.
LEMMA FilesKept ==
  ASSUME Typed, Filed, checkpoint' = checkpoint, results' = results
  PROVE  /\ Keeps
         /\ session' = session /\ pc' \in Starting \cup Judging /\ pc \in Starting \cup Judging => Filed'
         /\ pc' = "idle" => Filed'
  <1>1. Keeps
    BY DEF Keeps, History, Committed
  <1>2. ASSUME session' = session, pc' \in Starting \cup Judging, pc \in Starting \cup Judging
        PROVE  Filed'
    BY <1>2 DEF Filed, Starting, Judging, Committed
  <1>3. ASSUME pc' = "idle" PROVE Filed'
    BY <1>3 DEF Filed, Starting, Judging, Committed
  <1> QED
    BY <1>1, <1>2, <1>3

\* Before a generation is committed the files are complete.
LEMMA OpenKept ==
  ASSUME Typed, Filed, checkpoint' = checkpoint, results' = results,
         pc \in Starting \cup Judging, pc' \in Starting \cup Judging,
         session'.generation = session.generation
  PROVE  Keeps /\ Filed'
  BY FilesKept DEF Filed, Starting, Judging, Committed

\* A round that starts continues the files.
LEMMA RoundFiled ==
  ASSUME Typed, Filed, checkpoint' = checkpoint, checkpoint # None, pc' \in Starting,
         results' = IF Len(results) = checkpoint.generation
                    THEN Append(results, checkpoint.record) ELSE results,
         session'.generation = checkpoint.generation + 1
  PROVE  Keeps /\ Filed'
  <1>1. /\ results \in Seq(Rows) /\ Len(results) \in Nat /\ checkpoint.generation \in Nat
        /\ Committed = checkpoint.generation + 1 /\ Committed' = checkpoint.generation + 1
        /\ checkpoint.record \in Rows
    BY LineageAssumption DEF Typed, TypeOK, Shaped, Saved, Checkpoints, Committed
  <1>2. PICK g \in Nat : g = checkpoint.generation
    BY <1>1
  <1>3. PICK r : r = results'
    OBVIOUS
  <1>4. Len(r) = g + 1 /\ r[g + 1] = checkpoint.record /\ r = History
    <2>1. CASE Len(results) = g
      <3>1. r = Append(results, checkpoint.record)
        BY <1>2, <1>3, <2>1
      <3>2. History = Append(results, checkpoint.record)
        BY <1>1, <1>2, <2>1 DEF History
      <3> QED
        BY <1>1, <2>1, <3>1, <3>2
    <2>2. CASE Len(results) = g + 1 /\ results[g + 1] = checkpoint.record
      <3>1. r = results
        BY <1>2, <1>3, <2>2
      <3>2. History = results
        BY <1>1, <1>2, <2>2 DEF History
      <3> QED
        BY <2>2, <3>1, <3>2
    <2> QED
      BY <1>2, <2>1, <2>2 DEF Filed
  <1>5. Keeps
    <2>1. History' = results'
      BY <1>1, <1>2, <1>3, <1>4 DEF History
    <2> QED
      BY <1>3, <1>4, <2>1 DEF Keeps
  <1>6. Filed'
    BY <1>1, <1>2, <1>3, <1>4 DEF Filed, Starting, Judging
  <1> QED
    BY <1>5, <1>6

\* What each step means.
LEMMA BeginSteps ==
  ASSUME HashIsNatural, Typed, Filed, Train
  PROVE  Filed' /\ Steps
  <1>1. Seeded
    BY TypedIsSeeded DEF Typed
  <1>2. pc' \in Starting
    BY DEF Train, LoopHead, Starting
  <1>3. Keeps
    BY FilesKept DEF Train
  <1>4. session'.generation = 0
    BY <1>1, FreshStarts DEF Train
  <1>5. Filed'
    BY <1>2, <1>4 DEF Filed, Train, Committed, Starting, Judging
  <1> QED
    BY <1>2, <1>3, <1>5 DEF Steps, Steady, Begins, Train

LEMMA ResumeSteps ==
  ASSUME HashIsNatural, Typed, Filed, Resume
  PROVE  Filed' /\ Steps
  <1>1. Seeded /\ Saved(checkpoint) /\ checkpoint # None /\ checkpoint.generation + 1 < Generations
    BY TypedIsSeeded, ResumeTyped DEF Typed, Resume
  <1>2. pc' \in Starting /\ pc = "idle"
    BY DEF Resume, LoopHead, Starting
  <1>3. checkpoint.population \in Populations({<<>>} \cup Tested)
    BY <1>1 DEF Saved, Checkpoints
  <1>4. session' = Following(checkpoint, checkpoint.population)
    BY DEF Resume, Restored
  <1>5. session'.generation = checkpoint.generation + 1
    BY <1>1, <1>3, <1>4, FollowingStarts
  <1>6. Keeps /\ Filed'
    BY <1>1, <1>2, <1>5, RoundFiled DEF Resume
  <1>7. GoesOn(checkpoint.population)
    BY <1>1, <1>2, <1>4, <1>6 DEF GoesOn
  <1> QED
    BY <1>2, <1>6, <1>7 DEF Steps, Steady, Resume

LEMMA PoolSteps ==
  ASSUME HashIsNatural, Typed, Filed,
         Select \/ Validate \/ \E w \in Workers : Take(w) \/ Answer(w)
  PROVE  Filed' /\ Steps
  <1>1. UNCHANGED <<version, seed, checkpoint, results, session>>
    BY DEF Select, Validate, Submit, Take, Answer
  <1>2. \/ pc \in {"selecting", "validating"} /\ pc' = pc
        \/ pc = "select" /\ pc' = "selecting"
        \/ pc = "validate" /\ pc' = "validating"
    BY DEF Select, Validate, Submit, Take, Answer, Working
  <1>3. pc \in Starting \cup Judging /\ pc' \in Starting \cup Judging
    BY <1>2 DEF Starting, Judging
  <1>4. Keeps /\ Filed'
    BY <1>1, <1>3, FilesKept
  <1> QED
    BY <1>1, <1>2, <1>4 DEF Steps, Steady, Stays, Starting

LEMMA ScoreSteps ==
  ASSUME HashIsNatural, Typed, Filed, CollectSelection \/ Evaluate
  PROVE  Filed' /\ Steps
  <1>1. /\ pc \in Starting /\ Started(session)
        /\ session' = Ranked(session, Evaluated(session))
        /\ pc' = IF version = "v36" THEN "consider" ELSE "validate"
    BY EvaluateTyped
  <1>2. UNCHANGED <<version, seed, checkpoint, results>>
    BY DEF CollectSelection, Evaluate
  <1>3. session'.generation = session.generation
    <2>1. Seeded
      BY TypedIsSeeded DEF Typed
    <2> QED
      BY <1>1, <2>1, EvaluatedTyped, RankedIsScored
  <1>4. Keeps /\ Filed'
    BY <1>1, <1>2, <1>3, OpenKept DEF Judging
  <1> QED
    BY <1>1, <1>2, <1>4 DEF Steps, Steady, Scores

LEMMA ShowSteps ==
  ASSUME HashIsNatural, Typed, Filed, ShowArchive
  PROVE  Filed' /\ Steps
  <1>1. /\ pc = "consider" /\ version = "v36" /\ Scored(session) /\ session.considered < Size
        /\ session' = Considered(session)
        /\ pc' = IF session.considered + 1 < Size THEN "consider" ELSE "validate"
    BY ShowArchiveTyped
  <1>2. UNCHANGED <<version, seed, checkpoint, results>>
    BY DEF ShowArchive
  <1>3. session'.generation = session.generation
    <2>1. Seeded
      BY TypedIsSeeded DEF Typed
    <2> QED
      BY <1>1, <2>1, ConsideredIsScored
  <1>4. Keeps /\ Filed'
    BY <1>1, <1>2, <1>3, OpenKept DEF Judging
  <1> QED
    BY <1>1, <1>2, <1>4 DEF Steps, Steady, Shows

LEMMA JudgeSteps ==
  ASSUME HashIsNatural, Typed, Filed, CollectValidation \/ ValidateHere
  PROVE  Filed' /\ Steps
  <1>1. /\ pc \in {"validate", "validating"}
        /\ Scored(session) /\ session.nominee \in 1 .. NomineeCount
        /\ session' = Judged(session, Validation(session.ranked[session.nominee].genome))
        /\ pc' = AfterNominee
    BY JudgeTyped
  <1>2. UNCHANGED <<version, seed, checkpoint, results>>
    BY DEF CollectValidation, ValidateHere
  <1>3. session'.generation = session.generation
    BY <1>1 DEF Judged, Scored, Sessions
  <1>4. Keeps /\ Filed'
    BY <1>1, <1>2, <1>3, OpenKept DEF Judging, AfterNominee
  <1> QED
    BY <1>1, <1>2, <1>4 DEF Steps, Steady, Judges

LEMMA CommitSteps ==
  ASSUME HashIsNatural, Typed, Filed, Commit
  PROVE  Filed' /\ Steps
  <1>1. /\ Typed' /\ Ready(session) /\ Scored(session) /\ checkpoint' = Checkpoint(session)
    BY CommitTyped
  <1>2. /\ pc = "commit" /\ pc' = "append" /\ UNCHANGED <<version, seed, results, session>>
    BY DEF Commit
  <1>3. /\ Len(results) = Committed /\ session.generation = Committed /\ History = results
        /\ Committed \in Nat /\ results \in Seq(Rows)
    BY <1>2, HistoryShape DEF Filed, Judging, Typed, TypeOK
  <1>4. PICK k : k = checkpoint'
    OBVIOUS
  <1>5. k # None /\ k.generation = session.generation /\ k.record = Record(session)
    <2>1. Seeded
      BY TypedIsSeeded DEF Typed
    <2> QED
      BY <1>1, <1>4, <2>1, CheckpointSaves, Absent DEF Saved
  <1>6. Committed' = Committed + 1
    BY <1>3, <1>4, <1>5 DEF Committed
  <1>7. History' = Append(History, Record(session)) /\ session.generation = Len(History)
    <2>1. Committed' > Len(results')
      BY <1>2, <1>3, <1>6
    <2>2. History' = Append(results', checkpoint'.record)
      BY <2>1 DEF History
    <2> QED
      BY <1>2, <1>3, <1>4, <1>5, <2>2
  <1>8. Filed'
    BY <1>2, <1>3, <1>4, <1>5 DEF Filed, Starting, Judging
  <1> QED
    BY <1>1, <1>2, <1>7, <1>8 DEF Steps, Steady, Commits, Commit

LEMMA AppendSteps ==
  ASSUME HashIsNatural, Typed, Filed, AppendRecord
  PROVE  Filed' /\ Steps
  <1>1. UNCHANGED <<version, seed, checkpoint, session>> /\ pc = "append" /\ pc' = "next"
        /\ results' = Append(results, checkpoint.record)
    BY DEF AppendRecord
  <1>2. /\ checkpoint # None /\ Saved(checkpoint) /\ Len(results) = checkpoint.generation
        /\ checkpoint.generation \in Nat /\ results \in Seq(Rows)
        /\ checkpoint.record \in Rows
    BY <1>1, LineageAssumption, AppendRecordTyped DEF Filed, Typed, TypeOK, Shaped, Written, Saved, Checkpoints
  <1>3. Committed = checkpoint.generation + 1 /\ Committed' = Committed
    BY <1>1, <1>2 DEF Committed
  <1>4. PICK r : r = results'
    OBVIOUS
  <1>5. Len(r) = checkpoint.generation + 1 /\ r[checkpoint.generation + 1] = checkpoint.record
        /\ r = History
    BY <1>1, <1>2, <1>3, <1>4 DEF History
  <1>6. History' = r
    BY <1>2, <1>3, <1>4, <1>5 DEF History
  <1>7. Keeps
    BY <1>1, <1>5, <1>6 DEF Keeps
  <1>8. Filed'
    BY <1>1, <1>2, <1>4, <1>5 DEF Filed, Starting, Judging
  <1> QED
    BY <1>1, <1>7, <1>8 DEF Steps, Steady, Stays, Written

LEMMA ContinueSteps ==
  ASSUME HashIsNatural, Typed, Filed, NextGeneration
  PROVE  Filed' /\ Steps
  <1>1. /\ Saved(checkpoint)
        /\ \/ Exit
           \/ /\ checkpoint.generation + 1 < Generations
              /\ session' = Continued(checkpoint) /\ pc' = LoopHead
    BY NextGenerationTyped
  <1>2. Seeded /\ Steady /\ pc = "next" /\ UNCHANGED <<checkpoint, results>> /\ checkpoint # None
    BY TypedIsSeeded DEF Typed, NextGeneration, Steady, Shaped, Written
  <1>3. CASE Exit
    <2>1. Keeps /\ Filed' /\ session' = None /\ pc' = "idle"
      BY <1>2, <1>3, FilesKept DEF Exit
    <2> QED
      BY <1>2, <2>1 DEF Steps, Stops
  <1>4. CASE checkpoint.generation + 1 < Generations /\ session' = Continued(checkpoint)
             /\ pc' = LoopHead
    <2>1. pc' \in Starting
      BY <1>4 DEF LoopHead, Starting
    <2>2. checkpoint.record.candidates \in Populations({<<>>} \cup Tested)
      <3>1. checkpoint.record \in Rows
        BY <1>1 DEF Saved, Checkpoints
      <3>2. checkpoint.record.candidates \in Populations(Tested)
        BY <3>1 DEF Rows
      <3> QED
        BY <3>2, PopulationsJoin
    <2>3. session' = Following(checkpoint, checkpoint.record.candidates)
      BY <1>4 DEF Continued
    <2>4. session'.generation = checkpoint.generation + 1
      BY <1>1, <1>2, <1>4, <2>2, <2>3, FollowingStarts
    <2>5. results' = IF Len(results) = checkpoint.generation
                     THEN Append(results, checkpoint.record) ELSE results
      BY <1>1, <1>2, LineageAssumption DEF Filed, Saved, Checkpoints
    <2>6. Keeps /\ Filed'
      BY <1>2, <2>1, <2>4, <2>5, RoundFiled
    <2> QED
      BY <1>1, <1>2, <1>4, <2>1, <2>3, <2>6 DEF Steps, GoesOn, Written
  <1> QED
    BY <1>1, <1>3, <1>4

\* All of them.
LEMMA StepsKept ==
  ASSUME HashIsNatural, Typed, Filed, [Next]_vars
  PROVE  Filed' /\ Steps
  <1>1. CASE UNCHANGED vars
    <2>1. Filed'
      BY <1>1 DEF vars, Filed, Committed, Starting, Judging
    <2>2. Stays /\ Steady
      BY <1>1 DEF vars, Stays, Keeps, History, Committed, Steady
    <2> QED
      BY <2>1, <2>2 DEF Steps
  <1>2. CASE Die \/ \E w \in Workers : WorkerFails(w)
    <2>1. Steady /\ Exit /\ checkpoint' = checkpoint /\ results' = results
      BY <1>2 DEF Die, WorkerFails, Steady
    <2>2. Keeps /\ Filed'
      BY <2>1, FilesKept DEF Exit
    <2> QED
      BY <2>1, <2>2 DEF Steps, Stops, Exit
  <1>3. CASE \E w \in Workers : Take(w) \/ Answer(w)
    BY <1>3, PoolSteps
  <1> QED
    BY <1>1, <1>2, <1>3, BeginSteps, ResumeSteps, PoolSteps, ScoreSteps, ShowSteps, JudgeSteps,
       CommitSteps, AppendSteps, ContinueSteps DEF Next

--------------------------------------------------------------------------------
(* Ids and parents                                                                *)

\* The ids in some records; that no two candidates have the same; that parents come before.
Ids(rows) == {rows[n].candidates[i].id : n \in 1 .. Len(rows), i \in 1 .. Size}
Unique(rows) ==
  \A n \in 1 .. Len(rows) : \A i \in 1 .. Size : \A m \in 1 .. n : \A j \in 1 .. Size :
    <<m, j>> # <<n, i>> => rows[m].candidates[j].id # rows[n].candidates[i].id
Descends(rows) ==
  \A n \in 1 .. Len(rows) : \A i \in 1 .. Size :
    rows[n].candidates[i].parent # None =>
      \E k \in 1 .. n - 1 : \E j \in 1 .. Size :
        rows[k].candidates[j].id = rows[n].candidates[i].parent

\* A row of new candidates with parents among the old ones.
LEMMA RowIsTraceable ==
  ASSUME NEW rows \in Seq(Rows), NEW row \in Rows, Unique(rows), Descends(rows),
         Distinct(row.candidates),
         \A i \in 1 .. Size : row.candidates[i].id \notin Ids(rows),
         \A i \in 1 .. Size : row.candidates[i].parent \in {None} \cup Ids(rows)
  PROVE  /\ Unique(Append(rows, row)) /\ Descends(Append(rows, row))
         /\ Ids(Append(rows, row)) = Ids(rows) \cup IdsOf(row.candidates)
  <1>1. PICK L \in Nat : L = Len(rows)
    OBVIOUS
  <1>2. PICK new : new = Append(rows, row)
    OBVIOUS
  <1>3. /\ Len(new) = L + 1 /\ new[L + 1] = row
        /\ \A n \in 1 .. L : new[n] = rows[n]
        /\ \A n \in 1 .. L + 1 : n \in 1 .. L \/ n = L + 1
    BY <1>1, <1>2
  <1>4. Unique(new)
    <2> SUFFICES ASSUME NEW n \in 1 .. L + 1, NEW i \in 1 .. Size, NEW m \in 1 .. n,
                        NEW j \in 1 .. Size, <<m, j>> # <<n, i>>
                 PROVE  new[m].candidates[j].id # new[n].candidates[i].id
      BY <1>3 DEF Unique
    <2>1. CASE n \in 1 .. L
      <3>1. m \in 1 .. L
        BY <2>1
      <3> QED
        BY <1>1, <1>3, <2>1, <3>1 DEF Unique
    <2>2. CASE n = L + 1 /\ m \in 1 .. L
      <3>1. rows[m].candidates[j].id \in Ids(rows)
        BY <1>1, <2>2 DEF Ids
      <3> QED
        BY <1>3, <2>2, <3>1
    <2>3. CASE n = L + 1 /\ m = L + 1
      <3>1. j # i
        BY <2>3
      <3> QED
        BY <1>3, <2>3, <3>1 DEF Distinct
    <2> QED
      BY <1>3, <2>1, <2>2, <2>3
  <1>5. Descends(new)
    <2> SUFFICES ASSUME NEW n \in 1 .. L + 1, NEW i \in 1 .. Size,
                        new[n].candidates[i].parent # None
                 PROVE  \E k \in 1 .. n - 1 : \E j \in 1 .. Size :
                          new[k].candidates[j].id = new[n].candidates[i].parent
      BY <1>3 DEF Descends
    <2>1. CASE n \in 1 .. L
      <3>1. \E k \in 1 .. n - 1 : \E j \in 1 .. Size :
              rows[k].candidates[j].id = rows[n].candidates[i].parent
        BY <1>1, <1>3, <2>1 DEF Descends
      <3>2. \A k \in 1 .. n - 1 : k \in 1 .. L
        BY <1>1, <2>1
      <3> QED
        BY <1>3, <2>1, <3>1, <3>2
    <2>2. CASE n = L + 1
      <3>1. row.candidates[i].parent \in Ids(rows)
        BY <1>3, <2>2
      <3>2. PICK k \in 1 .. L, j \in 1 .. Size : rows[k].candidates[j].id = row.candidates[i].parent
        BY <1>1, <3>1 DEF Ids
      <3>3. k \in 1 .. n - 1
        BY <1>1, <2>2
      <3> QED
        BY <1>3, <2>2, <3>2, <3>3
    <2> QED
      BY <1>3, <2>1, <2>2
  <1>6. Ids(new) = Ids(rows) \cup IdsOf(row.candidates)
    <2>1. \A id \in Ids(new) : id \in Ids(rows) \cup IdsOf(row.candidates)
      <3> TAKE id \in Ids(new)
      <3>1. PICK n \in 1 .. L + 1, i \in 1 .. Size : id = new[n].candidates[i].id
        BY <1>3 DEF Ids
      <3>2. CASE n \in 1 .. L
        BY <1>1, <1>3, <3>1, <3>2 DEF Ids
      <3>3. CASE n = L + 1
        BY <1>3, <3>1, <3>3 DEF IdsOf
      <3> QED
        BY <1>3, <3>2, <3>3
    <2>2. \A id \in Ids(rows) : id \in Ids(new)
      <3> TAKE id \in Ids(rows)
      <3>1. PICK n \in 1 .. L, i \in 1 .. Size : id = rows[n].candidates[i].id
        BY <1>1 DEF Ids
      <3>2. n \in 1 .. L + 1 /\ new[n] = rows[n]
        BY <1>1, <1>3
      <3> QED
        BY <1>3, <3>1, <3>2 DEF Ids
    <2>3. \A id \in IdsOf(row.candidates) : id \in Ids(new)
      <3>1. L + 1 \in 1 .. L + 1
        BY <1>1
      <3> QED
        BY <1>3, <3>1 DEF Ids, IdsOf
    <2> QED
      BY <2>1, <2>2, <2>3
  <1> QED
    BY <1>2, <1>4, <1>5, <1>6

\* The next id that a checkpoint has not given to a candidate of the records.
Floor(k) == IF version = "v35" THEN k.nextId - Size ELSE k.nextId

\* Ids of v35 and v36: those of the records are below those in hand, parents are in the records.
TracedFile ==
  /\ Unique(History) /\ Descends(History)
  /\ checkpoint # None =>
       /\ \A id \in Ids(History) : id < Floor(checkpoint)
       /\ Kept(checkpoint.archive) \subseteq Ids(History)
       /\ version = "v35" =>
            \A i \in 1 .. Size : checkpoint.population[i].parent \in {None} \cup Ids(History)
       /\ version = "v36" => IdsOf(checkpoint.population) \subseteq Ids(History)

TracedSession ==
  /\ \A id \in Ids(History) : id < session.nextId - Size
  /\ \A i \in 1 .. Size : session.population[i].parent \in {None} \cup Ids(History)
  /\ Kept(session.archive) \subseteq Ids(History) \cup
       (IF pc \in Starting THEN {} ELSE IdsOf(session.population))

Traced ==
  version # "v37" => TracedFile /\ (pc \in Starting \cup Judging => TracedSession)

\* What the archive of a first process keeps: nothing.
LEMMA EmptyKeepsNothing == Kept(Empty) = {}
  BY DEF Kept, Occupied, Empty

\* Where nothing is committed, the files are as traceable as before.
LEMMA TracedFileKept ==
  ASSUME Steady, Keeps, TracedFile
  PROVE  TracedFile'
  <1>1. Floor(checkpoint)' = Floor(checkpoint)
    BY DEF Steady, Keeps, Floor
  <1> QED
    BY <1>1 DEF Steady, Keeps, TracedFile

\* The candidates of the last record are in the records.
LEMMA LastRecordIds ==
  ASSUME Typed, Filed, checkpoint # None
  PROVE  /\ checkpoint.record.candidates \in Populations({<<>>} \cup Tested)
         /\ IdsOf(checkpoint.record.candidates) \subseteq Ids(History)
  <1>1. /\ Saved(checkpoint) /\ Len(History) = Committed /\ Committed \in Nat /\ Committed # 0
        /\ History[Committed] = checkpoint.record
    BY HistoryShape
  <1>2. checkpoint.record \in Rows
    BY <1>1 DEF Saved, Checkpoints
  <1>3. checkpoint.record.candidates \in Populations({<<>>} \cup Tested)
    BY <1>2, PopulationsJoin DEF Rows
  <1>4. Committed \in 1 .. Len(History)
    BY <1>1
  <1> QED
    BY <1>1, <1>3, <1>4 DEF Ids, IdsOf

\* A new round: new ids, parents in the records.
LEMMA TracedGoesOn ==
  ASSUME Seeded, Steady, TracedFile, version # "v37", NEW candidates, GoesOn(candidates),
         candidates \in Populations({<<>>} \cup Tested),
         version = "v36" => IdsOf(candidates) \subseteq Ids(History)
  PROVE  TracedSession'
  <1>1. PICK k : k = checkpoint
    OBVIOUS
  <1>2. PICK s : s = Following(k, candidates)
    OBVIOUS
  <1>3. /\ Saved(k) /\ k.generation + 1 < Generations /\ session' = s /\ History' = History
        /\ k # None /\ pc' \in Starting /\ k.nextId \in Nat
    BY <1>1, <1>2 DEF GoesOn, Keeps, Saved, Checkpoints
  <1>4. /\ s.archive = k.archive
        /\ s.nextId = IF version = "v36" THEN k.nextId + Size ELSE k.nextId
        /\ version = "v36" =>
             \A i \in 1 .. Size : s.population[i].parent \in Kept(k.archive) \cup IdsOf(candidates)
        /\ version # "v36" =>
             \A i \in 1 .. Size : s.population[i].parent = k.population[i].parent
    BY <1>2, <1>3, FollowingStarts
  <1>5. s.nextId - Size = Floor(k)
    BY <1>3, <1>4, Sizes DEF Floor, Seeded
  <1>6. /\ \A id \in Ids(History) : id < Floor(k)
        /\ Kept(k.archive) \subseteq Ids(History)
        /\ version = "v35" =>
             \A i \in 1 .. Size : k.population[i].parent \in {None} \cup Ids(History)
    BY <1>1, <1>3 DEF TracedFile
  <1>7. \A i \in 1 .. Size : s.population[i].parent \in {None} \cup Ids(History)
    BY <1>4, <1>6 DEF Seeded
  <1> QED
    BY <1>3, <1>4, <1>5, <1>6, <1>7 DEF TracedSession

\* The records of a new generation are traceable.
LEMMA TracedCommits ==
  ASSUME HashIsNatural, Typed, Filed, TracedFile, TracedSession, version # "v37", Steady, Commits
  PROVE  TracedFile'
  <1>1. Seeded /\ Ready(session) /\ Scored(session)
    BY TypedIsSeeded DEF Typed, Commits
  <1>2. PICK k : k = checkpoint'
    OBVIOUS
  <1>3. PICK row : row = Record(session)
    OBVIOUS
  <1>4. PICK H : H = History
    OBVIOUS
  <1>5. /\ Saved(k) /\ row \in Rows /\ row.candidates = session.ranked
        /\ k.archive = session.archive
        /\ k.nextId = IF version = "v35" THEN session.nextId + Size ELSE session.nextId
        /\ version # "v35" => k.population = session.population
        /\ version = "v35" =>
             \A i \in 1 .. Size : k.population[i].parent \in {None} \cup IdsOf(session.ranked)
    BY <1>1, <1>2, <1>3, CheckpointSaves DEF Commits
  <1>6. IdsOf(session.ranked) = IdsOf(session.population)
        /\ \A i \in 1 .. Size : \E j \in 1 .. Size : session.ranked[i] = session.population[j]
    <2>1. /\ Range(session.ranked) = {session.ranked[i] : i \in 1 .. Size}
          /\ Range(session.population) = {session.population[i] : i \in 1 .. Size}
      BY <1>1 DEF Scored, Populations, Range
    <2>2. \A i \in 1 .. Size : \E j \in 1 .. Size : session.ranked[i] = session.population[j]
      BY <1>1, <2>1 DEF Scored
    <2>3. \A i \in 1 .. Size : \E j \in 1 .. Size : session.population[i] = session.ranked[j]
      BY <1>1, <2>1 DEF Scored
    <2> QED
      BY <2>2, <2>3 DEF IdsOf
  <1>7. /\ H \in Seq(Rows) /\ Unique(H) /\ Descends(H)
        /\ \A id \in Ids(H) : id < session.nextId - Size
        /\ \A i \in 1 .. Size : session.population[i].parent \in {None} \cup Ids(H)
        /\ Kept(session.archive) \subseteq Ids(H) \cup IdsOf(session.population)
    BY <1>4, HistoryShape DEF TracedFile, TracedSession, Commits, Starting
  <1>8. session.nextId \in Nat /\ session.nextId > Size
        /\ \A i \in 1 .. Size : session.population[i].id = (session.nextId - Size) + (i - 1)
    BY <1>1 DEF Scored, Sessions, Numbered
  <1>9. \A id \in IdsOf(session.ranked) : id \in Int /\ session.nextId - Size <= id /\ id < session.nextId
    <2>1. \A i \in 1 .. Size : /\ session.population[i].id \in Int
                              /\ session.nextId - Size <= session.population[i].id
                              /\ session.population[i].id < session.nextId
      BY <1>8, Sizes
    <2> QED
      BY <1>6, <2>1 DEF IdsOf
  <1>10. Distinct(row.candidates)
    BY <1>1, <1>5 DEF Scored
  <1>11. \A i \in 1 .. Size : row.candidates[i].id \notin Ids(H)
    <2> TAKE i \in 1 .. Size
    <2>1. row.candidates[i].id \in IdsOf(session.ranked)
      BY <1>5 DEF IdsOf
    <2>2. \A id \in IdsOf(session.ranked) : id \notin Ids(H)
      <3> TAKE id \in IdsOf(session.ranked)
      <3>1. id \in Int /\ session.nextId - Size <= id
        BY <1>9
      <3>2. session.nextId - Size \in Int
        BY <1>8, Sizes
      <3> QED
        BY <1>7, <3>1, <3>2
    <2> QED
      BY <2>1, <2>2
  <1>12. \A i \in 1 .. Size : row.candidates[i].parent \in {None} \cup Ids(H)
    BY <1>5, <1>6, <1>7
  <1>13. PICK new : new = Append(H, row)
    OBVIOUS
  <1>14. Unique(new) /\ Descends(new) /\ Ids(new) = Ids(H) \cup IdsOf(session.ranked)
    BY <1>5, <1>7, <1>10, <1>11, <1>12, <1>13, RowIsTraceable
  <1>15. History' = new
    BY <1>3, <1>4, <1>13 DEF Commits
  <1>16. PICK floor : floor = Floor(checkpoint)'
    OBVIOUS
  <1>17. floor = IF version = "v35" THEN k.nextId - Size ELSE k.nextId
    BY <1>2, <1>16 DEF Floor, Steady
  <1>18. floor = session.nextId
    BY <1>5, <1>8, <1>17, Sizes
  <1>19. \A id \in Ids(new) : id < floor
    <2>1. \A id \in Ids(H) : id < session.nextId
      <3>1. \A id \in Ids(H) : id \in Int
        <4>1. \A n \in 1 .. Len(H), i \in 1 .. Size : H[n].candidates[i].id \in Int
          <5> TAKE n \in 1 .. Len(H), i \in 1 .. Size
          <5>1. H[n] \in Rows
            BY <1>7
          <5>2. H[n].candidates[i] \in Candidates(Tested)
            BY <5>1 DEF Rows, Populations
          <5> QED
            BY <5>2 DEF Candidates
        <4> QED
          BY <4>1 DEF Ids
      <3> QED
        BY <1>7, <1>8, <3>1, Sizes
    <2> QED
      BY <1>9, <1>14, <1>18, <2>1
  <1>20. Kept(k.archive) \subseteq Ids(new)
    BY <1>5, <1>6, <1>7, <1>14
  <1>21. version = "v35" =>
           \A i \in 1 .. Size : k.population[i].parent \in {None} \cup Ids(new)
    BY <1>5, <1>14
  <1>22. version = "v36" => IdsOf(k.population) \subseteq Ids(new)
    BY <1>5, <1>6, <1>14
  <1> QED
    BY <1>2, <1>14, <1>15, <1>16, <1>19, <1>20, <1>21, <1>22 DEF TracedFile, Steady

\* Every step keeps ids and parents traceable.
LEMMA TracedKept ==
  ASSUME HashIsNatural, Typed, Filed, Traced, Steps
  PROVE  Traced'
  <1> SUFFICES ASSUME version # "v37"
               PROVE  TracedFile' /\ (pc' \in Starting \cup Judging => TracedSession')
    BY DEF Traced, Steps, Steady, Starting, Judging
  <1>1. Seeded /\ Steady /\ TracedFile /\ (pc \in Starting \cup Judging => TracedSession)
    BY TypedIsSeeded DEF Typed, Steps, Traced
  <1>2. CASE Stays
    <2>1. TracedFile' /\ session' = session /\ History' = History
      BY <1>1, <1>2, TracedFileKept DEF Stays, Keeps
    <2>2. pc' \in Starting \cup Judging =>
            pc \in Starting \cup Judging /\ (pc' \in Starting <=> pc \in Starting)
      BY <1>2 DEF Stays, Starting, Judging, Written
    <2> QED
      BY <1>1, <2>1, <2>2 DEF TracedSession
  <1>3. CASE Stops
    <2>1. pc' \notin Starting \cup Judging
      BY <1>3 DEF Stops, Starting, Judging
    <2> QED
      BY <1>1, <1>3, <2>1, TracedFileKept DEF Stops
  <1>4. CASE Begins
    <2>1. TracedFile' /\ History' = History /\ pc' \in Starting
      BY <1>1, <1>4, TracedFileKept DEF Begins, Keeps
    <2>2. Ids(History) = {}
      <3>1. Len(History) = 0
        BY <1>4, HistoryShape DEF Begins
      <3> QED
        BY <3>1 DEF Ids
    <2>3. PICK s : s = Fresh
      OBVIOUS
    <2>4. s.archive = Empty /\ \A i \in 1 .. Size : s.population[i].parent = None
      BY <1>1, <2>3, FreshStarts
    <2>5. session' = s
      BY <1>4, <2>3 DEF Begins
    <2> QED
      BY <2>1, <2>2, <2>4, <2>5, EmptyKeepsNothing DEF TracedSession
  <1>5. CASE GoesOn(checkpoint.population)
    <2>1. TracedFile'
      BY <1>1, <1>5, TracedFileKept DEF GoesOn
    <2>2. checkpoint.population \in Populations({<<>>} \cup Tested)
      BY <1>5 DEF GoesOn, Saved, Checkpoints
    <2>3. version = "v36" => IdsOf(checkpoint.population) \subseteq Ids(History)
      BY <1>1, <1>5 DEF TracedFile, GoesOn
    <2> QED
      BY <1>1, <1>5, <2>1, <2>2, <2>3, TracedGoesOn
  <1>6. CASE GoesOn(checkpoint.record.candidates)
    <2>1. TracedFile'
      BY <1>1, <1>6, TracedFileKept DEF GoesOn
    <2>2. /\ checkpoint.record.candidates \in Populations({<<>>} \cup Tested)
          /\ IdsOf(checkpoint.record.candidates) \subseteq Ids(History)
      BY <1>6, LastRecordIds DEF GoesOn
    <2> QED
      BY <1>1, <1>6, <2>1, <2>2, TracedGoesOn
  <1>7. CASE Scores
    <2>1. TracedFile' /\ History' = History /\ pc \in Starting /\ TracedSession
      BY <1>1, <1>7, TracedFileKept DEF Scores, Keeps
    <2>2. PICK s : s = Ranked(session, Evaluated(session))
      OBVIOUS
    <2>3. /\ s.population = Evaluated(session) /\ s.nextId = session.nextId
          /\ s.archive = session.archive
      BY <1>1, <1>7, <2>2, EvaluatedTyped, RankedIsScored DEF Scores
    <2>4. \A i \in 1 .. Size : s.population[i].parent = session.population[i].parent
      BY <1>1, <1>7, <2>3, EvaluatedTyped DEF Scores
    <2>5. Kept(s.archive) \subseteq Ids(History)
      BY <2>1, <2>3 DEF TracedSession
    <2>6. session' = s
      BY <1>7, <2>2 DEF Scores
    <2> QED
      BY <2>1, <2>3, <2>4, <2>5, <2>6 DEF TracedSession
  <1>8. CASE Shows
    <2>1. TracedFile' /\ History' = History /\ TracedSession /\ pc \notin Starting
          /\ pc' \notin Starting
      BY <1>1, <1>8, TracedFileKept DEF Shows, Keeps, Starting, Judging
    <2>2. PICK s : s = Considered(session)
      OBVIOUS
    <2>3. /\ s.population = session.population /\ s.nextId = session.nextId
          /\ s.archive = Consider(session.archive, session.population[session.considered + 1],
                                  session.generation)
          /\ session.considered + 1 \in 1 .. Size
          /\ session.population[session.considered + 1] \in Candidates(Tested)
      BY <1>1, <1>8, <2>2, ConsideredIsScored DEF Shows
    <2>4. session.archive \in Maps /\ session.generation \in Nat
      BY <1>8, LineageAssumption DEF Shows, Scored, Sessions
    <2>5. Kept(s.archive)
            \subseteq Kept(session.archive) \cup {session.population[session.considered + 1].id}
      BY <1>1, <2>3, <2>4, ConsiderTyped
    <2>6. session.population[session.considered + 1].id \in IdsOf(session.population)
      BY <2>3 DEF IdsOf
    <2>7. Kept(s.archive) \subseteq Ids(History) \cup IdsOf(s.population)
      BY <2>1, <2>3, <2>5, <2>6 DEF TracedSession
    <2>8. session' = s
      BY <1>8, <2>2 DEF Shows
    <2> QED
      BY <2>1, <2>3, <2>7, <2>8 DEF TracedSession
  <1>9. CASE Judges
    <2>1. TracedFile' /\ History' = History /\ TracedSession /\ pc \notin Starting
          /\ pc' \notin Starting
      BY <1>1, <1>9, TracedFileKept DEF Judges, Keeps, Starting, Judging, AfterNominee
    <2>2. /\ session'.population = session.population /\ session'.nextId = session.nextId
          /\ session'.archive = session.archive
      BY <1>9 DEF Judges, Judged, Scored, Sessions
    <2> QED
      BY <2>1, <2>2 DEF TracedSession
  <1>10. CASE Commits
    <2>1. TracedSession /\ pc' \notin Starting \cup Judging
      BY <1>1, <1>10 DEF Commits, Starting, Judging
    <2> QED
      BY <1>1, <1>10, <2>1, TracedCommits
  <1> QED
    BY <1>2, <1>3, <1>4, <1>5, <1>6, <1>7, <1>8, <1>9, <1>10 DEF Steps

\* The traceable lineage, from its parts.
LEMMA TracedIsTraceable ==
  ASSUME HashIsNatural, Typed, Filed, Traced
  PROVE  LineageIsTraceable
  <1> SUFFICES ASSUME version # "v37",
                      NEW n \in DOMAIN History, NEW i \in DOMAIN History[n].candidates
               PROVE  /\ \A m \in 1 .. n : \A j \in DOMAIN History[m].candidates :
                           <<m, j>> # <<n, i>> =>
                             History[m].candidates[j].id # History[n].candidates[i].id
                      /\ History[n].candidates[i].parent # None =>
                           \E k \in 1 .. n - 1 : \E j \in DOMAIN History[k].candidates :
                             History[k].candidates[j].id = History[n].candidates[i].parent
    BY DEF LineageIsTraceable, Typed
  <1>1. History \in Seq(Rows) /\ Unique(History) /\ Descends(History)
    BY HistoryShape DEF Traced, TracedFile
  <1>2. PICK H \in Seq(Rows) : H = History
    BY <1>1
  <1>3. \A m \in 1 .. Len(H) : DOMAIN H[m].candidates = 1 .. Size
    <2> TAKE m \in 1 .. Len(H)
    <2>1. H[m] \in Rows
      OBVIOUS
    <2>2. H[m].candidates \in [1 .. Size -> Candidates(Tested)]
      BY <2>1 DEF Rows, Populations
    <2> QED
      BY <2>2
  <1>4. n \in 1 .. Len(H) /\ i \in 1 .. Size
    <2>1. n \in 1 .. Len(H)
      BY <1>2
    <2> QED
      BY <1>2, <1>3, <2>1
  <1>5. \A m \in 1 .. n : m \in 1 .. Len(H)
    BY <1>2, <1>4
  <1>6. \A k \in 1 .. n - 1 : k \in 1 .. Len(H)
    BY <1>2, <1>4
  <1>7. \A m \in 1 .. n : \A j \in DOMAIN H[m].candidates :
          <<m, j>> # <<n, i>> => H[m].candidates[j].id # H[n].candidates[i].id
    BY <1>1, <1>2, <1>3, <1>4, <1>5 DEF Unique
  <1>8. H[n].candidates[i].parent # None =>
          \E k \in 1 .. n - 1 : \E j \in DOMAIN H[k].candidates :
            H[k].candidates[j].id = H[n].candidates[i].parent
    <2> HAVE H[n].candidates[i].parent # None
    <2>1. PICK k \in 1 .. n - 1, j \in 1 .. Size :
            H[k].candidates[j].id = H[n].candidates[i].parent
      BY <1>1, <1>2, <1>4 DEF Descends
    <2>2. j \in DOMAIN H[k].candidates
      BY <1>3, <1>6
    <2> QED
      BY <2>1, <2>2
  <1> QED
    BY <1>2, <1>7, <1>8

\* Ids tell the candidates of an experiment apart and parents can be traced, also after
\* processes died with candidates they never committed.
THEOREM LineagesAreTraceable ==
  ASSUME HashIsNatural
  PROVE  Spec => []LineageIsTraceable
  <1>1. Init => Typed /\ Filed /\ Traced
    <2> SUFFICES ASSUME Init PROVE Typed /\ Filed /\ Traced
      OBVIOUS
    <2>1. Typed
      BY InitTyped
    <2>2. Filed
      BY DEF Init, Filed, Starting, Judging
    <2>3. Ids(History) = {} /\ Len(History) = 0
      BY DEF Init, History, Committed, Ids
    <2>4. TracedFile
      BY <2>3 DEF Init, TracedFile, Unique, Descends
    <2> QED
      BY <2>1, <2>2, <2>4 DEF Init, Traced, Starting, Judging
  <1>2. Typed /\ Filed /\ Traced /\ [Next]_vars => (Typed /\ Filed /\ Traced)'
    BY TypedKept, StepsKept, TracedKept
  <1>3. Typed /\ Filed /\ Traced => LineageIsTraceable
    BY TracedIsTraceable
  <1> QED
    BY <1>1, <1>2, <1>3, PTL DEF Spec

--------------------------------------------------------------------------------
(* The Hall of Fame                                                               *)

\* A candidate that is no better than what the Hall of Fame holds.
Beaten(c, hof) ==
  ~Above(HofKey(c.genome, Validation(c.genome)), HofKey(hof.genome, hof.score))

\* By score, and between equal scores by genome, as the version wants it.
Prefers(g, h) == CASE version = "v35" -> g < h [] version = "v36" -> g > h [] OTHER -> FALSE

\* The keys of the Hall of Fame compare by score, then by what the version prefers.
LEMMA HofOrder ==
  ASSUME Seeded, NEW g \in Nat, NEW x \in Nat, NEW h \in Nat, NEW y \in Nat
  PROVE  Above(HofKey(g, x), HofKey(h, y)) <=> x > y \/ (x = y /\ Prefers(g, h))
  <1>1. CASE version = "v35"
    <2>1. PICK a \in Int, b \in Int : a = -g /\ b = -h
      OBVIOUS
    <2>2. Above(<<x, a>>, <<y, b>>) <=> x > y \/ (x = y /\ a > b)
      BY AboveTwo
    <2>3. HofKey(g, x) = <<x, a>> /\ HofKey(h, y) = <<y, b>>
      BY <1>1, <2>1 DEF HofKey
    <2>4. a > b <=> Prefers(g, h)
      BY <1>1, <2>1 DEF Prefers
    <2> QED
      BY <2>2, <2>3, <2>4
  <1>2. CASE version = "v36"
    <2>1. Above(<<x, g>>, <<y, h>>) <=> x > y \/ (x = y /\ g > h)
      BY AboveTwo
    <2>2. HofKey(g, x) = <<x, g>> /\ HofKey(h, y) = <<y, h>>
      BY <1>2 DEF HofKey
    <2>3. g > h <=> Prefers(g, h)
      BY <1>2 DEF Prefers
    <2> QED
      BY <2>1, <2>2, <2>3
  <1>3. CASE version = "v37"
    <2>1. Above(<<x>>, <<y>>) <=> x > y
      BY AboveOne
    <2>2. HofKey(g, x) = <<x>> /\ HofKey(h, y) = <<y>>
      BY <1>3 DEF HofKey
    <2>3. ~Prefers(g, h)
      BY <1>3 DEF Prefers
    <2> QED
      BY <2>1, <2>2, <2>3
  <1> QED
    BY <1>1, <1>2, <1>3 DEF Seeded

\* Whoever is judged is beaten afterwards, and so is everyone who was before.
LEMMA BetterBeats ==
  ASSUME Seeded, NEW hof \in Hofs \cup {None}, NEW c \in Candidates(Tested), NEW generation \in Nat,
         NEW new, new = Better(hof, c, Validation(c.genome), generation)
  PROVE  /\ Beaten(c, new)
         /\ hof # None =>
              \A d \in Candidates(Tested) : Beaten(d, hof) => Beaten(d, new)
  <1>1. c.genome \in Nat /\ Validation(c.genome) \in Nat
    BY ValidationTyped DEF Candidates
  <1>2. PICK v \in Nat : v = Validation(c.genome)
    BY <1>1
  <1>3. CASE new = [id |-> c.id, genome |-> c.genome, score |-> v, generation |-> generation]
             /\ (hof # None => Above(HofKey(c.genome, v), HofKey(hof.genome, hof.score)))
    <2>1. new.genome = c.genome /\ new.score = v
      BY <1>3
    <2>2. Beaten(c, new)
      <3>1. ~Above(HofKey(c.genome, v), HofKey(c.genome, v))
        BY <1>1, HofOrder DEF Prefers, Seeded
      <3> QED
        BY <1>2, <2>1, <3>1 DEF Beaten
    <2>3. ASSUME hof # None, NEW d \in Candidates(Tested), Beaten(d, hof) PROVE Beaten(d, new)
      <3>1. hof.genome \in Nat /\ hof.score \in Nat
        BY <2>3 DEF Hofs
      <3>2. PICK w \in Nat, e \in Nat : w = Validation(d.genome) /\ e = d.genome
        BY ValidationTyped DEF Candidates
      <3>3. PICK h \in Nat, y \in Nat : h = hof.genome /\ y = hof.score
        BY <3>1
      <3>4. PICK g \in Nat : g = c.genome
        BY <1>1
      <3>5. ~(w > y \/ (w = y /\ Prefers(e, h)))
        BY <2>3, <3>2, <3>3, HofOrder DEF Beaten
      <3>6. v > y \/ (v = y /\ Prefers(g, h))
        BY <1>3, <2>3, <3>3, <3>4, HofOrder
      <3>7. ~(w > v \/ (w = v /\ Prefers(e, g)))
        BY <3>5, <3>6 DEF Prefers, Seeded
      <3>8. ~Above(HofKey(e, w), HofKey(g, v))
        BY <3>7, HofOrder
      <3> QED
        BY <2>1, <3>2, <3>4, <3>8 DEF Beaten
    <2> QED
      BY <2>2, <2>3
  <1>4. CASE hof # None /\ ~Above(HofKey(c.genome, v), HofKey(hof.genome, hof.score)) /\ new = hof
    BY <1>2, <1>4 DEF Beaten
  <1> QED
    BY <1>2, <1>3, <1>4 DEF Better

\* Neither the versions nor the seed change who is beaten.
LEMMA BeatenSteady ==
  ASSUME Steady, NEW c, NEW hof
  PROVE  Beaten(c, hof)' <=> Beaten(c, hof)
  BY DEF Steady, Beaten, HofKey, Validation, Score, Suite, Draw, Above

\* The Hall of Fame tops the nominees of all records.
Tops(hof, rows) ==
  \A n \in 1 .. Len(rows) : \A i \in 1 .. NomineeCount : Beaten(rows[n].candidates[i], hof)

\* Nor do they change who tops the records.
LEMMA TopsSteady ==
  ASSUME Steady, NEW hof, NEW rows
  PROVE  Tops(hof, rows)' <=> Tops(hof, rows)
  BY BeatenSteady DEF Tops, NomineeCount, Size

\* The file tops all records; so does a session that has any, and its nominees so far.
TopsFile == checkpoint # None => Tops(checkpoint.hof, History)
TopsSession ==
  /\ Len(History) > 0 => session.hof \in Hofs /\ Tops(session.hof, History)
  /\ pc \in Judging =>
       \A i \in 1 .. session.nominee - 1 :
         session.hof \in Hofs /\ Beaten(session.ranked[i], session.hof)
  /\ pc = "commit" => session.nominee = NomineeCount + 1

Topped == TopsFile /\ (pc \in Starting \cup Judging => TopsSession)

\* Where nothing is committed, the file goes on topping the records.
LEMMA TopsFileKept ==
  ASSUME Steady, Keeps, TopsFile
  PROVE  TopsFile'
  <1>1. PICK k : k = checkpoint
    OBVIOUS
  <1>2. PICK H : H = History
    OBVIOUS
  <1>3. checkpoint' = k /\ History' = H
    BY <1>1, <1>2 DEF Keeps
  <1>4. k # None => Tops(k.hof, H)
    BY <1>1, <1>2 DEF TopsFile
  <1>5. k # None => Tops(k.hof, H)'
    BY <1>4, TopsSteady
  <1> QED
    BY <1>3, <1>5 DEF TopsFile

\* A session that starts with the Hall of Fame of the file tops the records.
LEMMA ToppedStart ==
  ASSUME Steady, pc' \in Starting, NEW s, session' = s, NEW H \in Seq(Rows), History' = H,
         Len(H) > 0 => s.hof \in Hofs /\ Tops(s.hof, H)
  PROVE  TopsSession'
  <1>1. Len(H) > 0 => s.hof \in Hofs' /\ Tops(s.hof, H)'
    BY TopsSteady DEF Hofs
  <1>2. pc' \notin Judging /\ pc' # "commit"
    BY DEF Starting, Judging
  <1> QED
    BY <1>1, <1>2 DEF TopsSession

\* A session whose nominees so far are beaten.
LEMMA ToppedJudging ==
  ASSUME Steady, NEW s, session' = s, NEW H \in Seq(Rows), History' = H,
         Len(H) > 0 => s.hof \in Hofs /\ Tops(s.hof, H),
         \A i \in 1 .. s.nominee - 1 : s.hof \in Hofs /\ Beaten(s.ranked[i], s.hof),
         pc' = "commit" => s.nominee = NomineeCount + 1
  PROVE  TopsSession'
  <1>1. Len(H) > 0 => s.hof \in Hofs' /\ Tops(s.hof, H)'
    BY TopsSteady DEF Hofs
  <1>2. \A i \in 1 .. s.nominee - 1 : s.hof \in Hofs' /\ Beaten(s.ranked[i], s.hof)'
    BY BeatenSteady DEF Hofs
  <1>3. NomineeCount' = NomineeCount
    BY DEF NomineeCount, Size
  <1> QED
    BY <1>1, <1>2, <1>3 DEF TopsSession

\* Judging a nominee.
LEMMA ToppedJudges ==
  ASSUME HashIsNatural, Typed, Filed, TopsSession, Steady, Judges
  PROVE  TopsSession'
  <1>1. PICK s : s = session
    OBVIOUS
  <1>2. PICK score : score = Validation(s.ranked[s.nominee].genome)
    OBVIOUS
  <1>3. PICK t : t = Judged(s, score)
    OBVIOUS
  <1>4. /\ Scored(s) /\ s.nominee \in 1 .. NomineeCount /\ session' = t /\ History' = History
        /\ pc \in Judging /\ Seeded /\ History \in Seq(Rows) /\ s.nominee <= NomineeCount
        /\ NomineeCount \in Nat /\ s.nominee \in Nat
    <2>1. s.nominee \in 1 .. NomineeCount
      BY <1>1 DEF Judges
    <2> QED
      BY <1>1, <1>2, <1>3, <2>1, Sizes, HistoryShape, TypedIsSeeded DEF Judges, Keeps, Judging, Typed
  <1>5. /\ s \in Sessions /\ s.ranked \in Populations(Tested) /\ s.hof \in Hofs \cup {None}
        /\ s.generation \in Nat
    BY <1>4, LineageAssumption DEF Scored, Sessions
  <1>6. \A i \in 1 .. NomineeCount : s.ranked[i] \in Candidates(Tested)
    BY <1>5, Sizes DEF Populations
  <1>7. score \in Nat
    <2>1. s.ranked[s.nominee].genome \in Nat
      BY <1>4, <1>6 DEF Candidates
    <2> QED
      BY <1>2, <1>4, <2>1, ValidationTyped
  <1>8. /\ t.hof \in Hofs /\ t.hof = Better(s.hof, s.ranked[s.nominee], score, s.generation)
        /\ t.nominee = s.nominee + 1 /\ t.ranked = s.ranked
    BY <1>3, <1>4, <1>7, JudgedIsScored
  <1>9. PICK c \in Candidates(Tested) : c = s.ranked[s.nominee]
    BY <1>4, <1>6
  <1>10. /\ Beaten(c, t.hof)
         /\ s.hof # None => \A d \in Candidates(Tested) : Beaten(d, s.hof) => Beaten(d, t.hof)
    BY <1>2, <1>4, <1>5, <1>8, <1>9, BetterBeats
  <1>11. /\ Len(History) > 0 => s.hof \in Hofs /\ Tops(s.hof, History)
         /\ \A i \in 1 .. s.nominee - 1 : s.hof \in Hofs /\ Beaten(s.ranked[i], s.hof)
    BY <1>1, <1>4 DEF TopsSession
  <1>12. Len(History) > 0 => Tops(t.hof, History)
    <2> SUFFICES ASSUME Len(History) > 0, NEW n \in 1 .. Len(History), NEW i \in 1 .. NomineeCount
                 PROVE  Beaten(History[n].candidates[i], t.hof)
      BY DEF Tops
    <2>1. History[n] \in Rows
      BY <1>4
    <2>2. History[n].candidates[i] \in Candidates(Tested)
      BY <2>1, Sizes DEF Rows, Populations
    <2>3. Beaten(History[n].candidates[i], s.hof) /\ s.hof # None
      BY <1>11, Absent DEF Tops
    <2> QED
      BY <1>10, <2>2, <2>3
  <1>13. \A i \in 1 .. t.nominee - 1 : t.hof \in Hofs /\ Beaten(t.ranked[i], t.hof)
    <2> TAKE i \in 1 .. t.nominee - 1
    <2>1. CASE i = s.nominee
      BY <1>8, <1>9, <1>10, <2>1
    <2>2. CASE i # s.nominee
      <3>1. i \in 1 .. s.nominee - 1 /\ i \in 1 .. NomineeCount
        BY <1>4, <1>8, <2>2
      <3>2. Beaten(s.ranked[i], s.hof) /\ s.hof # None
        BY <1>11, <3>1, Absent
      <3> QED
        BY <1>6, <1>8, <1>10, <3>1, <3>2
    <2> QED
      BY <2>1, <2>2
  <1>14. pc' = "commit" => t.nominee = NomineeCount + 1
    <2>1. pc' = "commit" => ~(s.nominee < NomineeCount)
      BY <1>1 DEF Judges, AfterNominee
    <2> QED
      BY <1>4, <1>8, <2>1
  <1>15. Len(History) > 0 => t.hof \in Hofs /\ Tops(t.hof, History)
    BY <1>8, <1>12
  <1> QED
    BY <1>4, <1>13, <1>14, <1>15, ToppedJudging

\* Committing what has been judged.
LEMMA ToppedCommits ==
  ASSUME HashIsNatural, Typed, Filed, TopsSession, Steady, Commits
  PROVE  TopsFile'
  <1>1. PICK s : s = session
    OBVIOUS
  <1>2. PICK H \in Seq(Rows) : H = History
    BY HistoryShape
  <1>3. PICK k : k = Checkpoint(s)
    OBVIOUS
  <1>4. PICK row : row = Record(s)
    OBVIOUS
  <1>5. /\ Ready(s) /\ Seeded /\ checkpoint' = k /\ History' = Append(H, row)
        /\ k.hof = s.hof /\ row \in Rows /\ row.candidates = s.ranked
    BY <1>1, <1>2, <1>3, <1>4, TypedIsSeeded, CheckpointSaves DEF Commits, Typed
  <1>6. /\ Len(H) > 0 => Tops(s.hof, H)
        /\ \A i \in 1 .. s.nominee - 1 : Beaten(s.ranked[i], s.hof)
        /\ s.nominee = NomineeCount + 1
    BY <1>1, <1>2 DEF TopsSession, Commits, Judging
  <1>7. PICK new : new = Append(H, row)
    OBVIOUS
  <1>8. Tops(s.hof, new)
    <2> SUFFICES ASSUME NEW n \in 1 .. Len(new), NEW i \in 1 .. NomineeCount
                 PROVE  Beaten(new[n].candidates[i], s.hof)
      BY DEF Tops
    <2>1. CASE n = Len(H) + 1
      <3>1. new[n].candidates = s.ranked
        BY <1>5, <1>7, <2>1
      <3>2. i \in 1 .. s.nominee - 1
        BY <1>6, Sizes
      <3> QED
        BY <1>6, <3>1, <3>2
    <2>2. CASE n # Len(H) + 1
      <3>1. n \in 1 .. Len(H) /\ new[n] = H[n] /\ Len(H) > 0
        BY <1>5, <1>7, <2>2
      <3> QED
        BY <1>6, <3>1 DEF Tops
    <2> QED
      BY <2>1, <2>2
  <1>9. Tops(s.hof, new)'
    BY <1>8, TopsSteady
  <1> QED
    BY <1>5, <1>7, <1>9 DEF TopsFile

\* Every step keeps the Hall of Fame on top.
LEMMA ToppedKept ==
  ASSUME HashIsNatural, Typed, Filed, Topped, Steps
  PROVE  Topped'
  <1> SUFFICES TopsFile' /\ (pc' \in Starting \cup Judging => TopsSession')
    BY DEF Topped, Starting, Judging
  <1>1. Seeded /\ Steady /\ TopsFile /\ (pc \in Starting \cup Judging => TopsSession)
    BY TypedIsSeeded DEF Typed, Steps, Topped
  <1>2. PICK H \in Seq(Rows) : H = History
    BY HistoryShape
  <1>3. CASE Stays
    <2>1. PICK s : s = session
      OBVIOUS
    <2>2. TopsFile' /\ session' = s /\ History' = H
      BY <1>1, <1>2, <1>3, <2>1, TopsFileKept DEF Stays, Keeps
    <2>3. CASE pc \notin Starting \cup Judging
      <3>1. pc' \notin Starting \cup Judging
        BY <1>3, <2>3 DEF Stays, Starting, Judging, Written
      <3> QED
        BY <2>2, <3>1
    <2>4. CASE pc \in Starting
      <3>1. pc' \in Starting
        BY <1>3, <2>4 DEF Stays, Starting, Written
      <3>2. Len(H) > 0 => s.hof \in Hofs /\ Tops(s.hof, H)
        BY <1>1, <1>2, <2>1, <2>4 DEF TopsSession
      <3>3. TopsSession'
        BY <1>1, <2>2, <3>1, <3>2, ToppedStart
      <3> QED
        BY <2>2, <3>3
    <2>5. CASE pc \in Judging
      <3>1. pc' = "commit" => pc = "commit"
        BY <1>3, <2>5 DEF Stays, Judging, Written, Starting
      <3>2. Len(H) > 0 => s.hof \in Hofs /\ Tops(s.hof, H)
        BY <1>1, <1>2, <2>1, <2>5 DEF TopsSession
      <3>3. /\ \A i \in 1 .. s.nominee - 1 : s.hof \in Hofs /\ Beaten(s.ranked[i], s.hof)
            /\ pc' = "commit" => s.nominee = NomineeCount + 1
        BY <1>1, <2>1, <2>5, <3>1 DEF TopsSession
      <3>4. TopsSession'
        BY <1>1, <2>2, <3>2, <3>3, ToppedJudging
      <3> QED
        BY <2>2, <3>4
    <2> QED
      BY <2>3, <2>4, <2>5
  <1>4. CASE Stops
    <2>1. pc' \notin Starting \cup Judging
      BY <1>4 DEF Stops, Starting, Judging
    <2> QED
      BY <1>1, <1>4, <2>1, TopsFileKept DEF Stops
  <1>5. CASE Begins
    <2>1. PICK s : s = Fresh
      OBVIOUS
    <2>2. TopsFile' /\ session' = s /\ History' = H /\ pc' \in Starting
      BY <1>1, <1>2, <1>5, <2>1, TopsFileKept DEF Begins, Keeps
    <2>3. Len(H) = 0
      <3>1. Len(History) = 0
        BY <1>5, HistoryShape DEF Begins
      <3> QED
        BY <1>2, <3>1
    <2>4. Len(H) > 0 => s.hof \in Hofs /\ Tops(s.hof, H)
      BY <2>3
    <2>5. TopsSession'
      BY <1>1, <2>2, <2>4, ToppedStart
    <2> QED
      BY <2>2, <2>5
  <1>6. ASSUME NEW candidates \in Populations({<<>>} \cup Tested), GoesOn(candidates)
        PROVE  TopsFile' /\ (pc' \in Starting \cup Judging => TopsSession')
    <2>1. PICK k : k = checkpoint
      OBVIOUS
    <2>2. PICK s : s = Following(k, candidates)
      OBVIOUS
    <2>3. /\ TopsFile' /\ session' = s /\ History' = H /\ pc' \in Starting
          /\ Saved(k) /\ k # None /\ k.generation + 1 < Generations
      BY <1>1, <1>2, <1>6, <2>1, <2>2, TopsFileKept DEF GoesOn, Keeps
    <2>4. s.hof = k.hof /\ k.hof \in Hofs
      BY <1>1, <1>6, <2>2, <2>3, FollowingStarts DEF Saved, Checkpoints
    <2>5. Tops(k.hof, H)
      BY <1>1, <1>2, <2>1, <2>3 DEF TopsFile
    <2>6. TopsSession'
      BY <1>1, <2>3, <2>4, <2>5, ToppedStart
    <2> QED
      BY <2>3, <2>6
  <1>7. CASE Scores
    <2>1. PICK s : s = session
      OBVIOUS
    <2>2. PICK t : t = Ranked(s, Evaluated(s))
      OBVIOUS
    <2>3. /\ TopsFile' /\ session' = t /\ History' = H /\ Started(s) /\ pc \in Starting
          /\ pc' # "commit"
      BY <1>1, <1>2, <1>7, <2>1, <2>2, TopsFileKept DEF Scores, Keeps
    <2>4. t.hof = s.hof /\ t.nominee = 1
      BY <1>1, <2>2, <2>3, EvaluatedTyped, RankedIsScored
    <2>5. Len(H) > 0 => t.hof \in Hofs /\ Tops(t.hof, H)
      BY <1>1, <1>2, <2>1, <2>3, <2>4 DEF TopsSession
    <2>6. \A i \in 1 .. t.nominee - 1 : t.hof \in Hofs /\ Beaten(t.ranked[i], t.hof)
      BY <2>4
    <2>7. TopsSession'
      BY <1>1, <2>3, <2>5, <2>6, ToppedJudging
    <2> QED
      BY <2>3, <2>7
  <1>8. CASE Shows
    <2>1. PICK s : s = session
      OBVIOUS
    <2>2. PICK t : t = Considered(s)
      OBVIOUS
    <2>3. /\ TopsFile' /\ session' = t /\ History' = H /\ Scored(s) /\ pc \in Judging
          /\ pc' # "commit" /\ s.considered < Size
      BY <1>1, <1>2, <1>8, <2>1, <2>2, TopsFileKept DEF Shows, Keeps, Judging
    <2>4. t.hof = s.hof /\ t.nominee = s.nominee /\ t.ranked = s.ranked
      BY <1>1, <2>2, <2>3, ConsideredIsScored
    <2>5. Len(H) > 0 => t.hof \in Hofs /\ Tops(t.hof, H)
      BY <1>1, <1>2, <2>1, <2>3, <2>4 DEF TopsSession
    <2>6. \A i \in 1 .. t.nominee - 1 : t.hof \in Hofs /\ Beaten(t.ranked[i], t.hof)
      BY <1>1, <2>1, <2>3, <2>4 DEF TopsSession
    <2>7. TopsSession'
      BY <1>1, <2>3, <2>5, <2>6, ToppedJudging
    <2> QED
      BY <2>3, <2>7
  <1>9. CASE Judges
    <2>1. TopsSession
      BY <1>1, <1>9 DEF Judges, Judging
    <2> QED
      BY <1>1, <1>9, <2>1, TopsFileKept, ToppedJudges DEF Judges
  <1>10. CASE Commits
    <2>1. TopsSession /\ pc' \notin Starting \cup Judging
      BY <1>1, <1>10 DEF Commits, Starting, Judging
    <2> QED
      BY <1>1, <1>10, <2>1, ToppedCommits
  <1>11. GoesOn(checkpoint.population)
           => checkpoint.population \in Populations({<<>>} \cup Tested)
    BY DEF GoesOn, Saved, Checkpoints
  <1>12. GoesOn(checkpoint.record.candidates)
           => checkpoint.record.candidates \in Populations({<<>>} \cup Tested)
    BY LastRecordIds DEF GoesOn
  <1> QED
    BY <1>3, <1>4, <1>5, <1>6, <1>7, <1>8, <1>9, <1>10, <1>11, <1>12 DEF Steps

\* No nominee of a committed generation is better than the Hall of Fame of the
\* checkpoint, wherever processes died and went on.
THEOREM HallOfFameIsBest ==
  ASSUME HashIsNatural
  PROVE  Spec => []HofIsBest
  <1>1. Init => Typed /\ Filed /\ Topped
    <2> SUFFICES ASSUME Init PROVE Typed /\ Filed /\ Topped
      OBVIOUS
    <2>1. Typed
      BY InitTyped
    <2>2. Filed
      BY DEF Init, Filed, Starting, Judging
    <2>3. Topped
      BY DEF Init, Topped, TopsFile, Starting, Judging
    <2> QED
      BY <2>1, <2>2, <2>3
  <1>2. Typed /\ Filed /\ Topped /\ [Next]_vars => (Typed /\ Filed /\ Topped)'
    BY TypedKept, StepsKept, ToppedKept
  <1>3. Typed /\ Filed /\ Topped => HofIsBest
    <2> SUFFICES ASSUME Typed, Filed, Topped, Committed > 0,
                        NEW n \in DOMAIN History, NEW i \in 1 .. NomineeCount
                 PROVE  Beaten(History[n].candidates[i], checkpoint.hof)
      BY DEF HofIsBest, Beaten
    <2>1. History \in Seq(Rows) /\ (Committed = 0 <=> checkpoint = None)
      BY HistoryShape
    <2>2. n \in 1 .. Len(History) /\ checkpoint # None
      BY <2>1
    <2> QED
      BY <2>2 DEF Topped, TopsFile, Tops
  <1> QED
    BY <1>1, <1>2, <1>3, PTL DEF Spec

--------------------------------------------------------------------------------
(* The archive of v36                                                             *)

\* An archive is elite among candidates of some generations: it has the best of each cell
\* and nothing else.
Elite(archive, shown) ==
  /\ \A c \in Candidates(Tested), g \in Nat :
       <<c, g>> \in shown /\ Admitted(c) =>
         archive[Cell(c)] # None /\ ~Stronger(Entry(c, g), archive[Cell(c)])
  /\ \A cell \in Occupied(archive) : \E c \in Candidates(Tested), g \in Nat :
       <<c, g>> \in shown /\ Admitted(c) /\ Cell(c) = cell /\ archive[cell] = Entry(c, g)

\* The candidates of some records and of a session, with their generations.
Recorded(rows) == {<<rows[n].candidates[i], n - 1>> : n \in 1 .. Len(rows), i \in 1 .. Size}
InHand(s, k) == {<<s.population[i], s.generation>> : i \in 1 .. k}

\* Strength is a strict order by quality, then by genome.
LEMMA StrengthOrder ==
  ASSUME NEW d \in Entries, NEW e \in Entries, NEW f \in Entries
  PROVE  /\ ~Stronger(e, e)
         /\ Stronger(e, f) /\ Stronger(d, e) => Stronger(d, f)
         /\ Stronger(e, f) /\ ~Stronger(d, f) => ~Stronger(d, e)
  <1>1. PICK a \in Nat, b \in Nat : a = d.quality /\ b = d.genome
    BY DEF Entries
  <1>2. PICK p \in Nat, q \in Nat : p = e.quality /\ q = e.genome
    BY DEF Entries
  <1>3. PICK x \in Nat, y \in Nat : x = f.quality /\ y = f.genome
    BY DEF Entries
  <1>4. Stronger(e, e) <=> p > p \/ (p = p /\ q > q)
    BY <1>2, AboveTwo DEF Stronger
  <1>5. Stronger(e, f) <=> p > x \/ (p = x /\ q > y)
    BY <1>2, <1>3, AboveTwo DEF Stronger
  <1>6. Stronger(d, e) <=> a > p \/ (a = p /\ b > q)
    BY <1>1, <1>2, AboveTwo DEF Stronger
  <1>7. Stronger(d, f) <=> a > x \/ (a = x /\ b > y)
    BY <1>1, <1>3, AboveTwo DEF Stronger
  <1> QED
    BY <1>4, <1>5, <1>6, <1>7

\* An archive that is shown one candidate more is elite among one more.
LEMMA ConsiderIsElite ==
  ASSUME Seeded, NEW archive \in Maps, NEW shown, Elite(archive, shown),
         NEW c \in Candidates(Tested), NEW g \in Nat
  PROVE  Elite(Consider(archive, c, g), shown \cup {<<c, g>>})
  <1>1. PICK x : x = Cell(c)
    OBVIOUS
  <1>2. PICK e : e = Entry(c, g)
    OBVIOUS
  <1>3. x \in Cells /\ e \in Entries
    BY <1>1, <1>2, CellTyped, ConsiderTyped
  <1>4. /\ \A d \in Candidates(Tested) : Cell(d) \in Cells
        /\ \A d \in Candidates(Tested), h \in Nat : Entry(d, h) \in Entries
    BY CellTyped, ConsiderTyped
  <1>5. \A cell \in Cells : archive[cell] \in Entries \cup {None}
    BY DEF Maps
  <1>6. PICK b : b = Consider(archive, c, g)
    OBVIOUS
  <1>7. /\ \A d \in Candidates(Tested), h \in Nat :
             <<d, h>> \in shown /\ Admitted(d) =>
               archive[Cell(d)] # None /\ ~Stronger(Entry(d, h), archive[Cell(d)])
        /\ \A cell \in Cells : archive[cell] # None =>
             \E d \in Candidates(Tested), h \in Nat :
               <<d, h>> \in shown /\ Admitted(d) /\ Cell(d) = cell /\ archive[cell] = Entry(d, h)
    BY DEF Elite, Occupied
  <1>8. \A d, h : <<d, h>> \in shown \cup {<<c, g>>} <=> <<d, h>> \in shown \/ (d = c /\ h = g)
    OBVIOUS
  <1>9. e \notin {None}
    BY <1>3, Absent
  <1>10. CASE /\ Admitted(c) /\ (archive[x] # None => Stronger(e, archive[x]))
              /\ b = [archive EXCEPT ![x] = e]
    <2>1. \A cell \in Cells : b[cell] = IF cell = x THEN e ELSE archive[cell]
      BY <1>3, <1>10 DEF Maps
    <2>2. ASSUME NEW d \in Candidates(Tested), NEW h \in Nat,
                 <<d, h>> \in shown \cup {<<c, g>>}, Admitted(d)
          PROVE  b[Cell(d)] # None /\ ~Stronger(Entry(d, h), b[Cell(d)])
      <3>1. PICK y \in Cells : y = Cell(d)
        BY <1>4
      <3>2. PICK f \in Entries : f = Entry(d, h)
        BY <1>4
      <3>3. CASE <<d, h>> \in shown
        <4>1. archive[y] # None /\ ~Stronger(f, archive[y]) /\ archive[y] \in Entries
          BY <1>5, <1>7, <2>2, <3>1, <3>2, <3>3
        <4>2. CASE y = x
          <5>1. Stronger(e, archive[y])
            BY <1>10, <4>1, <4>2
          <5>2. ~Stronger(f, e)
            BY <1>3, <4>1, <5>1, StrengthOrder
          <5> QED
            BY <1>9, <2>1, <3>1, <3>2, <4>2, <5>2
        <4>3. CASE y # x
          BY <2>1, <3>1, <3>2, <4>1, <4>3
        <4> QED
          BY <4>2, <4>3
      <3>4. CASE d = c /\ h = g
        <4>1. ~Stronger(e, e) /\ b[x] = e
          BY <1>3, <2>1, StrengthOrder
        <4> QED
          BY <1>1, <1>2, <1>9, <3>4, <4>1
      <3> QED
        BY <1>8, <2>2, <3>3, <3>4
    <2>3. ASSUME NEW cell \in Cells, b[cell] # None
          PROVE  \E d \in Candidates(Tested), h \in Nat :
                   /\ <<d, h>> \in shown \cup {<<c, g>>}
                   /\ Admitted(d) /\ Cell(d) = cell /\ b[cell] = Entry(d, h)
      <3>1. CASE cell = x
        BY <1>1, <1>2, <1>8, <1>10, <2>1, <3>1
      <3>2. CASE cell # x
        <4>1. archive[cell] # None /\ b[cell] = archive[cell]
          BY <2>1, <2>3, <3>2
        <4> QED
          BY <1>7, <1>8, <4>1
      <3> QED
        BY <3>1, <3>2
    <2>4. Elite(b, shown \cup {<<c, g>>})
      BY <2>2, <2>3 DEF Elite, Occupied
    <2> QED
      BY <1>6, <2>4
  <1>11. CASE /\ Admitted(c) => archive[x] # None /\ ~Stronger(e, archive[x])
              /\ b = archive
    <2>1. \A d \in Candidates(Tested), h \in Nat :
            <<d, h>> \in shown \cup {<<c, g>>} /\ Admitted(d) =>
              archive[Cell(d)] # None /\ ~Stronger(Entry(d, h), archive[Cell(d)])
      BY <1>1, <1>2, <1>7, <1>8, <1>11
    <2>2. Elite(archive, shown \cup {<<c, g>>})
      BY <1>7, <1>8, <2>1 DEF Elite, Occupied
    <2> QED
      BY <1>6, <1>11, <2>2
  <1> QED
    BY <1>1, <1>2, <1>6, <1>10, <1>11 DEF Consider

\* Neither the versions nor the seed change who is elite.
LEMMA EliteSteady ==
  ASSUME Steady, NEW archive, NEW shown
  PROVE  Elite(archive, shown)' <=> Elite(archive, shown)
  BY DEF Steady, Elite, Admitted, Cell, Draw, Stronger, Entry, Fitness, ExtinctEarly, Above,
     Occupied, Cells, Candidates, Tested

\* What is shown to the archive of a session, and to the one of the file.
EliteFile == checkpoint # None => Elite(checkpoint.archive, Recorded(History))
EliteSession ==
  /\ Elite(session.archive, Recorded(History) \cup InHand(session, session.considered))
  /\ pc \in {"validate", "validating", "commit"} => session.considered = Size

Elites ==
  version = "v36" => EliteFile /\ (pc \in Starting \cup Judging => EliteSession)

\* Where nothing is committed, the file stays elite.
LEMMA EliteFileKept ==
  ASSUME Steady, Keeps, EliteFile
  PROVE  EliteFile'
  <1>1. PICK k : k = checkpoint
    OBVIOUS
  <1>2. PICK shown : shown = Recorded(History)
    OBVIOUS
  <1>3. checkpoint' = k /\ Recorded(History)' = shown
    BY <1>1, <1>2 DEF Keeps, Recorded, Size
  <1>4. k # None => Elite(k.archive, shown)
    BY <1>1, <1>2 DEF EliteFile
  <1>5. k # None => Elite(k.archive, shown)'
    BY <1>4, EliteSteady
  <1> QED
    BY <1>3, <1>5 DEF EliteFile

\* A session that was shown some of its candidates.
LEMMA EliteAfter ==
  ASSUME Steady, NEW s, session' = s, History' = History,
         Elite(s.archive, Recorded(History) \cup InHand(s, s.considered)),
         pc' \in {"validate", "validating", "commit"} => s.considered = Size
  PROVE  EliteSession'
  <1>1. PICK shown : shown = Recorded(History) \cup InHand(s, s.considered)
    OBVIOUS
  <1>2. (Recorded(History) \cup InHand(session, session.considered))' = shown
    BY <1>1 DEF Recorded, InHand, Size
  <1>3. Elite(s.archive, shown)'
    BY <1>1, EliteSteady
  <1>4. Size' = Size
    BY DEF Size
  <1> QED
    BY <1>2, <1>3, <1>4 DEF EliteSession

\* Before a session shows its candidates, its archive is that of the records.
LEMMA EliteStart ==
  ASSUME Steady, NEW s, session' = s, History' = History, pc' \in Starting \cup {"consider"},
         s.considered = 0, Elite(s.archive, Recorded(History))
  PROVE  EliteSession'
  <1>1. InHand(s, s.considered) = {}
    <2>1. 1 .. 0 = {}
      OBVIOUS
    <2> QED
      BY <2>1 DEF InHand
  <1>2. Recorded(History) \cup InHand(s, s.considered) = Recorded(History)
    BY <1>1
  <1>3. pc' \notin {"validate", "validating", "commit"}
    BY DEF Starting
  <1> QED
    BY <1>2, <1>3, EliteAfter

\* Showing one candidate more.
LEMMA EliteShows ==
  ASSUME HashIsNatural, Typed, Filed, EliteSession, Steady, Shows
  PROVE  EliteSession'
  <1>1. PICK s : s = session
    OBVIOUS
  <1>2. PICK t : t = Considered(s)
    OBVIOUS
  <1>3. PICK c : c = s.population[s.considered + 1]
    OBVIOUS
  <1>4. /\ Seeded /\ Scored(s) /\ s.considered < Size /\ session' = t /\ History' = History
    BY <1>1, <1>2, TypedIsSeeded DEF Shows, Keeps, Typed
  <1>5. /\ c \in Candidates(Tested) /\ s.considered + 1 \in 1 .. Size
        /\ t.archive = Consider(s.archive, c, s.generation)
        /\ t.considered = s.considered + 1
        /\ t.population = s.population /\ t.generation = s.generation
    BY <1>2, <1>3, <1>4, ConsideredIsScored
  <1>6. s.archive \in Maps /\ s.generation \in Nat /\ s.considered \in Nat /\ Size \in Nat
    BY <1>4, Sizes, LineageAssumption DEF Scored, Sessions
  <1>7. Elite(s.archive, Recorded(History) \cup InHand(s, s.considered))
    BY <1>1 DEF EliteSession
  <1>8. PICK shown : shown = Recorded(History) \cup InHand(s, s.considered)
    OBVIOUS
  <1>9. Elite(t.archive, shown \cup {<<c, s.generation>>})
    BY <1>4, <1>5, <1>6, <1>7, <1>8, ConsiderIsElite
  <1>10. InHand(t, t.considered) = InHand(s, s.considered) \cup {<<c, s.generation>>}
    <2>1. PICK k \in Nat : k = s.considered
      BY <1>6
    <2>2. 1 .. k + 1 = (1 .. k) \cup {k + 1}
      OBVIOUS
    <2>3. InHand(t, k + 1) = {<<s.population[i], s.generation>> : i \in 1 .. k + 1}
      BY <1>5 DEF InHand
    <2>4. InHand(s, k) = {<<s.population[i], s.generation>> : i \in 1 .. k}
      BY DEF InHand
    <2>5. c = s.population[k + 1]
      BY <1>3, <2>1
    <2> QED
      BY <1>5, <2>1, <2>2, <2>3, <2>4, <2>5
  <1>11. Elite(t.archive, Recorded(History) \cup InHand(t, t.considered))
    <2>1. Recorded(History) \cup InHand(t, t.considered) = shown \cup {<<c, s.generation>>}
      BY <1>8, <1>10
    <2> QED
      BY <1>9, <2>1
  <1>12. pc' \in {"validate", "validating", "commit"} => t.considered = Size
    <2>1. pc' \in {"validate", "validating", "commit"} => ~(s.considered + 1 < Size)
      BY <1>1 DEF Shows
    <2> QED
      BY <1>4, <1>5, <1>6, <2>1
  <1> QED
    BY <1>4, <1>11, <1>12, EliteAfter

\* Committing a generation whose candidates have all been shown.
LEMMA EliteCommits ==
  ASSUME HashIsNatural, Typed, Filed, EliteSession, Steady, Commits
  PROVE  EliteFile'
  <1>1. PICK s : s = session
    OBVIOUS
  <1>2. PICK H \in Seq(Rows) : H = History
    BY HistoryShape
  <1>3. PICK k : k = Checkpoint(s)
    OBVIOUS
  <1>4. PICK row : row = Record(s)
    OBVIOUS
  <1>5. /\ Ready(s) /\ Seeded /\ checkpoint' = k /\ History' = Append(H, row) /\ Scored(s)
        /\ k.archive = s.archive /\ row \in Rows /\ row.candidates = s.ranked
        /\ s.generation = Len(H)
    BY <1>1, <1>2, <1>3, <1>4, TypedIsSeeded, CheckpointSaves DEF Commits, Typed
  <1>6. Elite(s.archive, Recorded(H) \cup InHand(s, Size))
    BY <1>1, <1>2 DEF EliteSession, Commits
  <1>7. PICK new : new = Append(H, row)
    OBVIOUS
  <1>8. Recorded(new) = Recorded(H) \cup InHand(s, Size)
    <2>1. PICK m \in Nat : m = Len(H)
      BY <1>2
    <2>2. /\ Len(new) = m + 1 /\ new[m + 1] = row /\ \A n \in 1 .. m : new[n] = H[n]
          /\ 1 .. m + 1 = (1 .. m) \cup {m + 1} /\ (m + 1) - 1 = m
      BY <1>5, <1>7, <2>1
    <2>3. Recorded(new) = {<<new[n].candidates[i], n - 1>> : n \in 1 .. m + 1, i \in 1 .. Size}
      BY <2>2 DEF Recorded
    <2>4. Recorded(H) = {<<H[n].candidates[i], n - 1>> : n \in 1 .. m, i \in 1 .. Size}
      BY <2>1 DEF Recorded
    <2>5. Recorded(new) = Recorded(H) \cup {<<s.ranked[i], m>> : i \in 1 .. Size}
      <3>1. ASSUME NEW p \in Recorded(new)
            PROVE  p \in Recorded(H) \cup {<<s.ranked[i], m>> : i \in 1 .. Size}
        <4>1. PICK n \in 1 .. m + 1, i \in 1 .. Size : p = <<new[n].candidates[i], n - 1>>
          BY <2>3, <3>1
        <4>2. CASE n = m + 1
          BY <1>5, <2>2, <4>1, <4>2
        <4>3. CASE n # m + 1
          <5>1. n \in 1 .. m
            BY <2>1, <4>1, <4>3
          <5> QED
            BY <2>2, <2>4, <4>1, <5>1
        <4> QED
          BY <4>2, <4>3
      <3>2. ASSUME NEW p \in Recorded(H) PROVE p \in Recorded(new)
        <4>1. PICK n \in 1 .. m, i \in 1 .. Size : p = <<H[n].candidates[i], n - 1>>
          BY <2>4, <3>2
        <4>2. n \in 1 .. m + 1
          BY <2>1, <4>1
        <4> QED
          BY <2>2, <2>3, <4>1, <4>2
      <3>3. ASSUME NEW i \in 1 .. Size PROVE <<s.ranked[i], m>> \in Recorded(new)
        <4>1. m + 1 \in 1 .. m + 1
          BY <2>1
        <4>2. <<s.ranked[i], m>> = <<new[m + 1].candidates[i], (m + 1) - 1>>
          BY <1>5, <2>2
        <4> QED
          BY <2>3, <4>1, <4>2
      <3> QED
        BY <3>1, <3>2, <3>3
    <2>6. {<<s.ranked[i], m>> : i \in 1 .. Size} = InHand(s, Size)
      <3>1. /\ Range(s.ranked) = {s.ranked[i] : i \in 1 .. Size}
            /\ Range(s.population) = {s.population[i] : i \in 1 .. Size}
        BY <1>5 DEF Scored, Populations, Range
      <3>2. \A i \in 1 .. Size : \E j \in 1 .. Size : s.ranked[i] = s.population[j]
        BY <1>5, <3>1 DEF Scored
      <3>3. \A i \in 1 .. Size : \E j \in 1 .. Size : s.population[i] = s.ranked[j]
        BY <1>5, <3>1 DEF Scored
      <3>4. InHand(s, Size) = {<<s.population[i], m>> : i \in 1 .. Size}
        BY <1>5, <2>1 DEF InHand
      <3> QED
        BY <3>2, <3>3, <3>4
    <2> QED
      BY <2>5, <2>6
  <1>9. PICK shown : shown = Recorded(new)
    OBVIOUS
  <1>10. Elite(s.archive, shown)'
    BY <1>6, <1>8, <1>9, EliteSteady
  <1>11. Recorded(History)' = shown
    BY <1>5, <1>7, <1>9 DEF Recorded, Size
  <1> QED
    BY <1>5, <1>10, <1>11 DEF EliteFile

\* Every step keeps the archive elite.
LEMMA ElitesKept ==
  ASSUME HashIsNatural, Typed, Filed, Elites, Steps
  PROVE  Elites'
  <1> SUFFICES ASSUME version = "v36"
               PROVE  EliteFile' /\ (pc' \in Starting \cup Judging => EliteSession')
    BY DEF Elites, Steps, Steady, Starting, Judging
  <1>1. Seeded /\ Steady /\ EliteFile /\ (pc \in Starting \cup Judging => EliteSession)
    BY TypedIsSeeded DEF Typed, Steps, Elites
  <1>2. CASE Stays
    <2>1. PICK s : s = session
      OBVIOUS
    <2>2. EliteFile' /\ session' = s /\ History' = History
      BY <1>1, <1>2, <2>1, EliteFileKept DEF Stays, Keeps
    <2>3. CASE pc \notin Starting \cup Judging
      <3>1. pc' \notin Starting \cup Judging
        BY <1>2, <2>3 DEF Stays, Starting, Judging, Written
      <3> QED
        BY <2>2, <3>1
    <2>4. CASE pc \in Starting \cup Judging
      <3>1. pc' \in {"validate", "validating", "commit"}
              => pc \in {"validate", "validating", "commit"}
        BY <1>2, <2>4 DEF Stays, Judging, Written, Starting
      <3>2. /\ Elite(s.archive, Recorded(History) \cup InHand(s, s.considered))
            /\ pc' \in {"validate", "validating", "commit"} => s.considered = Size
        BY <1>1, <2>1, <2>4, <3>1 DEF EliteSession
      <3>3. EliteSession'
        BY <1>1, <2>2, <3>2, EliteAfter
      <3> QED
        BY <2>2, <3>3
    <2> QED
      BY <2>3, <2>4
  <1>3. CASE Stops
    <2>1. pc' \notin Starting \cup Judging
      BY <1>3 DEF Stops, Starting, Judging
    <2> QED
      BY <1>1, <1>3, <2>1, EliteFileKept DEF Stops
  <1>4. CASE Begins
    <2>1. PICK s : s = Fresh
      OBVIOUS
    <2>2. /\ EliteFile' /\ session' = s /\ History' = History
          /\ pc' \in Starting \cup {"consider"}
      BY <1>1, <1>4, <2>1, EliteFileKept DEF Begins, Keeps
    <2>3. s.archive = Empty /\ s.considered = 0
      BY <1>1, <2>1, FreshStarts DEF Started, Session
    <2>4. Recorded(History) = {}
      <3>1. Len(History) = 0
        BY <1>4, HistoryShape DEF Begins
      <3>2. 1 .. 0 = {}
        OBVIOUS
      <3> QED
        BY <3>1, <3>2 DEF Recorded
    <2>5. Elite(Empty, {})
      BY DEF Elite, Occupied, Empty
    <2>6. EliteSession'
      BY <1>1, <2>2, <2>3, <2>4, <2>5, EliteStart
    <2> QED
      BY <2>2, <2>6
  <1>5. ASSUME NEW candidates \in Populations({<<>>} \cup Tested), GoesOn(candidates)
        PROVE  EliteFile' /\ (pc' \in Starting \cup Judging => EliteSession')
    <2>1. PICK k : k = checkpoint
      OBVIOUS
    <2>2. PICK s : s = Following(k, candidates)
      OBVIOUS
    <2>3. /\ EliteFile' /\ session' = s /\ History' = History
          /\ pc' \in Starting \cup {"consider"}
          /\ Saved(k) /\ k # None /\ k.generation + 1 < Generations
      BY <1>1, <1>5, <2>1, <2>2, EliteFileKept DEF GoesOn, Keeps
    <2>4. Started(s) /\ s.archive = k.archive
      BY <1>1, <1>5, <2>2, <2>3, FollowingStarts
    <2>5. s.considered = 0
      BY <2>4 DEF Started, Session
    <2>6. Elite(k.archive, Recorded(History))
      BY <1>1, <2>1, <2>3 DEF EliteFile
    <2>7. EliteSession'
      BY <1>1, <2>3, <2>4, <2>5, <2>6, EliteStart
    <2> QED
      BY <2>3, <2>7
  <1>6. CASE Scores
    <2>1. PICK s : s = session
      OBVIOUS
    <2>2. PICK t : t = Ranked(s, Evaluated(s))
      OBVIOUS
    <2>3. /\ EliteFile' /\ session' = t /\ History' = History /\ Started(s)
          /\ pc \in Starting \cup Judging /\ pc' \in Starting \cup {"consider"}
      BY <1>1, <1>6, <2>1, <2>2, EliteFileKept DEF Scores, Keeps
    <2>4. t.archive = s.archive /\ t.considered = 0
      BY <1>1, <2>2, <2>3, EvaluatedTyped, RankedIsScored
    <2>5. s.considered = 0
      BY <2>3 DEF Started, Session
    <2>6. InHand(s, 0) = {}
      <3>1. 1 .. 0 = {}
        OBVIOUS
      <3> QED
        BY <3>1 DEF InHand
    <2>7. Elite(s.archive, Recorded(History) \cup InHand(s, 0))
      BY <1>1, <2>1, <2>3, <2>5 DEF EliteSession
    <2>8. Recorded(History) \cup InHand(s, 0) = Recorded(History)
      BY <2>6
    <2>9. Elite(t.archive, Recorded(History))
      BY <2>4, <2>7, <2>8
    <2>10. EliteSession'
      BY <1>1, <2>3, <2>4, <2>9, EliteStart
    <2> QED
      BY <2>3, <2>10
  <1>7. CASE Shows
    <2>1. EliteSession
      BY <1>1, <1>7 DEF Shows, Judging
    <2> QED
      BY <1>1, <1>7, <2>1, EliteFileKept, EliteShows DEF Shows
  <1>8. CASE Judges
    <2>1. PICK s : s = session
      OBVIOUS
    <2>2. PICK t : t = session'
      OBVIOUS
    <2>3. /\ EliteFile' /\ History' = History /\ Scored(s) /\ EliteSession
          /\ pc \in {"validate", "validating"}
      BY <1>1, <1>8, <2>1, EliteFileKept DEF Judges, Keeps, Judging
    <2>4. /\ t.archive = s.archive /\ t.considered = s.considered
          /\ t.population = s.population /\ t.generation = s.generation
      BY <1>8, <2>1, <2>2 DEF Judges, Judged, Scored, Sessions
    <2>5. InHand(t, t.considered) = InHand(s, s.considered)
      BY <2>4 DEF InHand
    <2>6. Elite(t.archive, Recorded(History) \cup InHand(t, t.considered))
      BY <2>1, <2>3, <2>4, <2>5 DEF EliteSession
    <2>7. t.considered = Size
      BY <2>1, <2>3, <2>4 DEF EliteSession
    <2>8. EliteSession'
      BY <1>1, <2>2, <2>3, <2>6, <2>7, EliteAfter
    <2> QED
      BY <2>3, <2>8
  <1>9. CASE Commits
    <2>1. EliteSession /\ pc' \notin Starting \cup Judging
      BY <1>1, <1>9 DEF Commits, Starting, Judging
    <2> QED
      BY <1>1, <1>9, <2>1, EliteCommits
  <1>10. GoesOn(checkpoint.population)
           => checkpoint.population \in Populations({<<>>} \cup Tested)
    BY DEF GoesOn, Saved, Checkpoints
  <1>11. GoesOn(checkpoint.record.candidates)
           => checkpoint.record.candidates \in Populations({<<>>} \cup Tested)
    BY LastRecordIds DEF GoesOn
  <1> QED
    BY <1>2, <1>3, <1>4, <1>5, <1>6, <1>7, <1>8, <1>9, <1>10, <1>11 DEF Steps

\* The property, from the elite archive of the file.
LEMMA ElitesAreElite ==
  ASSUME HashIsNatural, Typed, Filed, Elites
  PROVE  ArchiveIsElite
  <1> SUFFICES ASSUME version = "v36", Committed > 0
               PROVE  /\ Occupied(checkpoint.archive)
                           = UNION {{Cell(c) : c \in Shown(n)} : n \in DOMAIN History}
                      /\ \A cell \in Occupied(checkpoint.archive) :
                           \E n \in DOMAIN History : \E c \in Shown(n) :
                             Cell(c) = cell /\ checkpoint.archive[cell] = Entry(c, n - 1)
                      /\ \A n \in DOMAIN History : \A c \in Shown(n) :
                           ~Stronger(Entry(c, n - 1), checkpoint.archive[Cell(c)])
    BY DEF ArchiveIsElite
  <1>1. PICK a : a = checkpoint.archive
    OBVIOUS
  <1>2. History \in Seq(Rows) /\ checkpoint # None /\ Seeded
    BY HistoryShape, TypedIsSeeded DEF Typed
  <1>3. Elite(a, Recorded(History))
    BY <1>1, <1>2 DEF Elites, EliteFile
  <1>4. DOMAIN History = 1 .. Len(History)
    BY <1>2
  <1>5. ASSUME NEW n \in DOMAIN History
        PROVE  /\ Range(History[n].candidates) = {History[n].candidates[i] : i \in 1 .. Size}
               /\ \A i \in 1 .. Size : History[n].candidates[i] \in Candidates(Tested)
               /\ n - 1 \in Nat
    <2>1. History[n] \in Rows /\ n - 1 \in Nat
      BY <1>2, <1>4, <1>5
    <2>2. History[n].candidates \in [1 .. Size -> Candidates(Tested)]
      BY <2>1 DEF Rows, Populations
    <2> QED
      BY <2>1, <2>2 DEF Range
  <1>6. ASSUME NEW n \in DOMAIN History, NEW c \in Shown(n)
        PROVE  /\ c \in Candidates(Tested) /\ n - 1 \in Nat /\ Admitted(c)
               /\ <<c, n - 1>> \in Recorded(History)
    <2>1. PICK i \in 1 .. Size : c = History[n].candidates[i]
      BY <1>5, <1>6 DEF Shown
    <2>2. <<c, n - 1>> \in Recorded(History)
      BY <1>4, <1>6, <2>1 DEF Recorded
    <2> QED
      BY <1>5, <1>6, <2>1, <2>2 DEF Shown
  <1>7. ASSUME NEW n \in DOMAIN History, NEW c \in Shown(n)
        PROVE  /\ Cell(c) \in Occupied(a)
               /\ ~Stronger(Entry(c, n - 1), a[Cell(c)])
    <2>1. Cell(c) \in Cells
      BY <1>2, <1>6, <1>7, CellTyped
    <2> QED
      BY <1>3, <1>6, <1>7, <2>1 DEF Elite, Occupied
  <1>8. ASSUME NEW cell \in Occupied(a)
        PROVE  \E n \in DOMAIN History : \E c \in Shown(n) :
                 Cell(c) = cell /\ a[cell] = Entry(c, n - 1)
    <2>1. PICK c \in Candidates(Tested), g \in Nat :
            /\ <<c, g>> \in Recorded(History) /\ Admitted(c)
            /\ Cell(c) = cell /\ a[cell] = Entry(c, g)
      BY <1>3, <1>8 DEF Elite
    <2>2. PICK n \in 1 .. Len(History), i \in 1 .. Size :
            <<c, g>> = <<History[n].candidates[i], n - 1>>
      BY <2>1 DEF Recorded
    <2>3. n \in DOMAIN History /\ c = History[n].candidates[i] /\ g = n - 1
      BY <1>4, <2>2
    <2>4. c \in Shown(n)
      BY <1>5, <2>1, <2>3 DEF Shown
    <2> QED
      BY <2>1, <2>3, <2>4
  <1>9. Occupied(a) = UNION {{Cell(c) : c \in Shown(n)} : n \in DOMAIN History}
    BY <1>7, <1>8
  <1> QED
    BY <1>1, <1>7, <1>8, <1>9

\* v36: the archive of the checkpoint holds the best candidate that any committed
\* generation had for a cell, and no cell is occupied by anything else.
THEOREM ArchivesAreElite ==
  ASSUME HashIsNatural
  PROVE  Spec => []ArchiveIsElite
  <1>1. Init => Typed /\ Filed /\ Elites
    <2> SUFFICES ASSUME Init PROVE Typed /\ Filed /\ Elites
      OBVIOUS
    <2>1. Typed
      BY InitTyped
    <2>2. Filed
      BY DEF Init, Filed, Starting, Judging
    <2>3. Elites
      BY DEF Init, Elites, EliteFile, Starting, Judging
    <2> QED
      BY <2>1, <2>2, <2>3
  <1>2. Typed /\ Filed /\ Elites /\ [Next]_vars => (Typed /\ Filed /\ Elites)'
    BY TypedKept, StepsKept, ElitesKept
  <1>3. Typed /\ Filed /\ Elites => ArchiveIsElite
    BY ElitesAreElite
  <1> QED
    BY <1>1, <1>2, <1>3, PTL DEF Spec

--------------------------------------------------------------------------------
(* The experiment that is never interrupted                                       *)

\* One step of a recursive function: the runs of generations, the archives and the Halls of
\* Fame of a generation; and the functions that take these steps.
Turn(kind, s, list, i, before) ==
  IF kind = "generation" THEN Generation(IF i = 1 THEN Fresh ELSE Continued(before))
  ELSE IF kind = "archive"
    THEN IF i = 0 THEN s.archive ELSE Consider(before, list[i], s.generation)
  ELSE IF i = 0 THEN s.hof ELSE Better(before, list[i], Validation(list[i].genome), s.generation)
Turns(kind, s, list, first, last, f) ==
  f = [i \in first .. last |-> Turn(kind, s, list, i, f[i - 1])]

\* The lowest of some numbers.
LEMMA Lowest ==
  ASSUME NEW T \in SUBSET Nat, T # {}
  PROVE  \E n \in T : \A m \in T : n <= m
  <1>1. PICK n \in T : \A m \in T : ~ (<<m, n>> \in OpToRel(<, Nat))
    BY NatLessThanWellFounded, WFMin
  <1>2. ASSUME NEW m \in T
        PROVE  n <= m
    <2>1. <<m, n>> \notin OpToRel(<, Nat)
      BY <1>1
    <2>2. m \in Nat /\ n \in Nat
      OBVIOUS
    <2>3. <<m, n>> \in Nat \X Nat /\ <<m, n>>[1] = m /\ <<m, n>>[2] = n
      BY <2>2
    <2>4. ~(m < n)
      BY <2>1, <2>3 DEF OpToRel
    <2> QED
      BY <2>2, <2>4
  <1> QED
    BY <1>2

\* There is such a function for every number of steps.
LEMMA TurnsGoOn ==
  ASSUME NEW kind \in {"generation", "archive", "fame"}, NEW s, NEW list, NEW last \in Nat
  PROVE  \E f : Turns(kind, s, list, IF kind = "generation" THEN 1 ELSE 0, last, f)
  <1> DEFINE first == IF kind = "generation" THEN 1 ELSE 0
             T == {n \in Nat : ~\E f : Turns(kind, s, list, first, n, f)}
  <1>1. first \in {0, 1} /\ (kind = "generation" => first = 1) /\ (kind # "generation" => first = 0)
    OBVIOUS
  <1> HIDE DEF first
  <1>2. SUFFICES ASSUME T # {} PROVE FALSE
    BY DEF first
  <1>3. PICK n \in T : \A m \in T : n <= m
    BY <1>2, Lowest
  <1>4. CASE n < first
    <2>1. first .. n = {}
      BY <1>1, <1>3, <1>4
    <2>2. PICK f : f = [i \in {} |-> 0]
      OBVIOUS
    <2>3. Turns(kind, s, list, first, n, f)
      BY <2>1, <2>2 DEF Turns
    <2> QED
      BY <1>3, <2>3
  <1>5. CASE n = first
    <2>1. first .. n = {first}
      BY <1>1, <1>3, <1>5
    <2>2. PICK f : f = [i \in {first} |-> Turn(kind, s, list, i, 0)]
      OBVIOUS
    <2>3. Turn(kind, s, list, first, 0) = Turn(kind, s, list, first, f[first - 1])
      BY <1>1 DEF Turn
    <2>4. Turns(kind, s, list, first, n, f)
      BY <2>1, <2>2, <2>3 DEF Turns
    <2> QED
      BY <1>3, <2>4
  <1>6. CASE n > first
    <2>1. PICK m \in Nat : n = m + 1 /\ m >= first
      <3>1. n - 1 \in Nat /\ n = (n - 1) + 1 /\ n - 1 >= first
        BY <1>1, <1>3, <1>6
      <3> QED
        BY <3>1
    <2>2. m \notin T
      BY <1>3, <2>1
    <2>3. PICK f : Turns(kind, s, list, first, m, f)
      BY <2>2
    <2>4. f = [i \in first .. m |-> Turn(kind, s, list, i, f[i - 1])]
      BY <2>3 DEF Turns
    <2>5. PICK g : g = [i \in first .. n |-> IF i = n THEN Turn(kind, s, list, n, f[m]) ELSE f[i]]
      OBVIOUS
    <2>6. \A i \in first .. n : g[i] = Turn(kind, s, list, i, g[i - 1])
      <3> TAKE i \in first .. n
      <3>1. CASE i = n
        <4>1. g[n - 1] = f[m]
          BY <1>1, <2>1, <2>5
        <4> QED
          BY <1>1, <2>1, <2>5, <3>1, <4>1
      <3>2. CASE i # n /\ i # first
        <4>1. i \in first .. m /\ i - 1 \in first .. n /\ i - 1 # n
          BY <1>1, <2>1, <3>2
        <4> QED
          BY <2>4, <2>5, <3>2, <4>1
      <3>3. CASE i # n /\ i = first
        <4>1. i \in first .. m
          BY <1>1, <2>1, <3>3
        <4>2. g[i] = Turn(kind, s, list, i, f[i - 1])
          BY <2>4, <2>5, <3>3, <4>1
        <4>3. Turn(kind, s, list, i, f[i - 1]) = Turn(kind, s, list, i, g[i - 1])
          BY <1>1, <3>3 DEF Turn
        <4> QED
          BY <4>2, <4>3
      <3> QED
        BY <3>1, <3>2, <3>3
    <2>7. g = [i \in first .. n |-> Turn(kind, s, list, i, g[i - 1])]
      BY <2>5, <2>6
    <2>8. Turns(kind, s, list, first, n, g)
      BY <2>7 DEF Turns
    <2> QED
      BY <1>3, <2>8
  <1> QED
    BY <1>1, <1>3, <1>4, <1>5, <1>6

\* The uninterrupted run goes from each generation to the next.
LEMMA UninterruptedUnrolls ==
  \A n \in 1 .. Generations :
    Uninterrupted[n] = Generation(IF n = 1 THEN Fresh ELSE Continued(Uninterrupted[n - 1]))
  <1>1. Generations \in Nat
    BY LineageAssumption
  <1>2. PICK f : Turns("generation", 0, 0, 1, Generations, f)
    BY <1>1, TurnsGoOn
  <1>3. f = [n \in 1 .. Generations |-> Generation(IF n = 1 THEN Fresh ELSE Continued(f[n - 1]))]
    BY <1>2 DEF Turns, Turn
  <1>4. Uninterrupted = [n \in 1 .. Generations |->
                          Generation(IF n = 1 THEN Fresh ELSE Continued(Uninterrupted[n - 1]))]
    BY <1>3 DEF Uninterrupted
  <1> QED
    BY <1>4

\* The archive is shown one candidate after the other.
LEMMA ArchivesUnroll ==
  ASSUME NEW s, NEW list
  PROVE  /\ Archives(s, list)[0] = s.archive
         /\ \A i \in 1 .. Size :
              Archives(s, list)[i] = Consider(Archives(s, list)[i - 1], list[i], s.generation)
  <1>1. PICK f : Turns("archive", s, list, 0, Size, f)
    BY Sizes, TurnsGoOn
  <1>2. f = [i \in 0 .. Size |->
              IF i = 0 THEN s.archive ELSE Consider(f[i - 1], list[i], s.generation)]
    BY <1>1 DEF Turns, Turn
  <1>3. Archives(s, list) = [i \in 0 .. Size |->
          IF i = 0 THEN s.archive
          ELSE Consider(Archives(s, list)[i - 1], list[i], s.generation)]
    BY <1>2 DEF Archives
  <1>4. PICK a : a = Archives(s, list)
    OBVIOUS
  <1>5. a = [i \in 0 .. Size |->
          IF i = 0 THEN s.archive ELSE Consider(a[i - 1], list[i], s.generation)]
    BY <1>3, <1>4
  <1>6. 0 \in 0 .. Size /\ \A i \in 1 .. Size : i \in 0 .. Size /\ i # 0
    BY Sizes
  <1>7. a[0] = s.archive /\ \A i \in 1 .. Size : a[i] = Consider(a[i - 1], list[i], s.generation)
    BY <1>5, <1>6
  <1> QED
    BY <1>4, <1>7

\* The Hall of Fame is offered one nominee after the other.
LEMMA FamesUnroll ==
  ASSUME NEW s, NEW list
  PROVE  /\ Fames(s, list)[0] = s.hof
         /\ \A i \in 1 .. NomineeCount :
              Fames(s, list)[i]
                = Better(Fames(s, list)[i - 1], list[i], Validation(list[i].genome), s.generation)
  <1>1. PICK f : Turns("fame", s, list, 0, NomineeCount, f)
    BY Sizes, TurnsGoOn
  <1>2. f = [i \in 0 .. NomineeCount |->
              IF i = 0 THEN s.hof
              ELSE Better(f[i - 1], list[i], Validation(list[i].genome), s.generation)]
    BY <1>1 DEF Turns, Turn
  <1>3. Fames(s, list) = [i \in 0 .. NomineeCount |->
          IF i = 0 THEN s.hof
          ELSE Better(Fames(s, list)[i - 1], list[i], Validation(list[i].genome), s.generation)]
    BY <1>2 DEF Fames
  <1>4. PICK a : a = Fames(s, list)
    OBVIOUS
  <1>5. a = [i \in 0 .. NomineeCount |->
          IF i = 0 THEN s.hof
          ELSE Better(a[i - 1], list[i], Validation(list[i].genome), s.generation)]
    BY <1>3, <1>4
  <1>6. 0 \in 0 .. NomineeCount /\ \A i \in 1 .. NomineeCount : i \in 0 .. NomineeCount /\ i # 0
    BY Sizes
  <1>7. /\ a[0] = s.hof
        /\ \A i \in 1 .. NomineeCount :
             a[i] = Better(a[i - 1], list[i], Validation(list[i].genome), s.generation)
    BY <1>5, <1>6
  <1> QED
    BY <1>4, <1>7

\* Neither the versions nor the seed change what a generation is made of: its scores,
LEMMA EvaluatedSteady ==
  ASSUME Steady, NEW s
  PROVE  Evaluated(s)' = Evaluated(s)
  BY DEF Steady, Evaluated, Tried, Trained, Drawn, Draw, Size, Score, Suite

\* its ranks,
LEMMA RankSteady ==
  ASSUME Steady, NEW candidates
  PROVE  Rank(candidates)' = Rank(candidates)
  BY DEF Steady, Rank, Sorted, Outranks, RankKey, Fitness, Above

\* its archives,
LEMMA ArchivesSteady ==
  ASSUME Steady, NEW s, NEW candidates
  PROVE  Archives(s, candidates)' = Archives(s, candidates)
  BY DEF Steady, Archives, Consider, Admitted, ExtinctEarly, Stronger, Entry, Above, Fitness,
     Cell, Drawn, Draw, Size

\* its Halls of Fame,
LEMMA FamesSteady ==
  ASSUME Steady, NEW s, NEW candidates
  PROVE  Fames(s, candidates)' = Fames(s, candidates)
  BY DEF Steady, Fames, Better, HofKey, Validation, Score, Suite, Draw, Size, NomineeCount, Above

\* what it starts from,
LEMMA StartSteady ==
  ASSUME Steady, NEW k
  PROVE  Fresh' = Fresh /\ Continued(k)' = Continued(k)
  BY DEF Steady, Drawn, Draw, Size, Fresh, Founders,
     Specialists, Candidate, Session, Continued, Following, Emitted, Parents, Sorted, Occupied, Cells, Empty

\* and its checkpoint.
LEMMA CheckpointSteady ==
  ASSUME Steady, NEW s
  PROVE  Checkpoint(s)' = Checkpoint(s)
  BY DEF Steady, Checkpoint, Record, Bred, Candidate, Drawn, Draw, Size

\* What a generation is made of, and the uninterrupted run of generations.
Builds(s, e, r, a, h, t) ==
  /\ e = Evaluated(s) /\ r = Rank(e)
  /\ a = (IF version = "v36" THEN Archives(s, e)[Size] ELSE s.archive)
  /\ h = Fames(s, r)[NomineeCount]
  /\ t = [s EXCEPT !.population = e, !.ranked = r, !.archive = a, !.hof = h]
Made ==
  /\ \A s, e, r, a, h, t : Builds(s, e, r, a, h, t) => Generation(s) = Checkpoint(t)
  /\ \A n \in 1 .. Generations : \A k, s :
       k = Uninterrupted[n - 1] /\ s = (IF n = 1 THEN Fresh ELSE Continued(k)) =>
         Uninterrupted[n] = Generation(s)

\* It is made so,
LEMMA MadeNow == Made
  <1>1. ASSUME NEW s, NEW e, NEW r, NEW a, NEW h, NEW t, Builds(s, e, r, a, h, t)
        PROVE  Generation(s) = Checkpoint(t)
    <2>1. t = [s EXCEPT !.population = e, !.ranked = r,
                 !.archive = IF version = "v36" THEN Archives(s, e)[Size] ELSE @, !.hof = h]
      BY <1>1 DEF Builds
    <2> QED
      BY <1>1, <2>1 DEF Builds, Generation
  <1>2. \A n \in 1 .. Generations : \A k, s :
          k = Uninterrupted[n - 1] /\ s = (IF n = 1 THEN Fresh ELSE Continued(k)) =>
            Uninterrupted[n] = Generation(s)
    BY UninterruptedUnrolls
  <1> QED
    BY <1>1, <1>2 DEF Made

\* and in the next state it still is.
LEMMA MadeNext == Made'
  BY MadeNow, PTL

\* Neither the versions nor the seed change what a generation is made of.
LEMMA BuildsSteady ==
  ASSUME Steady, NEW s, NEW e, NEW r, NEW a, NEW h, NEW t, Builds(s, e, r, a, h, t)
  PROVE  Builds(s, e, r, a, h, t)'
  <1>1. e = Evaluated(s)' /\ r = Rank(e)'
    BY EvaluatedSteady, RankSteady DEF Builds
  <1>2. (Archives(s, e)[Size])' = Archives(s, e)[Size]
    BY ArchivesSteady DEF Size
  <1>3. (Fames(s, r)[NomineeCount])' = Fames(s, r)[NomineeCount]
    BY FamesSteady DEF NomineeCount, Size
  <1>4. a = (IF version' = "v36" THEN (Archives(s, e)[Size])' ELSE s.archive)
    BY <1>2 DEF Builds, Steady
  <1>5. h = (Fames(s, r)[NomineeCount])'
    BY <1>3 DEF Builds
  <1> QED
    BY <1>1, <1>4, <1>5 DEF Builds

\* A generation from the same start is the same one.
LEMMA GenerationSteady ==
  ASSUME Steady, NEW s
  PROVE  Generation(s)' = Generation(s)
  <1>1. \E e, r, a, h, t : Builds(s, e, r, a, h, t)
    BY DEF Builds
  <1>2. PICK e, r, a, h, t : Builds(s, e, r, a, h, t)
    BY <1>1
  <1>3. Builds(s, e, r, a, h, t)'
    BY <1>2, BuildsSteady
  <1>4. Generation(s) = Checkpoint(t)
    BY <1>2, MadeNow DEF Made
  <1>5. Generation(s)' = Checkpoint(t)'
    BY <1>3, MadeNext DEF Made
  <1> QED
    BY <1>4, <1>5, CheckpointSteady

\* The uninterrupted run is the same in every state.
LEMMA UninterruptedSteady ==
  ASSUME Steady, NEW n \in 1 .. Generations
  PROVE  Uninterrupted[n]' = Uninterrupted[n]
  <1> DEFINE T == {m \in 1 .. Generations : Uninterrupted'[m] # Uninterrupted[m]}
  <1>1. SUFFICES ASSUME T # {} PROVE FALSE
    OBVIOUS
  <1>2. Generations \in Nat /\ T \in SUBSET Nat
    BY LineageAssumption
  <1>3. PICK m \in T : \A i \in T : m <= i
    BY <1>1, <1>2, Lowest
  <1>4. m \in 1 .. Generations /\ Uninterrupted'[m] # Uninterrupted[m]
    BY <1>3
  <1>5. PICK k : k = Uninterrupted[m - 1]
    OBVIOUS
  <1>6. PICK j : j = Uninterrupted'[m - 1]
    OBVIOUS
  <1>7. PICK s : s = IF m = 1 THEN Fresh ELSE Continued(k)
    OBVIOUS
  <1>8. m # 1 => j = k
    <2> HAVE m # 1
    <2>1. m - 1 \in 1 .. Generations /\ ~(m <= m - 1)
      BY <1>2, <1>4
    <2>2. m - 1 \notin T
      BY <1>3, <2>1
    <2> QED
      BY <1>5, <1>6, <2>1, <2>2
  <1>9. s = IF m = 1 THEN Fresh' ELSE Continued(j)'
    BY <1>7, <1>8, StartSteady
  <1>10. Uninterrupted[m] = Generation(s)
    BY <1>4, <1>5, <1>7, MadeNow DEF Made
  <1>11. Uninterrupted'[m] = Generation(s)'
    BY <1>4, <1>6, <1>9, MadeNext DEF Made
  <1> QED
    BY <1>4, <1>10, <1>11, GenerationSteady

--------------------------------------------------------------------------------
(* Interrupted runs are the same                                                  *)

\* v36 has had a policy in its archive at every commit; v35 and v37 do not need one.
Settled ==
  version = "v36" => \A n \in 1 .. Committed : Occupied(Uninterrupted[n].archive) # {}

\* What a session comes from; and a session that has come, from there, as far as it says.
Based(k, base) == base = IF k = None THEN Fresh ELSE Continued(k)
Follows(s, base) ==
  /\ s.population = Evaluated(base) /\ s.ranked = Rank(s.population)
  /\ s.generation = base.generation /\ s.nextId = base.nextId
  /\ s.archive = IF version = "v36" THEN Archives(base, s.population)[s.considered]
                 ELSE base.archive
  /\ s.hof = Fames(base, s.ranked)[s.nominee - 1]

SameFile ==
  /\ checkpoint # None => checkpoint = Uninterrupted[Committed]
  /\ \A n \in 1 .. Len(History) : History[n] = Uninterrupted[n].record
SameSession ==
  \E k, base :
    /\ k = checkpoint /\ Based(k, base) /\ base \in Sessions
    /\ pc \in Starting => session = base
    /\ pc \in Judging => Follows(session, base)
    /\ version = "v36" /\ pc \in {"validate", "validating", "commit"} => session.considered = Size
    /\ pc = "commit" => session.nominee = NomineeCount + 1

Same == Settled => SameFile /\ (pc \in Starting \cup Judging => SameSession)

\* Neither the versions nor the seed change where a session comes from and how far it is.
LEMMA FollowsSteady ==
  ASSUME Steady, NEW s, NEW base
  PROVE  Follows(s, base)' <=> Follows(s, base)
  <1>1. Evaluated(base)' = Evaluated(base)
    BY EvaluatedSteady
  <1>2. PICK p, r, c, i : p = s.population /\ r = s.ranked /\ c = s.considered /\ i = s.nominee - 1
    OBVIOUS
  <1>3. Rank(p)' = Rank(p) /\ Archives(base, p)' = Archives(base, p) /\ Fames(base, r)' = Fames(base, r)
    BY RankSteady, ArchivesSteady, FamesSteady
  <1>4. Follows(s, base)
          <=> /\ p = Evaluated(base) /\ r = Rank(p)
              /\ s.generation = base.generation /\ s.nextId = base.nextId
              /\ s.archive = IF version = "v36" THEN Archives(base, p)[c] ELSE base.archive
              /\ s.hof = Fames(base, r)[i]
    BY <1>2 DEF Follows
  <1>5. Rank(s.population)' = Rank(p)' /\ Archives(base, s.population)' = Archives(base, p)'
        /\ Fames(base, s.ranked)' = Fames(base, r)'
    BY <1>2
  <1>6. Follows(s, base)'
          <=> /\ p = Evaluated(base)' /\ r = Rank(p)'
              /\ s.generation = base.generation /\ s.nextId = base.nextId
              /\ s.archive = IF version' = "v36" THEN Archives(base, p)'[c] ELSE base.archive
              /\ s.hof = Fames(base, r)'[i]
    BY <1>2, <1>5 DEF Follows
  <1> QED
    BY <1>1, <1>3, <1>4, <1>6 DEF Steady

LEMMA BasedSteady ==
  ASSUME Steady, NEW k, NEW base
  PROVE  Based(k, base)' <=> Based(k, base)
  BY StartSteady DEF Based

\* A session of which all this is known.
LEMMA SameAfter ==
  ASSUME Steady, NEW k, NEW base \in Sessions, NEW s, checkpoint' = k, session' = s, Based(k, base),
         pc' \in Starting => s = base,
         pc' \in Judging => Follows(s, base),
         version = "v36" /\ pc' \in {"validate", "validating", "commit"} => s.considered = Size,
         pc' = "commit" => s.nominee = NomineeCount + 1
  PROVE  SameSession'
  <1>1. Based(k, base)' /\ (pc' \in Judging => Follows(s, base)')
    BY BasedSteady, FollowsSteady
  <1>2. Size' = Size /\ NomineeCount' = NomineeCount /\ base \in Sessions'
    BY DEF Size, NomineeCount, Sessions
  <1>3. /\ version' = "v36" /\ pc' \in {"validate", "validating", "commit"} => s.considered = Size'
        /\ pc' = "commit" => s.nominee = NomineeCount' + 1
    BY <1>2 DEF Steady
  <1>4. /\ k = checkpoint' /\ Based(k, base)' /\ base \in Sessions'
        /\ pc' \in Starting' => session' = base
        /\ pc' \in Judging' => Follows(session, base)'
    <2>1. Follows(session, base)' <=> Follows(s, base)'
      BY DEF Follows
    <2> QED
      BY <1>1, <1>2, <2>1 DEF Starting, Judging
  <1> QED
    BY <1>3, <1>4 DEF SameSession

\* Where nothing is committed, the files stay the same as the uninterrupted run's.
LEMMA SameFileKept ==
  ASSUME Typed, Filed, Steady, Keeps
  PROVE  /\ Settled' <=> Settled
         /\ SameFile' <=> SameFile
  <1>1. \A n \in 1 .. Generations : Uninterrupted'[n] = Uninterrupted[n]
    BY UninterruptedSteady
  <1>2. PICK m : m = Committed
    OBVIOUS
  <1>3. Committed' = m
    BY <1>2 DEF Keeps, Committed
  <1>4. m \in 0 .. Generations /\ Len(History) = m /\ (checkpoint # None => m \in 1 .. Generations)
    <2>1. checkpoint # None => checkpoint.generation \in 0 .. Generations - 1
      BY DEF Typed, TypeOK, Checkpoints
    <2> QED
      BY <1>2, <2>1, HistoryShape, LineageAssumption DEF Committed
  <1>5. PICK H : H = History
    OBVIOUS
  <1>6. PICK k : k = checkpoint
    OBVIOUS
  <1>7. History' = H /\ checkpoint' = k
    BY <1>5, <1>6 DEF Keeps
  <1>8. \A n \in 1 .. m : Uninterrupted'[n] = Uninterrupted[n]
    <2>1. 1 .. m \subseteq 1 .. Generations
      BY <1>4, LineageAssumption
    <2> QED
      BY <1>1, <2>1
  <1>9. Settled' <=> Settled
    <2>1. Settled <=> (version = "v36" =>
                         \A n \in 1 .. m : \E cell \in Cells : Uninterrupted[n].archive[cell] # None)
      BY <1>2 DEF Settled, Occupied
    <2>2. Settled' <=> (version = "v36" =>
                         \A n \in 1 .. m : \E cell \in Cells : Uninterrupted'[n].archive[cell] # None)
      BY <1>3 DEF Settled, Occupied, Steady, Cells
    <2> QED
      BY <1>8, <2>1, <2>2
  <1>10. SameFile' <=> SameFile
    <2>1. SameFile <=> /\ k # None => k = Uninterrupted[m]
                       /\ \A n \in 1 .. m : H[n] = Uninterrupted[n].record
      BY <1>2, <1>4, <1>5, <1>6 DEF SameFile
    <2>2. SameFile' <=> /\ k # None => k = Uninterrupted'[m]
                        /\ \A n \in 1 .. m : H[n] = Uninterrupted'[n].record
      BY <1>3, <1>4, <1>5, <1>7 DEF SameFile
    <2>3. k # None => Uninterrupted'[m] = Uninterrupted[m]
      BY <1>1, <1>4, <1>6
    <2> QED
      BY <1>8, <2>1, <2>2, <2>3
  <1> QED
    BY <1>9, <1>10

\* The next round does not depend on the candidates, except where v36 has none in its archive.
LEMMA FollowingIgnores ==
  ASSUME NEW k, NEW c, NEW d, version # "v36" \/ Occupied(k.archive) # {}
  PROVE  Following(k, c) = Following(k, d)
  <1>1. CASE version # "v36"
    BY <1>1 DEF Following
  <1>2. CASE Occupied(k.archive) # {}
    <2>1. Parents(k.archive, c) = Parents(k.archive, d)
      BY <1>2 DEF Parents
    <2>2. PICK parents : parents = Parents(k.archive, c)
      OBVIOUS
    <2>3. Emitted(k.archive, c, k.nextId, k.generation) = Emitted(k.archive, d, k.nextId, k.generation)
      BY <2>1 DEF Emitted
    <2> QED
      BY <2>3 DEF Following
  <1> QED
    BY <1>1, <1>2

\* Scoring and ranking what a session came from.
LEMMA SameScores ==
  ASSUME HashIsNatural, Typed, Filed, SameSession, Steady, Scores
  PROVE  SameSession'
  <1>1. PICK k, b : /\ k = checkpoint /\ Based(k, b) /\ b \in Sessions
                    /\ pc \in Starting => session = b
    BY DEF SameSession
  <1>2. PICK t : t = Ranked(b, Evaluated(b))
    OBVIOUS
  <1>3. /\ Started(b) /\ session' = t /\ checkpoint' = k /\ Seeded
        /\ pc' = IF version = "v36" THEN "consider" ELSE "validate"
    BY <1>1, <1>2, TypedIsSeeded DEF Scores, Keeps, Typed
  <1>4. /\ t.population = Evaluated(b) /\ t.ranked = Rank(Evaluated(b))
        /\ t.generation = b.generation /\ t.nextId = b.nextId
        /\ t.archive = b.archive /\ t.hof = b.hof /\ t.considered = 0 /\ t.nominee = 1
    BY <1>2, <1>3, EvaluatedTyped, RankedIsScored
  <1>5. Archives(b, t.population)[0] = b.archive /\ Fames(b, t.ranked)[0] = b.hof
    BY ArchivesUnroll, FamesUnroll
  <1>6. t.nominee - 1 = 0
    BY <1>4
  <1>7. Follows(t, b)
    BY <1>4, <1>5, <1>6 DEF Follows
  <1>8. /\ pc' \notin Starting /\ pc' # "commit"
        /\ version = "v36" => pc' = "consider"
    BY <1>3 DEF Starting
  <1> QED
    BY <1>1, <1>3, <1>7, <1>8, SameAfter

\* Showing the next candidate.
LEMMA SameShows ==
  ASSUME HashIsNatural, Typed, Filed, SameSession, Steady, Shows
  PROVE  SameSession'
  <1>1. PICK s : s = session
    OBVIOUS
  <1>2. PICK k, b : /\ k = checkpoint /\ Based(k, b) /\ b \in Sessions
                    /\ pc \in Judging => Follows(s, b)
    BY <1>1 DEF SameSession
  <1>3. PICK t : t = Considered(s)
    OBVIOUS
  <1>4. /\ Follows(s, b) /\ Scored(s) /\ s.considered < Size /\ version = "v36" /\ Seeded
        /\ session' = t /\ checkpoint' = k
        /\ pc' = IF s.considered + 1 < Size THEN "consider" ELSE "validate"
    BY <1>1, <1>2, <1>3, TypedIsSeeded DEF Shows, Keeps, Judging, Typed
  <1>5. /\ s.considered + 1 \in 1 .. Size
        /\ t.archive = Consider(s.archive, s.population[s.considered + 1], s.generation)
        /\ t.considered = s.considered + 1
        /\ t.population = s.population /\ t.ranked = s.ranked
        /\ t.generation = s.generation /\ t.nextId = s.nextId
        /\ t.hof = s.hof /\ t.nominee = s.nominee
    BY <1>3, <1>4, ConsideredIsScored
  <1>6. PICK i \in 1 .. Size : i = s.considered + 1
    BY <1>5
  <1>7. s.considered \in Int
    BY <1>4 DEF Scored, Sessions
  <1>8. i - 1 = s.considered
    BY <1>6, <1>7
  <1>9. Archives(b, s.population)[i] = Consider(Archives(b, s.population)[i - 1], s.population[i], b.generation)
    BY ArchivesUnroll
  <1>10. t.archive = Archives(b, t.population)[t.considered]
    BY <1>4, <1>5, <1>6, <1>8, <1>9 DEF Follows
  <1>11. Follows(t, b)
    BY <1>4, <1>5, <1>10 DEF Follows
  <1>12. pc' \in {"validate", "validating", "commit"} => t.considered = Size
    <2>1. pc' \in {"validate", "validating", "commit"} => ~(s.considered + 1 < Size)
      BY <1>4
    <2> QED
      BY <1>5, <2>1, Sizes
  <1>13. pc' \notin Starting /\ pc' # "commit"
    BY <1>4 DEF Starting
  <1> QED
    BY <1>2, <1>4, <1>11, <1>12, <1>13, SameAfter

\* Judging the next nominee.
LEMMA SameJudges ==
  ASSUME HashIsNatural, Typed, Filed, SameSession, Steady, Judges
  PROVE  SameSession'
  <1>1. PICK s : s = session
    OBVIOUS
  <1>2. PICK k, b : /\ k = checkpoint /\ Based(k, b) /\ b \in Sessions
                    /\ pc \in Judging => Follows(s, b)
                    /\ version = "v36" /\ pc \in {"validate", "validating", "commit"}
                         => s.considered = Size
    BY <1>1 DEF SameSession
  <1>3. PICK score : score = Validation(s.ranked[s.nominee].genome)
    OBVIOUS
  <1>4. PICK t : t = Judged(s, score)
    OBVIOUS
  <1>5. /\ Follows(s, b) /\ Scored(s) /\ s.nominee \in 1 .. NomineeCount /\ Seeded
        /\ session' = t /\ checkpoint' = k /\ pc' \in {"validate", "commit"}
        /\ version = "v36" => s.considered = Size
        /\ pc' = "commit" => ~(s.nominee < NomineeCount)
    BY <1>1, <1>2, <1>3, <1>4, TypedIsSeeded DEF Judges, Keeps, Judging, Typed, AfterNominee
  <1>6. /\ t.hof = Better(s.hof, s.ranked[s.nominee], score, s.generation)
        /\ t.nominee = s.nominee + 1
        /\ t.population = s.population /\ t.ranked = s.ranked
        /\ t.generation = s.generation /\ t.nextId = s.nextId
        /\ t.archive = s.archive /\ t.considered = s.considered
    BY <1>4, <1>5 DEF Judged, Scored, Sessions
  <1>7. PICK i \in 1 .. NomineeCount : i = s.nominee
    BY <1>5
  <1>8. (i + 1) - 1 = i
    OBVIOUS
  <1>9. Fames(b, s.ranked)[i]
          = Better(Fames(b, s.ranked)[i - 1], s.ranked[i], Validation(s.ranked[i].genome), b.generation)
    BY FamesUnroll
  <1>10. t.hof = Fames(b, t.ranked)[t.nominee - 1]
    BY <1>3, <1>5, <1>6, <1>7, <1>8, <1>9 DEF Follows
  <1>11. Follows(t, b)
    BY <1>5, <1>6, <1>10 DEF Follows
  <1>12. pc' = "commit" => t.nominee = NomineeCount + 1
    BY <1>5, <1>6, Sizes
  <1>13. pc' \notin Starting
    BY <1>5 DEF Starting
  <1>14. version = "v36" => t.considered = Size
    BY <1>5, <1>6
  <1> QED
    BY <1>2, <1>5, <1>11, <1>12, <1>13, <1>14, SameAfter

\* A checkpoint of two sessions that agree on what is saved.
LEMMA CheckpointAgrees ==
  ASSUME NEW s, NEW t, s.generation = t.generation, s.ranked = t.ranked, s.archive = t.archive,
         s.hof = t.hof, s.population = t.population, s.nextId = t.nextId
  PROVE  Checkpoint(s) = Checkpoint(t)
  BY DEF Checkpoint, Record

\* Committing a generation: what is on the disk before and afterwards.
LEMMA CommitGrows ==
  ASSUME HashIsNatural, Typed, Filed, Steady, Commits, Settled'
  PROVE  /\ Committed \in Nat /\ Committed' = Committed + 1 /\ Committed + 1 \in 1 .. Generations
         /\ Saved(Checkpoint(session)) /\ Record(session) \in Rows
         /\ Checkpoint(session).record = Record(session)
         /\ Settled
  <1>1. PICK s : s = session
    OBVIOUS
  <1>2. PICK m \in Nat : m = Committed
    BY HistoryShape
  <1>3. PICK new : new = Checkpoint(s)
    OBVIOUS
  <1>4. /\ Scored(s) /\ Ready(s) /\ Seeded /\ checkpoint' = new /\ s.generation = m
    BY <1>1, <1>2, <1>3, TypedIsSeeded, HistoryShape DEF Commits, Typed
  <1>5. /\ Saved(new) /\ new.generation = s.generation
        /\ new.record = Record(s) /\ Record(s) \in Rows
    BY <1>3, <1>4, CheckpointSaves
  <1>6. m + 1 \in 1 .. Generations /\ 1 .. m \subseteq 1 .. Generations
    <2>1. s.generation \in 0 .. Generations - 1
      BY <1>4 DEF Scored, Sessions
    <2> QED
      BY <1>4, <2>1, LineageAssumption
  <1>7. Committed' = m + 1
    <2>1. new # None
      BY <1>5, Absent DEF Saved
    <2> QED
      BY <1>4, <1>5, <2>1 DEF Committed
  <1>8. Settled
    <2>1. version = "v36" =>
            \A n \in 1 .. m + 1 : \E cell \in Cells : Uninterrupted'[n].archive[cell] # None
      BY <1>7 DEF Settled, Occupied, Steady, Cells
    <2>2. 1 .. m \subseteq 1 .. m + 1
      OBVIOUS
    <2>3. version = "v36" =>
            \A n \in 1 .. m : \E cell \in Cells : Uninterrupted[n].archive[cell] # None
      BY <1>6, <2>1, <2>2, UninterruptedSteady
    <2> QED
      BY <1>2, <2>3 DEF Settled, Occupied
  <1> QED
    BY <1>1, <1>2, <1>3, <1>5, <1>6, <1>7, <1>8

\* Committing: the next generation of the uninterrupted run.
LEMMA SameCommits ==
  ASSUME HashIsNatural, Typed, Filed, Steady, Commits, SameFile, SameSession, Settled'
  PROVE  SameFile'
  <1>1. PICK s : s = session
    OBVIOUS
  <1>2. PICK k, b : /\ k = checkpoint /\ Based(k, b) /\ b \in Sessions
                    /\ pc \in Judging => Follows(s, b)
                    /\ version = "v36" /\ pc \in {"validate", "validating", "commit"}
                         => s.considered = Size
                    /\ pc = "commit" => s.nominee = NomineeCount + 1
    BY <1>1 DEF SameSession
  <1>3. /\ Follows(s, b) /\ (version = "v36" => s.considered = Size) /\ s.nominee = NomineeCount + 1
        /\ Scored(s) /\ Ready(s) /\ s.generation = Len(History) /\ Seeded
    BY <1>1, <1>2, TypedIsSeeded DEF Commits, Judging, Typed
  <1>4. PICK H \in Seq(Rows) : H = History
    BY HistoryShape
  <1>5. PICK m \in Nat : m = Committed
    BY HistoryShape
  <1>6. PICK new : new = Checkpoint(s)
    OBVIOUS
  <1>7. PICK row : row = Record(s)
    OBVIOUS
  <1>8. /\ checkpoint' = new /\ History' = Append(H, row) /\ Len(H) = m
        /\ (m = 0 <=> k = None)
    BY <1>1, <1>2, <1>4, <1>5, <1>6, <1>7, HistoryShape DEF Commits
  <1>9. Saved(new) /\ new.record = row /\ row \in Rows
    BY <1>1, <1>6, <1>7, CommitGrows
  <1>10. Committed' = m + 1 /\ m + 1 \in 1 .. Generations /\ 1 .. m \subseteq 1 .. Generations
    <2>1. Committed' = m + 1 /\ m + 1 \in 1 .. Generations
      BY <1>5, CommitGrows
    <2> QED
      BY <2>1, LineageAssumption
  <1>11. \A n \in 1 .. Generations : Uninterrupted'[n] = Uninterrupted[n]
    BY UninterruptedSteady
  <1>12. PICK e, r, a, h, t : Builds(b, e, r, a, h, t)
    BY DEF Builds
  <1>13. Generation(b) = Checkpoint(t)
    BY <1>12, MadeNow DEF Made
  <1>14. /\ t.population = e /\ t.ranked = r /\ t.archive = a /\ t.hof = h
         /\ t.generation = b.generation /\ t.nextId = b.nextId
    BY <1>2, <1>12 DEF Builds, Sessions
  <1>15. s.population = e /\ s.ranked = r
    BY <1>3, <1>12 DEF Follows, Builds
  <1>16. s.archive = a
    BY <1>3, <1>12, <1>15 DEF Follows, Builds
  <1>17. s.hof = h
    <2>1. s.nominee - 1 = NomineeCount
      BY <1>3, Sizes
    <2> QED
      BY <1>3, <1>12, <1>15, <2>1 DEF Follows, Builds
  <1>18. new = Generation(b)
    BY <1>3, <1>6, <1>13, <1>14, <1>15, <1>16, <1>17, CheckpointAgrees DEF Follows
  <1>19. Uninterrupted[m + 1] = Generation(b)
    <2>1. PICK j : j = Uninterrupted[(m + 1) - 1]
      OBVIOUS
    <2>2. (m + 1) - 1 = m /\ (m + 1 = 1 <=> m = 0)
      OBVIOUS
    <2>3. k # None => j = k
      BY <1>2, <1>5, <2>1, <2>2 DEF SameFile
    <2>4. b = IF m + 1 = 1 THEN Fresh ELSE Continued(j)
      BY <1>2, <1>8, <2>2, <2>3 DEF Based
    <2> QED
      BY <1>10, <2>1, <2>4, MadeNow DEF Made
  <1>20. Uninterrupted'[m + 1] = new
    BY <1>10, <1>11, <1>18, <1>19
  <1>21. \A n \in 1 .. m + 1 : Append(H, row)[n] = Uninterrupted'[n].record
    <2> TAKE n \in 1 .. m + 1
    <2>1. CASE n = m + 1
      BY <1>8, <1>9, <1>20, <2>1
    <2>2. CASE n # m + 1
      <3>1. n \in 1 .. m
        BY <2>2
      <3>2. Append(H, row)[n] = H[n] /\ H[n] = Uninterrupted[n].record
        BY <1>4, <1>8, <1>9, <3>1 DEF SameFile
      <3> QED
        BY <1>10, <1>11, <3>1, <3>2
    <2> QED
      BY <2>1, <2>2
  <1>22. Len(Append(H, row)) = m + 1
    BY <1>4, <1>8, <1>9
  <1> QED
    BY <1>8, <1>10, <1>20, <1>21, <1>22 DEF SameFile

\* Every step keeps what is committed the same as the uninterrupted run's.
LEMMA SameKept ==
  ASSUME HashIsNatural, Typed, Filed, Same, Steps
  PROVE  Same'
  <1> SUFFICES ASSUME Settled'
               PROVE  SameFile' /\ (pc' \in Starting \cup Judging => SameSession')
    BY DEF Same, Starting, Judging
  <1>1. Seeded /\ Steady
    BY TypedIsSeeded DEF Typed, Steps
  <1>2. ASSUME Keeps
        PROVE  SameFile' /\ Settled /\ SameFile /\ (pc \in Starting \cup Judging => SameSession)
    BY <1>1, <1>2, SameFileKept DEF Same
  <1>3. CASE Stays
    <2>1. SameFile' /\ (pc \in Starting \cup Judging => SameSession)
      BY <1>2, <1>3 DEF Stays
    <2>2. CASE pc \notin Starting \cup Judging
      <3>1. pc' \notin Starting \cup Judging
        BY <1>3, <2>2 DEF Stays, Starting, Judging, Written
      <3> QED
        BY <2>1, <3>1
    <2>3. CASE pc \in Starting \cup Judging
      <3>1. PICK s : s = session
        OBVIOUS
      <3>2. PICK k, b : /\ k = checkpoint /\ Based(k, b) /\ b \in Sessions
                        /\ pc \in Starting => s = b
                        /\ pc \in Judging => Follows(s, b)
                        /\ version = "v36" /\ pc \in {"validate", "validating", "commit"}
                             => s.considered = Size
                        /\ pc = "commit" => s.nominee = NomineeCount + 1
        BY <2>1, <2>3, <3>1 DEF SameSession
      <3>3. /\ pc' \in Starting => pc \in Starting
            /\ pc' \in Judging => pc \in Judging
            /\ pc' \in {"validate", "validating", "commit"}
                 => pc \in {"validate", "validating", "commit"}
            /\ pc' = "commit" => pc = "commit"
        BY <1>3, <2>3 DEF Stays, Judging, Written, Starting
      <3>4. session' = s /\ checkpoint' = k
        BY <1>3, <3>1, <3>2 DEF Stays, Keeps
      <3>5. SameSession'
        BY <1>1, <3>2, <3>3, <3>4, SameAfter
      <3> QED
        BY <2>1, <3>5
    <2> QED
      BY <2>2, <2>3
  <1>4. CASE Stops
    <2>1. pc' \notin Starting \cup Judging
      BY <1>4 DEF Stops, Starting, Judging
    <2> QED
      BY <1>2, <1>4, <2>1 DEF Stops
  <1>5. CASE Begins
    <2>1. PICK b : b = Fresh
      OBVIOUS
    <2>2. PICK k : k = checkpoint
      OBVIOUS
    <2>3. /\ checkpoint' = k /\ k = None /\ session' = b /\ pc' \in Starting
          /\ pc' \notin Judging /\ pc' \notin {"validate", "validating", "commit"}
      BY <1>5, <2>1, <2>2 DEF Begins, Keeps, Starting, Judging
    <2>4. b \in Sessions /\ Based(k, b)
      BY <1>1, <2>1, <2>3, FreshStarts DEF Based, Started
    <2>5. SameSession'
      BY <1>1, <2>3, <2>4, SameAfter
    <2> QED
      BY <1>2, <1>5, <2>5 DEF Begins
  <1>6. ASSUME NEW candidates \in Populations({<<>>} \cup Tested), GoesOn(candidates),
               candidates = checkpoint.record.candidates \/ candidates = checkpoint.population
        PROVE  SameFile' /\ (pc' \in Starting \cup Judging => SameSession')
    <2>1. PICK k : k = checkpoint
      OBVIOUS
    <2>2. PICK b : b = Following(k, candidates)
      OBVIOUS
    <2>3. /\ checkpoint' = k /\ k # None /\ session' = b /\ pc' \in Starting
          /\ pc' \notin Judging /\ pc' \notin {"validate", "validating", "commit"}
          /\ Saved(k) /\ k.generation + 1 < Generations
      BY <1>6, <2>1, <2>2 DEF GoesOn, Keeps, Starting, Judging
    <2>4. SameFile' /\ Settled /\ SameFile
      BY <1>2, <1>6 DEF GoesOn
    <2>5. version # "v36" \/ Occupied(k.archive) # {}
      <3>1. Committed \in 1 .. Committed
        BY <2>1, <2>3, HistoryShape
      <3>2. k = Uninterrupted[Committed]
        BY <2>1, <2>3, <2>4 DEF SameFile
      <3> QED
        BY <2>4, <3>1, <3>2 DEF Settled
    <2>6. Following(k, candidates) = Following(k, k.record.candidates)
      BY <2>5, FollowingIgnores
    <2>7. Based(k, b)
      BY <2>2, <2>3, <2>6 DEF Based, Continued
    <2>8. b \in Sessions
      BY <1>1, <1>6, <2>2, <2>3, FollowingStarts DEF Started
    <2>9. SameSession'
      BY <1>1, <2>3, <2>7, <2>8, SameAfter
    <2> QED
      BY <2>4, <2>9
  <1>7. CASE Scores
    <2>1. SameFile' /\ SameSession
      BY <1>2, <1>7 DEF Scores
    <2> QED
      BY <1>1, <1>7, <2>1, SameScores
  <1>8. CASE Shows
    <2>1. SameFile' /\ SameSession
      BY <1>2, <1>8 DEF Shows, Judging
    <2> QED
      BY <1>1, <1>8, <2>1, SameShows
  <1>9. CASE Judges
    <2>1. SameFile' /\ SameSession
      BY <1>2, <1>9 DEF Judges, Judging
    <2> QED
      BY <1>1, <1>9, <2>1, SameJudges
  <1>10. CASE Commits
    <2>1. pc' \notin Starting \cup Judging /\ pc \in Judging
      BY <1>10 DEF Commits, Starting, Judging
    <2>2. SameFile /\ SameSession
      BY <1>1, <1>10, <2>1, CommitGrows DEF Same
    <2>3. SameFile'
      BY <1>1, <1>10, <2>2, SameCommits
    <2> QED
      BY <2>1, <2>3
  <1>11. GoesOn(checkpoint.population)
           => checkpoint.population \in Populations({<<>>} \cup Tested)
    BY DEF GoesOn, Saved, Checkpoints
  <1>12. GoesOn(checkpoint.record.candidates)
           => checkpoint.record.candidates \in Populations({<<>>} \cup Tested)
    BY LastRecordIds DEF GoesOn
  <1> QED
    BY <1>3, <1>4, <1>5, <1>6, <1>7, <1>8, <1>9, <1>10, <1>11, <1>12 DEF Steps

\* What is committed is what the uninterrupted run commits, in whatever order workers
\* answer and wherever processes die, fail and go on; under v36 as long as the archive
\* holds a policy at every commit.
THEOREM LineagesAreReproducible ==
  ASSUME HashIsNatural
  PROVE  Spec => []LineageIsReproducible
  <1>1. Init => Typed /\ Filed /\ Same
    <2> SUFFICES ASSUME Init PROVE Typed /\ Filed /\ Same
      OBVIOUS
    <2>1. Typed
      BY InitTyped
    <2>2. Filed
      BY DEF Init, Filed, Starting, Judging
    <2>3. Len(History) = 0
      BY DEF Init, History, Committed
    <2>4. SameFile
      BY <2>3 DEF Init, SameFile
    <2> QED
      BY <2>1, <2>2, <2>4 DEF Init, Same, Starting, Judging
  <1>2. Typed /\ Filed /\ Same /\ [Next]_vars => (Typed /\ Filed /\ Same)'
    BY TypedKept, StepsKept, SameKept
  <1>3. Typed /\ Filed /\ Same => LineageIsReproducible
    <2> SUFFICES ASSUME Typed, Filed, Same, Settled
                 PROVE  /\ Committed > 0 => checkpoint = Uninterrupted[Committed]
                        /\ \A n \in DOMAIN results : results[n] = Uninterrupted[n].record
      BY DEF LineageIsReproducible, Settled, SameAsUninterrupted
    <2>1. SameFile /\ (Committed = 0 <=> checkpoint = None)
      BY HistoryShape DEF Same
    <2>2. \A n \in DOMAIN results : n \in 1 .. Len(History) /\ results[n] = History[n]
      <3> TAKE n \in DOMAIN results
      <3>1. results \in Seq(Rows) /\ n \in 1 .. Len(results)
        BY DEF Typed, TypeOK
      <3>2. CASE History = results
        BY <3>1, <3>2
      <3>3. CASE History = Append(results, checkpoint.record)
        BY <3>1, <3>3
      <3> QED
        BY <3>2, <3>3 DEF History
    <2> QED
      BY <2>1, <2>2 DEF SameFile
  <1> QED
    BY <1>1, <1>2, <1>3, PTL DEF Spec
=============================================================================
