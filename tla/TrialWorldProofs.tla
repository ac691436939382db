--------------------------- MODULE TrialWorldProofs ----------------------------
(***************************************************************************)
(* Proofs about a trial of the world and about a rollout of it, for every    *)
(* configuration that satisfies ConfigAssumption.                            *)
(*                                                                           *)
(* The invariant has four parts: the types of the state, with the exact      *)
(* content of the grid of resources (Typed); the books of births, deaths and *)
(* meals (Booked); the counters, each bounded by what the rest of the frame  *)
(* may still add to it (Counted); and what has been sensed (Sensed).  A      *)
(* rollout adds what the trajectories were paid (Rewarded).                  *)
(***************************************************************************)
EXTENDS TrialRollout, TLAPS, FiniteSetTheorems, WellFoundedInduction

Creature == [at : Points, energy : Int, hunger : Int, thirst : Int,
             age : Nat, alive : BOOLEAN, low : BOOLEAN]

Resource == [kind : Kinds, at : Points]

Readings ==
  [food : Nat, water : Nat, recoveries : Nat, opportunities : Nat,
   aliveFrames : Nat, hydrated : Nat, severe : Nat, fireContacts : Nat, fireDeaths : Nat,
   born : Nat, deaths : Nat, founderSurvival : Nat,
   offspringSurvival : Nat, offspringPossible : Nat,
   extinctFrame : Int, early : BOOLEAN]

Acting == pc \in {"act", "settle"}

Grid(k) == {<<Key(resources[r].at), r>> : r \in OfKind(resources, k)}

Low == {c \in DOMAIN creatures : creatures[c].low}
Dead == DOMAIN creatures \ Alive

\* The types, and what the parts of the state say of each other.
TypedCreatures ==
  /\ nextCreature \in Nat \ {0}
  /\ creatures \in [DOMAIN creatures -> Creature]
  /\ DOMAIN creatures \subseteq 1 .. nextCreature - 1

TypedResources ==
  /\ nextResource \in Nat \ {0}
  /\ resources \in [DOMAIN resources -> Resource]
  /\ DOMAIN resources \subseteq 1 .. nextResource - 1
  /\ index = [k \in Kinds |-> Grid(k)]
  /\ accumulator \in [Grown -> Nat]

TypedControl ==
  /\ profile \in {"standard", "water_fire_challenge"}
  /\ frame \in 0 .. Config.max_frames
  /\ pc \in {"sense", "act", "settle", "extinction", "max_frames"}
  /\ Acting => frame < Config.max_frames
  /\ peak \in Nat
  /\ metrics \in Readings

TypedDecisions ==
  /\ decisions = [c \in DOMAIN decisions |-> decisions[c]]
  /\ DOMAIN decisions \subseteq Alive
  /\ pc = "act" <=> DOMAIN decisions # {}
  /\ ~Acting => Dead = {}
  /\ pc = "extinction" <=> DOMAIN creatures = {}

Typed == TypedCreatures /\ TypedResources /\ TypedControl /\ TypedDecisions

\* The books.
BookedResources ==
  /\ nextResource - 1 = Cardinality(DOMAIN resources) + metrics.food + metrics.water
  /\ \A k \in Grown : Cardinality(OfKind(resources, k)) <= Capacity(k)

BookedCreatures ==
  /\ nextCreature - 1 = 1 + metrics.born
  /\ nextCreature - 1 = Cardinality(DOMAIN creatures) + metrics.deaths

Booked == BookedResources /\ BookedCreatures

\* The counters.
Counted ==
  /\ Cardinality(DOMAIN creatures) <= peak
  /\ peak <= Config.lineage_cap
  /\ \A c \in DOMAIN creatures :
       creatures[c].age + One(c \in DOMAIN decisions) <= frame + One(Acting)
  /\ metrics.founderSurvival <= frame + One(Acting)
  /\ metrics.fireContacts <= metrics.aliveFrames
  /\ metrics.hydrated <= metrics.aliveFrames
  /\ metrics.severe <= metrics.aliveFrames
  /\ metrics.offspringSurvival <= metrics.aliveFrames
  /\ metrics.recoveries + Cardinality(Low) <= metrics.opportunities
  /\ metrics.aliveFrames + Cardinality(DOMAIN decisions)
       <= (frame + One(Acting)) * Config.lineage_cap
  /\ metrics.offspringSurvival + Cardinality(DOMAIN decisions \ {1})
       <= metrics.offspringPossible
  /\ metrics.fireDeaths <= metrics.deaths + Cardinality(Dead)
  /\ metrics.extinctFrame \in {-1} \union 0 .. frame
  /\ metrics.extinctFrame # -1 <=> pc = "extinction"
  /\ metrics.early => pc = "extinction"

\* What was sensed.
Sensed ==
  FirstActs => \A c \in DOMAIN decisions :
    decisions[c].crowd =
      Cardinality({d \in Alive \ {c} :
                     Within(creatures[d].at, creatures[c].at, Config.vision_range)})

WorldInv == Typed /\ Booked /\ Counted /\ Sensed

\* A rollout.
Transitions == [length : Nat, rewards : [Causes -> Nat], deaths : Nat, done : BOOLEAN]

Payments(k) == UNION {{c} \X (1 .. trajectories[c].rewards[k]) : c \in DOMAIN trajectories}

Rewarded ==
  /\ sampled \in {"no", "v36", "v37"}
  /\ sampled # "no" =>
       /\ trajectories \in [DOMAIN trajectories -> Transitions]
       /\ DOMAIN trajectories \subseteq 1 .. nextCreature - 1
       /\ \A k \in Causes : IsFiniteSet(Payments(k)) /\ Cardinality(Payments(k)) = metrics[k]
       /\ \A c \in DOMAIN creatures : Trajectory(c).length = creatures[c].age
       /\ \A c \in 1 .. nextCreature - 1 : Trajectory(c).deaths = One(c \notin Alive)
       /\ \A c \in DOMAIN trajectories : trajectories[c].done <=> c \notin Alive

\* What finish decided agrees with the trajectories, and nothing happens after it.
Concluded ==
  /\ finished = NoResult \/ (sampled # "no" /\ ~Acting)
  /\ \A c \in DOMAIN finished :
       /\ sampled = "v36" => /\ finished[c].done = trajectories[c].done
                             /\ finished[c].done <=> finished[c].observed = {}
       /\ finished[c].penalised => trajectories[c].done

RolloutInv == WorldInv /\ Rewarded /\ Concluded

--------------------------------------------------------------------------------
(* Numbers and finite sets.                                                     *)

\* Every set of numbers that is not empty has a least one, which is what Min gives.
LEMMA LeastOfNumbers ==
  ASSUME NEW S \in SUBSET Nat, S # {}
  PROVE  Min(S) \in S /\ \A k \in S : Min(S) <= k
<1>1. PICK m \in S : \A k \in S : ~ (<<k, m>> \in OpToRel(<, Nat))
  BY NatLessThanWellFounded, WFMin
<1>2. ASSUME NEW k \in S
      PROVE  m <= k
  <2>1. <<k, m>> \notin OpToRel(<, Nat)
    BY <1>1
  <2>2. k \in Nat /\ m \in Nat
    OBVIOUS
  <2>3. <<k, m>> \in Nat \X Nat /\ <<k, m>>[1] = k /\ <<k, m>>[2] = m
    BY <2>2
  <2>4. ~(k < m)
    BY <2>1, <2>3 DEF OpToRel
  <2> QED
    BY <2>2, <2>4
<1> QED
  BY <1>2 DEF Min

\* The smaller and the larger of two numbers.
LEMMA MinOfTwo ==
  ASSUME NEW a \in Int, NEW b \in Int
  PROVE  Min({a, b}) \in {a, b} /\ Min({a, b}) <= a /\ Min({a, b}) <= b
BY DEF Min

\* The larger of two numbers is one of them and not below the other.
LEMMA MaxOfTwo ==
  ASSUME NEW a \in Int, NEW b \in Int
  PROVE  Max({a, b}) \in {a, b} /\ a <= Max({a, b}) /\ b <= Max({a, b})
BY DEF Max

\* The size of a finite set is a natural number, and a subset of it is not larger.
LEMMA SizeFacts ==
  ASSUME NEW S, IsFiniteSet(S)
  PROVE  /\ Cardinality(S) \in Nat
         /\ \A T \in SUBSET S : /\ IsFiniteSet(T)
                                /\ Cardinality(T) \in Nat
                                /\ Cardinality(T) <= Cardinality(S)
                                /\ T # S => Cardinality(T) < Cardinality(S)
<1>1. Cardinality(S) \in Nat
  BY FS_CardinalityType
<1>2. ASSUME NEW T \in SUBSET S
      PROVE  /\ IsFiniteSet(T)
             /\ Cardinality(T) \in Nat
             /\ Cardinality(T) <= Cardinality(S)
             /\ T # S => Cardinality(T) < Cardinality(S)
  <2>1. IsFiniteSet(T) /\ Cardinality(T) <= Cardinality(S)
        /\ (Cardinality(S) = Cardinality(T) => S = T)
    BY FS_Subset
  <2>2. Cardinality(T) \in Nat
    BY <2>1, FS_CardinalityType
  <2> QED
    BY <1>1, <2>1, <2>2
<1> QED
  BY <1>1, <1>2

\* Two sets without a common element add up.
LEMMA DisjointSizes ==
  ASSUME NEW S, NEW T, IsFiniteSet(S), IsFiniteSet(T), S \intersect T = {}
  PROVE  /\ IsFiniteSet(S \union T)
         /\ Cardinality(S \union T) = Cardinality(S) + Cardinality(T)
<1>1. Cardinality(S) \in Nat /\ Cardinality(T) \in Nat
  BY FS_CardinalityType
<1>2. IsFiniteSet(S \union T)
      /\ Cardinality(S \union T) = Cardinality(S) + Cardinality(T) - Cardinality(S \intersect T)
  BY FS_Union
<1>3. Cardinality(S \intersect T) = 0
  BY FS_EmptySet
<1> QED
  BY <1>1, <1>2, <1>3

\* What is left when T was taken from S.
LEMMA TakenSizes ==
  ASSUME NEW S, NEW T \in SUBSET S, IsFiniteSet(S)
  PROVE  Cardinality(S \ T) = Cardinality(S) - Cardinality(T)
<1>1. IsFiniteSet(T) /\ IsFiniteSet(S \ T)
  BY SizeFacts
<1>2. Cardinality((S \ T) \union T) = Cardinality(S \ T) + Cardinality(T)
  BY <1>1, DisjointSizes
<1>3. (S \ T) \union T = S
  OBVIOUS
<1> QED
  BY <1>1, <1>2, <1>3, SizeFacts

\* The rank of an element in a finite set of numbers: ranks are smaller than the size and
\* they keep the order.
LEMMA RankFacts ==
  ASSUME NEW S \in SUBSET Nat, IsFiniteSet(S)
  PROVE  /\ \A c \in S : Before(c, S) \in 0 .. Cardinality(S) - 1
         /\ \A c, d \in S : c < d => Before(c, S) < Before(d, S)
<1>1. ASSUME NEW c \in S
      PROVE  Before(c, S) \in 0 .. Cardinality(S) - 1
  <2>1. {d \in S : d < c} \in SUBSET S /\ {d \in S : d < c} # S
    OBVIOUS
  <2> QED
    BY <2>1, SizeFacts DEF Before
<1>2. ASSUME NEW c \in S, NEW d \in S, c < d
      PROVE  Before(c, S) < Before(d, S)
  <2>1. IsFiniteSet({e \in S : e < d})
    BY SizeFacts
  <2>2. {e \in S : e < c} \in SUBSET {e \in S : e < d} /\ {e \in S : e < c} # {e \in S : e < d}
    <3>1. c \in Nat /\ d \in Nat /\ \A e \in S : e \in Nat
      OBVIOUS
    <3>2. c \in {e \in S : e < d} /\ c \notin {e \in S : e < c}
      BY <1>2, <3>1
    <3>3. \A e \in S : e < c => e < d
      BY <1>2, <3>1
    <3> QED
      BY <3>2, <3>3
  <2> QED
    BY <2>1, <2>2, SizeFacts DEF Before
<1> QED
  BY <1>1, <1>2

\* At most n elements have a rank below n.
LEMMA FirstOfRank ==
  ASSUME NEW S \in SUBSET Nat, IsFiniteSet(S), NEW n \in Nat
  PROVE  Cardinality({c \in S : Before(c, S) < n}) <= n
<1> DEFINE T == {c \in S : Before(c, S) < n}
           f == [c \in T |-> Before(c, S)]
<1>1. \A c \in T : Before(c, S) \in 0 .. n - 1
  BY RankFacts
<1>2. \A c, d \in T : Before(c, S) = Before(d, S) => c = d
  <2> SUFFICES ASSUME NEW c \in T, NEW d \in T, Before(c, S) = Before(d, S)
               PROVE  c = d
    OBVIOUS
  <2>1. c \in Nat /\ d \in Nat /\ ~(c < d) /\ ~(d < c)
    BY RankFacts
  <2> QED
    BY <2>1
<1>3. f \in Injection(T, 0 .. n - 1)
  BY <1>1, <1>2 DEF Injection, IsInjective
<1>4. IsFiniteSet(0 .. n - 1) /\ Cardinality(0 .. n - 1) = n
  BY FS_Interval
<1> QED
  BY <1>3, <1>4, FS_Injection

\* Every rank below the size is taken.
LEMMA RanksAreTaken ==
  ASSUME NEW S \in SUBSET Nat, IsFiniteSet(S), NEW n \in 0 .. Cardinality(S) - 1
  PROVE  \E c \in S : Before(c, S) = n
<1> DEFINE f == [c \in S |-> Before(c, S)]
           R == 0 .. Cardinality(S) - 1
<1>1. \A c, d \in S : Before(c, S) = Before(d, S) => c = d
  <2> SUFFICES ASSUME NEW c \in S, NEW d \in S, Before(c, S) = Before(d, S)
               PROVE  c = d
    OBVIOUS
  <2>1. c \in Nat /\ d \in Nat /\ ~(c < d) /\ ~(d < c)
    BY RankFacts
  <2> QED
    BY <2>1
<1>2. f \in Injection(S, R)
  BY <1>1, RankFacts DEF Injection, IsInjective
<1>3. Cardinality(S) \in Nat
  BY FS_CardinalityType
<1>4. IsFiniteSet(R) /\ Cardinality(R) = Cardinality(S)
  BY <1>3, FS_Interval
<1>5. f \in Surjection(S, R)
  BY <1>2, <1>4, FS_Injection
<1> QED
  BY <1>5 DEF Surjection

--------------------------------------------------------------------------------
(* Geometry.                                                                    *)

\* The types of the configuration.
LEMMA ConfigFacts ==
  /\ Config.cell_size \in Nat \ {0} /\ Config.max_frames \in Nat \ {0}
  /\ Config.lineage_cap \in Nat \ {0} /\ Config.reproduction_interval \in Nat \ {0}
  /\ Config.unit \in Nat \ {0}
  /\ Config.width \in Nat /\ Config.height \in Nat
  /\ Config.touch_distance \in Nat /\ Config.vision_range \in Nat /\ Config.max_speed \in Nat
  /\ Config.initial_food \in Nat /\ Config.initial_water \in Nat /\ Config.initial_fire \in Nat
  /\ Config.challenge_fire \in Nat
  /\ Config.food_capacity \in Nat /\ Config.water_capacity \in Nat
  /\ Config.food_rate \in Nat /\ Config.water_rate \in Nat
  /\ Config.full_energy \in Int /\ Config.meal \in Int /\ Config.movement_cost \in Int
  /\ Config.basal_cost \in Int /\ Config.fire_damage \in Int
  /\ Config.hunger_increment \in Int /\ Config.thirst_increment \in Int
  /\ Config.low_water \in Int /\ Config.limit \in Int /\ Config.starvation_penalty \in Int
  /\ Config.reproduction_threshold \in Int /\ Config.reproduction_parent_cost \in Int
  /\ Config.child_start_energy \in Int /\ Config.early_fraction \in Int
BY ConfigAssumption

\* Coordinates are integers.
LEMMA PointFacts ==
  ASSUME NEW p \in Points
  PROVE  p[1] \in Int /\ p[2] \in Int
BY ConfigFacts DEF Points

\* The root of a sum of squares is at least each of its terms.
LEMMA NotLongerThan ==
  ASSUME NEW a \in Int, NEW b \in Int, NEW r \in Nat, Square(a) + Square(b) <= Square(r)
  PROVE  a <= r /\ -a <= r /\ b <= r /\ -b <= r
<1>1. \A n \in Int : n * n >= 0
  OBVIOUS
<1>2. \A n \in Int : n > r => n * n > r * r
  <2> SUFFICES ASSUME NEW n \in Int, n > r
               PROVE  n * n > r * r
    OBVIOUS
  <2> PICK k \in Nat \ {0} : n = r + k
    <3> WITNESS n - r \in Nat \ {0}
    <3> QED
      OBVIOUS
  <2>1. n * n = r * r + 2 * (r * k) + k * k
    OBVIOUS
  <2>2. k * k > 0 /\ r * k >= 0
    OBVIOUS
  <2> QED
    BY <2>1, <2>2
<1>3. \A n \in Int : (-n) * (-n) = n * n
  OBVIOUS
<1>4. a * a <= r * r /\ b * b <= r * r
  BY <1>1 DEF Square
<1> QED
  BY <1>2, <1>3, <1>4

\* The cells that are searched reach as far as the radius.
LEMMA CellsReachFarEnough ==
  ASSUME NEW p \in Points, NEW q \in Points, NEW radius \in Nat, Within(q, p, radius)
  PROVE  Near(Key(q), p, radius)
<1> DEFINE size == Config.cell_size
<1>1. size \in Nat \ {0}
  BY ConfigFacts
<1>2. p[1] \in Int /\ p[2] \in Int /\ q[1] \in Int /\ q[2] \in Int
  BY PointFacts
<1>3. /\ q[1] - p[1] <= radius /\ p[1] - q[1] <= radius
      /\ q[2] - p[2] <= radius /\ p[2] - q[2] <= radius
  <2>1. Square(q[1] - p[1]) + Square(q[2] - p[2]) <= Square(radius)
    BY DEF Within, SquaredDistance
  <2> QED
    BY <1>2, <2>1, NotLongerThan
<1> HIDE DEF size
<1>4. \A a, b \in Int : a - b <= radius
        => (a \div size) - (b \div size) <= (radius + size - 1) \div size
  BY <1>1
<1>5. \A a, b \in Int : a - b <= radius /\ b - a <= radius
        => (a \div size) - (b \div size)
             \in -((radius + size - 1) \div size) .. ((radius + size - 1) \div size)
  <2> SUFFICES ASSUME NEW a \in Int, NEW b \in Int, a - b <= radius, b - a <= radius
               PROVE  (a \div size) - (b \div size)
                        \in -((radius + size - 1) \div size) .. ((radius + size - 1) \div size)
    OBVIOUS
  <2>1. /\ (a \div size) - (b \div size) <= (radius + size - 1) \div size
        /\ (b \div size) - (a \div size) <= (radius + size - 1) \div size
    BY <1>4
  <2>2. (a \div size) \in Int /\ (b \div size) \in Int /\ ((radius + size - 1) \div size) \in Int
    BY <1>1
  <2> QED
    BY <2>1, <2>2
<1>6. /\ (q[1] \div size) - (p[1] \div size)
           \in -((radius + size - 1) \div size) .. ((radius + size - 1) \div size)
      /\ (q[2] \div size) - (p[2] \div size)
           \in -((radius + size - 1) \div size) .. ((radius + size - 1) \div size)
  BY <1>2, <1>3, <1>5
<1> QED
  BY <1>6 DEF Near, Span, Key, size

\* A grid that has every object of N in the cell of its position answers as a walk through
\* N would.
LEMMA QueryIsWalk ==
  ASSUME NEW N, NEW where, NEW grid, NEW p \in Points, NEW radius \in Nat,
         \A n \in N : where[n] \in Points,
         grid = {<<Key(where[n]), n>> : n \in N}
  PROVE  Query(grid, where, p, radius) = {n \in N : Within(where[n], p, radius)}
<1>1. \A n \in N : Within(where[n], p, radius) => Near(Key(where[n]), p, radius)
  BY CellsReachFarEnough
<1>2. \A e \in grid : \E n \in N : e = <<Key(where[n]), n>> /\ e[1] = Key(where[n]) /\ e[2] = n
  OBVIOUS
<1>3. \A n \in N : /\ <<Key(where[n]), n>> \in grid
                   /\ <<Key(where[n]), n>>[1] = Key(where[n])
                   /\ <<Key(where[n]), n>>[2] = n
  OBVIOUS
<1>4. ASSUME NEW x
      PROVE  x \in Query(grid, where, p, radius)
               <=> x \in {n \in N : Within(where[n], p, radius)}
  <2>1. ASSUME x \in Query(grid, where, p, radius)
        PROVE  x \in {n \in N : Within(where[n], p, radius)}
    <3>1. PICK e \in grid : x = e[2] /\ Within(where[e[2]], p, radius)
      BY <2>1 DEF Query
    <3> QED
      BY <1>2, <3>1
  <2>2. ASSUME x \in {n \in N : Within(where[n], p, radius)}
        PROVE  x \in Query(grid, where, p, radius)
    <3> DEFINE e == <<Key(where[x]), x>>
    <3>1. e \in grid /\ e[1] = Key(where[x]) /\ e[2] = x
      BY <1>3, <2>2
    <3>2. Near(e[1], p, radius) /\ Within(where[e[2]], p, radius)
      BY <1>1, <2>2, <3>1
    <3> HIDE DEF e
    <3> QED
      BY <3>1, <3>2 DEF Query
  <2> QED
    BY <2>1, <2>2
<1> QED
  BY <1>4

--------------------------------------------------------------------------------
(* What a creature meets and what becomes of it.                                *)

\* How much of at most one piece is counted.
LEMMA OneFacts ==
  ASSUME NEW condition
  PROVE  One(condition) \in {0, 1} /\ One(condition) \in Nat
         /\ (condition => One(condition) = 1) /\ (~condition => One(condition) = 0)
BY DEF One

\* Fields of the members of the record sets.
LEMMA ResourceFields ==
  ASSUME NEW r \in Resource
  PROVE  r.kind \in Kinds /\ r.at \in Points
BY DEF Resource

\* Fields of a creature.
LEMMA CreatureFields ==
  ASSUME NEW c \in Creature
  PROVE  /\ c.at \in Points /\ c.energy \in Int /\ c.hunger \in Int /\ c.thirst \in Int
         /\ c.age \in Nat /\ c.alive \in BOOLEAN /\ c.low \in BOOLEAN
BY DEF Creature

\* Fields of the counters are numbers.
LEMMA ReadingFields ==
  ASSUME NEW m \in Readings
  PROVE  /\ m.food \in Nat /\ m.water \in Nat /\ m.recoveries \in Nat
         /\ m.opportunities \in Nat /\ m.aliveFrames \in Nat /\ m.hydrated \in Nat
         /\ m.severe \in Nat /\ m.fireContacts \in Nat /\ m.fireDeaths \in Nat
         /\ m.born \in Nat /\ m.deaths \in Nat /\ m.founderSurvival \in Nat
         /\ m.offspringSurvival \in Nat /\ m.offspringPossible \in Nat
         /\ m.extinctFrame \in Int /\ m.early \in BOOLEAN
BY DEF Readings

\* The cells of a kind answer with the resources of that kind in reach.
LEMMA TouchedFacts ==
  ASSUME TypedResources, NEW k \in Kinds, NEW p \in Points
  PROVE  Touched(k, p) = {r \in OfKind(resources, k) :
                            Within(resources[r].at, p, Config.touch_distance)}
<1> DEFINE where == Places(resources)
<1>1. \A r \in DOMAIN resources : where[r] = resources[r].at /\ where[r] \in Points
  BY ResourceFields DEF TypedResources, Places
<1>2. OfKind(resources, k) \subseteq DOMAIN resources
  BY DEF OfKind
<1>3. index[k] = {<<Key(where[r]), r>> : r \in OfKind(resources, k)}
  BY <1>1, <1>2 DEF TypedResources, Grid
<1>4. \A r \in OfKind(resources, k) : where[r] \in Points
  BY <1>1, <1>2
<1> HIDE DEF where
<1>5. Query(index[k], where, p, Config.touch_distance)
        = {r \in OfKind(resources, k) : Within(where[r], p, Config.touch_distance)}
  BY <1>3, <1>4, ConfigFacts, QueryIsWalk
<1> QED
  BY <1>1, <1>2, <1>5 DEF Touched, where

\* Of food and of water at most one piece is taken, and it is one of the list.
LEMMA MetFacts ==
  ASSUME TypedResources, NEW p \in Points
  PROVE  /\ Met(p).burns \in BOOLEAN
         /\ Met(p).food = {} \/ \E r \in OfKind(resources, "food") : Met(p).food = {r}
         /\ Met(p).water = {} \/ \E r \in OfKind(resources, "water") : Met(p).water = {r}
<1>1. ASSUME NEW k \in Grown, Touched(k, p) # {}
      PROVE  Min(Touched(k, p)) \in OfKind(resources, k)
  <2>1. Touched(k, p) \subseteq OfKind(resources, k)
    BY TouchedFacts DEF Kinds, Grown
  <2>2. Touched(k, p) \in SUBSET Nat
    BY <2>1 DEF TypedResources, OfKind
  <2> QED
    BY <1>1, <2>1, <2>2, LeastOfNumbers
<1>2. /\ Touched("food", p) # {} => Min(Touched("food", p)) \in OfKind(resources, "food")
      /\ Touched("water", p) # {} => Min(Touched("water", p)) \in OfKind(resources, "water")
  BY <1>1 DEF Grown
<1> QED
  BY <1>2 DEF Met

\* A move ends inside the world.
LEMMA StepsFacts ==
  ASSUME NEW p \in Points, NEW q \in Points
  PROVE  Steps(p, q) \in Int
BY PointFacts DEF Steps

\* A creature that acts is a creature one frame older; it was saved from thirst if it
\* drank, and it is low again if it is thirsty all the same.
LEMMA AgedFacts ==
  ASSUME NEW old \in Creature, NEW p \in Points, NEW met
  PROVE  /\ Aged(old, p, met) \in Creature
         /\ Aged(old, p, met).age = old.age + 1
         /\ old.low /\ met.water = {} => Aged(old, p, met).low
<1> DEFINE ate == met.food # {}
           drank == met.water # {}
           paid == old.energy - Steps(old.at, p) * Config.movement_cost - Config.basal_cost
           burnt == paid - One(met.burns) * Config.fire_damage
           fed == IF ate THEN Min({Config.full_energy, burnt + Config.meal}) ELSE burnt
           hunger == (IF ate THEN 0 ELSE old.hunger) + Config.hunger_increment
           thirst == (IF drank THEN 0 ELSE old.thirst) + Config.thirst_increment
           starves == hunger > Config.limit \/ thirst > Config.limit
           energy == fed - One(starves) * Config.starvation_penalty
           low == (old.low /\ ~drank) \/ thirst >= Config.low_water
<1>1. /\ old.at \in Points /\ old.energy \in Int /\ old.hunger \in Int /\ old.thirst \in Int
      /\ old.age \in Nat /\ old.low \in BOOLEAN
  BY CreatureFields
<1>2. paid \in Int
  BY <1>1, StepsFacts, ConfigFacts
<1>3. burnt \in Int
  <2> HIDE DEF paid
  <2> QED
    BY <1>2, OneFacts, ConfigFacts
<1>4. fed \in Int
  <2> HIDE DEF burnt
  <2>1. Config.full_energy \in Int /\ burnt + Config.meal \in Int
    BY <1>3, ConfigFacts
  <2>2. Min({Config.full_energy, burnt + Config.meal}) \in Int
    BY <2>1, MinOfTwo
  <2> QED
    BY <1>3, <2>2
<1>5. hunger \in Int /\ thirst \in Int
  BY <1>1, ConfigFacts
<1>6. energy \in Int
  <2> HIDE DEF fed, starves
  <2> QED
    BY <1>4, OneFacts, ConfigFacts
<1>7. low \in BOOLEAN
  BY <1>1
<1>8. Aged(old, p, met)
        = [at |-> p, energy |-> energy, hunger |-> hunger, thirst |-> thirst,
           age |-> old.age + 1, alive |-> energy > 0, low |-> low]
  BY DEF Aged
<1>9. old.low /\ met.water = {} => low
  OBVIOUS
<1> HIDE DEF ate, drank, paid, burnt, fed, hunger, thirst, starves, energy, low
<1>10. (energy > 0) \in BOOLEAN
  OBVIOUS
<1> QED
  BY <1>1, <1>5, <1>6, <1>7, <1>8, <1>9, <1>10 DEF Creature

\* What is counted of an act.
LEMMA MeasuredFacts ==
  ASSUME metrics \in Readings, NEW c, NEW old \in Creature, NEW new \in Creature, NEW met
  PROVE  LET m == Measured(c, old, new, met)
         IN  /\ m \in Readings
             /\ m.food = metrics.food + One(met.food # {})
             /\ m.water = metrics.water + One(met.water # {})
             /\ m.recoveries = metrics.recoveries + One(met.water # {} /\ old.low)
             /\ m.opportunities
                  = metrics.opportunities + One(new.low /\ ~(old.low /\ met.water = {}))
             /\ m.aliveFrames = metrics.aliveFrames + 1
             /\ m.hydrated \in {metrics.hydrated, metrics.hydrated + 1}
             /\ m.severe \in {metrics.severe, metrics.severe + 1}
             /\ m.fireContacts = metrics.fireContacts + One(met.burns)
             /\ m.fireDeaths = metrics.fireDeaths + One(met.burns /\ ~new.alive)
             /\ m.born = metrics.born /\ m.deaths = metrics.deaths
             /\ m.founderSurvival = (IF c = 1 THEN new.age ELSE metrics.founderSurvival)
             /\ m.offspringSurvival = metrics.offspringSurvival + One(c # 1)
             /\ m.offspringPossible = metrics.offspringPossible
             /\ m.extinctFrame = metrics.extinctFrame
             /\ (m.early <=> metrics.early)
<1> DEFINE m == Measured(c, old, new, met)
<1>1. new.age \in Nat
  BY CreatureFields
<1>2. m \in Readings
  <2>1. \A n \in Nat : \A condition : n + One(condition) \in Nat
    BY OneFacts
  <2>2. PICK food \in Nat : food = metrics.food + One(met.food # {})
    BY <2>1, ReadingFields
  <2>3. PICK water \in Nat : water = metrics.water + One(met.water # {})
    BY <2>1, ReadingFields
  <2>4. PICK recoveries \in Nat :
          recoveries = metrics.recoveries + One(met.water # {} /\ old.low)
    BY <2>1, ReadingFields
  <2>5. PICK opportunities \in Nat :
          opportunities = metrics.opportunities + One(new.low /\ ~(old.low /\ met.water = {}))
    BY <2>1, ReadingFields
  <2>6. PICK aliveFrames \in Nat : aliveFrames = metrics.aliveFrames + 1
    BY ReadingFields
  <2>7. PICK hydrated \in Nat : hydrated = metrics.hydrated + One(old.thirst < Config.low_water)
    BY <2>1, ReadingFields
  <2>8. PICK severe \in Nat : severe = metrics.severe + One(old.thirst > Config.limit)
    BY <2>1, ReadingFields
  <2>9. PICK fireContacts \in Nat : fireContacts = metrics.fireContacts + One(met.burns)
    BY <2>1, ReadingFields
  <2>10. PICK fireDeaths \in Nat :
           fireDeaths = metrics.fireDeaths + One(met.burns /\ ~new.alive)
    BY <2>1, ReadingFields
  <2>11. PICK founderSurvival \in Nat :
           founderSurvival = IF c = 1 THEN new.age ELSE metrics.founderSurvival
    BY <1>1, ReadingFields
  <2>12. PICK offspringSurvival \in Nat :
           offspringSurvival = metrics.offspringSurvival + One(c # 1)
    BY <2>1, ReadingFields
  <2>13. m = [metrics EXCEPT
                !.food = food, !.water = water, !.recoveries = recoveries,
                !.opportunities = opportunities, !.aliveFrames = aliveFrames,
                !.hydrated = hydrated, !.severe = severe, !.fireContacts = fireContacts,
                !.fireDeaths = fireDeaths, !.founderSurvival = founderSurvival,
                !.offspringSurvival = offspringSurvival]
    BY <2>2, <2>3, <2>4, <2>5, <2>6, <2>7, <2>8, <2>9, <2>10, <2>11, <2>12 DEF Measured
  <2> HIDE DEF m
  <2> QED
    BY <2>13 DEF Readings
<1>3. m.food = metrics.food + One(met.food # {})
      /\ m.water = metrics.water + One(met.water # {})
  BY DEF Measured, Readings
<1>4. /\ m.recoveries = metrics.recoveries + One(met.water # {} /\ old.low)
      /\ m.opportunities
           = metrics.opportunities + One(new.low /\ ~(old.low /\ met.water = {}))
  BY DEF Measured, Readings
<1>5. m.aliveFrames = metrics.aliveFrames + 1
  BY DEF Measured, Readings
<1>6. /\ m.hydrated = metrics.hydrated + One(old.thirst < Config.low_water)
      /\ m.severe = metrics.severe + One(old.thirst > Config.limit)
  BY DEF Measured, Readings
<1>7. /\ m.hydrated \in {metrics.hydrated, metrics.hydrated + 1}
      /\ m.severe \in {metrics.severe, metrics.severe + 1}
  <2> HIDE DEF m
  <2> QED
    BY <1>6, ReadingFields, OneFacts
<1>8. /\ m.fireContacts = metrics.fireContacts + One(met.burns)
      /\ m.fireDeaths = metrics.fireDeaths + One(met.burns /\ ~new.alive)
  BY DEF Measured, Readings
<1>9. m.born = metrics.born /\ m.deaths = metrics.deaths
  BY DEF Measured, Readings
<1>10. /\ m.founderSurvival = (IF c = 1 THEN new.age ELSE metrics.founderSurvival)
       /\ m.offspringSurvival = metrics.offspringSurvival + One(c # 1)
  BY DEF Measured, Readings
<1>11. m.offspringPossible = metrics.offspringPossible
  BY DEF Measured, Readings
<1>12. m.extinctFrame = metrics.extinctFrame /\ (m.early <=> metrics.early)
  BY DEF Measured, Readings
<1> HIDE DEF m
<1>13. /\ m \in Readings
       /\ m.food = metrics.food + One(met.food # {})
       /\ m.water = metrics.water + One(met.water # {})
       /\ m.recoveries = metrics.recoveries + One(met.water # {} /\ old.low)
       /\ m.opportunities
            = metrics.opportunities + One(new.low /\ ~(old.low /\ met.water = {}))
       /\ m.aliveFrames = metrics.aliveFrames + 1
       /\ m.hydrated \in {metrics.hydrated, metrics.hydrated + 1}
       /\ m.severe \in {metrics.severe, metrics.severe + 1}
       /\ m.fireContacts = metrics.fireContacts + One(met.burns)
       /\ m.fireDeaths = metrics.fireDeaths + One(met.burns /\ ~new.alive)
       /\ m.born = metrics.born /\ m.deaths = metrics.deaths
       /\ m.founderSurvival = (IF c = 1 THEN new.age ELSE metrics.founderSurvival)
       /\ m.offspringSurvival = metrics.offspringSurvival + One(c # 1)
       /\ m.offspringPossible = metrics.offspringPossible
       /\ m.extinctFrame = metrics.extinctFrame
       /\ (m.early <=> metrics.early)
  BY <1>2, <1>3, <1>4, <1>5, <1>7, <1>8, <1>9, <1>10, <1>11, <1>12
<1> QED
  BY <1>13 DEF m

--------------------------------------------------------------------------------
(* An act.                                                                      *)

\* What is taken from the list leaves the cells too.
LEMMA DiscardKeeps ==
  ASSUME TypedResources, NEW taken \in SUBSET DOMAIN resources, Discard(taken),
         UNCHANGED <<nextResource, accumulator>>
  PROVE  /\ TypedResources'
         /\ DOMAIN resources' = DOMAIN resources \ taken
         /\ \A k \in Kinds : OfKind(resources, k)' = OfKind(resources, k) \ taken
<1>1. /\ DOMAIN resources' = DOMAIN resources \ taken
      /\ \A r \in DOMAIN resources' : resources'[r] = resources[r]
      /\ resources' = [r \in DOMAIN resources' |-> resources'[r]]
  BY DEF Discard
<1>2. \A k \in Kinds : OfKind(resources, k)' = OfKind(resources, k) \ taken
  BY <1>1 DEF OfKind
<1>3. resources' \in [DOMAIN resources' -> Resource]
  BY <1>1 DEF TypedResources
<1>4. ASSUME NEW k \in Kinds
      PROVE  index'[k] = Grid(k)'
  <2>1. index'[k] = Grid(k) \ {<<Key(resources[r].at), r>> : r \in taken}
    BY DEF Discard, TypedResources
  <2>2. Grid(k)' = {<<Key(resources[r].at), r>> : r \in OfKind(resources, k) \ taken}
    <3>1. Grid(k)' = {<<Key(resources'[r].at), r>> : r \in OfKind(resources, k)'}
      BY DEF Grid, Key
    <3>2. \A r \in OfKind(resources, k) \ taken : resources'[r] = resources[r]
      BY <1>1 DEF OfKind
    <3> QED
      BY <1>2, <3>1, <3>2
  <2>3. Grid(k) \ {<<Key(resources[r].at), r>> : r \in taken}
          = {<<Key(resources[r].at), r>> : r \in OfKind(resources, k) \ taken}
    BY DEF Grid
  <2> QED
    BY <2>1, <2>2, <2>3
<1>5. index' = [k \in Kinds |-> index'[k]]
  BY DEF Discard
<1>6. index' = [k \in Kinds |-> Grid(k)']
  BY <1>4, <1>5
<1>7. DOMAIN resources' \subseteq 1 .. nextResource' - 1 /\ nextResource' \in Nat \ {0}
      /\ accumulator' \in [Grown -> Nat]
  BY <1>1 DEF TypedResources
<1>8. TypedResources'
  BY <1>3, <1>6, <1>7 DEF TypedResources
<1> QED
  BY <1>1, <1>2, <1>8

\* An act changes one creature: it gets older, and dies or not, is low on water or not.
LEMMA ActFacts ==
  ASSUME Typed, NEW c \in DOMAIN creatures, NEW p \in Points, Act(c, p),
         NEW old, old = creatures[c], NEW new, new = Aged(creatures[c], p, Met(p))
  PROVE  /\ old \in Creature /\ new \in Creature /\ old.alive
         /\ c \in Alive /\ c \in DOMAIN decisions /\ c \notin Dead
         /\ creatures' \in [DOMAIN creatures -> Creature]
         /\ DOMAIN creatures' = DOMAIN creatures
         /\ creatures'[c] = new
         /\ \A d \in DOMAIN creatures : d # c => creatures'[d] = creatures[d]
         /\ Alive' = IF new.alive THEN Alive ELSE Alive \ {c}
         /\ Dead' = IF new.alive THEN Dead ELSE Dead \union {c}
         /\ Low' = IF new.low THEN Low \union {c} ELSE Low \ {c}
         /\ c \in Low <=> old.low
         /\ new.age = old.age + 1
         /\ old.low /\ Met(p).water = {} => new.low
<1>1. creatures \in [DOMAIN creatures -> Creature] /\ DOMAIN decisions \subseteq Alive
  BY DEF Typed, TypedCreatures, TypedDecisions
<1>2. c \in DOMAIN decisions /\ creatures' = [creatures EXCEPT ![c] = new]
  BY DEF Act
<1>3. old \in Creature
  BY <1>1
<1>4. new \in Creature /\ new.age = old.age + 1 /\ (old.low /\ Met(p).water = {} => new.low)
  BY <1>3, AgedFacts
<1>5. c \in Alive /\ old.alive
  BY <1>1, <1>2 DEF Alive
<1>6. /\ creatures' \in [DOMAIN creatures -> Creature]
      /\ DOMAIN creatures' = DOMAIN creatures
      /\ creatures'[c] = new
      /\ \A d \in DOMAIN creatures : d # c => creatures'[d] = creatures[d]
  BY <1>1, <1>2, <1>4
<1>7. Alive' = IF new.alive THEN Alive ELSE Alive \ {c}
  BY <1>5, <1>6 DEF Alive
<1>8. Dead' = IF new.alive THEN Dead ELSE Dead \union {c}
  BY <1>5, <1>6, <1>7 DEF Dead
<1>9. Low' = IF new.low THEN Low \union {c} ELSE Low \ {c}
  BY <1>6 DEF Low
<1>10. c \in Low <=> old.low
  BY DEF Low
<1>11. c \notin Dead
  BY <1>5 DEF Dead
<1> QED
  BY <1>2, <1>3, <1>4, <1>5, <1>6, <1>7, <1>8, <1>9, <1>10, <1>11

\* A set of at most one element.
LEMMA AtMostOne ==
  ASSUME NEW T, T = {} \/ \E x : T = {x}
  PROVE  IsFiniteSet(T) /\ Cardinality(T) = One(T # {})
<1>1. CASE T = {}
  BY <1>1, FS_EmptySet, OneFacts
<1>2. CASE T # {}
  <2>1. PICK x : T = {x}
    BY <1>2
  <2>2. IsFiniteSet(T) /\ Cardinality(T) = 1
    BY <2>1, FS_Singleton
  <2>3. One(T # {}) = 1
    BY <1>2, OneFacts
  <2> QED
    BY <2>2, <2>3
<1> QED
  BY <1>1, <1>2

\* The pieces that an act takes.
LEMMA TakenFacts ==
  ASSUME TypedResources, NEW p \in Points
  PROVE  /\ Met(p).food \in SUBSET OfKind(resources, "food")
         /\ Met(p).water \in SUBSET OfKind(resources, "water")
         /\ Met(p).food \intersect Met(p).water = {}
         /\ Met(p).food \union Met(p).water \in SUBSET DOMAIN resources
         /\ IsFiniteSet(Met(p).food) /\ Cardinality(Met(p).food) = One(Met(p).food # {})
         /\ IsFiniteSet(Met(p).water) /\ Cardinality(Met(p).water) = One(Met(p).water # {})
<1>1. /\ Met(p).food \in SUBSET OfKind(resources, "food")
      /\ Met(p).water \in SUBSET OfKind(resources, "water")
  BY MetFacts
<1>2. OfKind(resources, "food") \intersect OfKind(resources, "water") = {}
  BY DEF OfKind
<1>3. OfKind(resources, "food") \in SUBSET DOMAIN resources
      /\ OfKind(resources, "water") \in SUBSET DOMAIN resources
  BY DEF OfKind
<1>4. IsFiniteSet(Met(p).food) /\ Cardinality(Met(p).food) = One(Met(p).food # {})
  BY MetFacts, AtMostOne
<1>5. IsFiniteSet(Met(p).water) /\ Cardinality(Met(p).water) = One(Met(p).water # {})
  BY MetFacts, AtMostOne
<1> QED
  BY <1>1, <1>2, <1>3, <1>4, <1>5

\* An act keeps the types, and the grid of resources exact.
LEMMA ActTyped ==
  ASSUME Typed, NEW c \in DOMAIN creatures, NEW p \in Points, Act(c, p)
  PROVE  Typed'
<1> DEFINE old == creatures[c]
           new == Aged(creatures[c], p, Met(p))
           taken == Met(p).food \union Met(p).water
<1> HIDE DEF old, new, taken
<1>1. /\ old \in Creature /\ new \in Creature
      /\ creatures' \in [DOMAIN creatures -> Creature] /\ DOMAIN creatures' = DOMAIN creatures
      /\ c \in DOMAIN decisions
      /\ Alive' = IF new.alive THEN Alive ELSE Alive \ {c}
  BY ActFacts DEF old, new
<1>2. TypedCreatures'
  BY <1>1 DEF Typed, TypedCreatures, Act
<1>3. TypedResources'
  <2>1. Discard(taken) /\ UNCHANGED <<nextResource, accumulator>>
    BY DEF Act, taken
  <2>2. taken \in SUBSET DOMAIN resources
    BY TakenFacts DEF Typed, taken
  <2> QED
    BY <2>1, <2>2, DiscardKeeps DEF Typed
<1>4. TypedControl'
  <2>1. metrics' = Measured(c, old, new, Met(p))
    BY DEF Act, old, new
  <2>2. metrics' \in Readings
    BY <1>1, <2>1, MeasuredFacts DEF Typed, TypedControl
  <2>3. pc = "act" /\ pc' \in {"act", "settle"} /\ UNCHANGED <<profile, frame, peak>>
    BY DEF Act
  <2> QED
    BY <2>2, <2>3 DEF Typed, TypedControl, Acting
<1>5. TypedDecisions'
  <2>1. decisions' = [d \in DOMAIN decisions \ {c} |-> decisions[d]]
    BY DEF Act
  <2>2. DOMAIN decisions' = DOMAIN decisions \ {c}
        /\ decisions' = [d \in DOMAIN decisions' |-> decisions'[d]]
    BY <2>1
  <2>3. DOMAIN decisions' \subseteq Alive'
    BY <1>1, <2>2 DEF Typed, TypedDecisions
  <2>4. pc = "act" /\ pc' = IF DOMAIN decisions = {c} THEN "settle" ELSE "act"
    BY DEF Act
  <2>5. pc' = "act" <=> DOMAIN decisions' # {}
    BY <1>1, <2>2, <2>4
  <2>6. Acting' /\ pc' # "extinction" /\ DOMAIN creatures' # {}
    BY <1>1, <2>4 DEF Acting
  <2> QED
    BY <2>2, <2>3, <2>5, <2>6 DEF TypedDecisions
<1> QED
  BY <1>2, <1>3, <1>4, <1>5 DEF Typed

\* The sets of creatures and resources are finite.
LEMMA FiniteWorld ==
  ASSUME Typed
  PROVE  /\ IsFiniteSet(DOMAIN creatures) /\ IsFiniteSet(DOMAIN resources)
         /\ IsFiniteSet(Alive) /\ IsFiniteSet(Dead) /\ IsFiniteSet(Low)
         /\ IsFiniteSet(DOMAIN decisions)
         /\ \A k : IsFiniteSet(OfKind(resources, k))
         /\ Alive \subseteq DOMAIN creatures
<1>1. IsFiniteSet(1 .. nextCreature - 1) /\ IsFiniteSet(1 .. nextResource - 1)
  BY FS_Interval DEF Typed, TypedCreatures, TypedResources
<1>2. IsFiniteSet(DOMAIN creatures) /\ IsFiniteSet(DOMAIN resources)
  BY <1>1, SizeFacts DEF Typed, TypedCreatures, TypedResources
<1>3. Alive \in SUBSET DOMAIN creatures /\ Dead \in SUBSET DOMAIN creatures
      /\ Low \in SUBSET DOMAIN creatures /\ DOMAIN decisions \in SUBSET DOMAIN creatures
  BY DEF Alive, Dead, Low, Typed, TypedDecisions
<1>4. \A k : OfKind(resources, k) \in SUBSET DOMAIN resources
  BY DEF OfKind
<1> QED
  BY <1>2, <1>3, <1>4, SizeFacts

\* An act keeps the books: what it takes was there and is gone, who dies is booked once.
LEMMA ActBooked ==
  ASSUME Typed, Booked, NEW c \in DOMAIN creatures, NEW p \in Points, Act(c, p)
  PROVE  Booked'
<1> DEFINE old == creatures[c]
           new == Aged(creatures[c], p, Met(p))
           met == Met(p)
           taken == met.food \union met.water
<1> HIDE DEF old, new, met, taken
<1>1. old \in Creature /\ new \in Creature /\ DOMAIN creatures' = DOMAIN creatures
  BY ActFacts DEF old, new
<1>2. metrics' = Measured(c, old, new, met)
  BY DEF Act, old, new, met
<1>3. /\ metrics'.food = metrics.food + One(met.food # {})
      /\ metrics'.water = metrics.water + One(met.water # {})
      /\ metrics'.born = metrics.born /\ metrics'.deaths = metrics.deaths
  BY <1>1, <1>2, MeasuredFacts DEF Typed, TypedControl
<1>4. taken \in SUBSET DOMAIN resources
      /\ Cardinality(taken) = One(met.food # {}) + One(met.water # {})
  BY TakenFacts, DisjointSizes DEF Typed, taken, met
<1>5. DOMAIN resources' = DOMAIN resources \ taken
      /\ \A k \in Kinds : OfKind(resources, k)' = OfKind(resources, k) \ taken
  <2>1. Discard(taken) /\ UNCHANGED <<nextResource, accumulator>>
    BY DEF Act, taken, met
  <2> QED
    BY <1>4, <2>1, DiscardKeeps DEF Typed
<1>6. BookedResources'
  <2>1. Cardinality(DOMAIN resources')
          = Cardinality(DOMAIN resources) - (One(met.food # {}) + One(met.water # {}))
    BY <1>4, <1>5, TakenSizes, FiniteWorld
  <2>2. Cardinality(DOMAIN resources) \in Nat /\ metrics.food \in Nat /\ metrics.water \in Nat
        /\ One(met.food # {}) \in Nat /\ One(met.water # {}) \in Nat
    BY FiniteWorld, FS_CardinalityType, ReadingFields, OneFacts DEF Typed, TypedControl
  <2>3. nextResource' = nextResource
    BY DEF Act
  <2>4. nextResource' - 1 = Cardinality(DOMAIN resources') + metrics'.food + metrics'.water
    BY <1>3, <2>1, <2>2, <2>3 DEF Booked, BookedResources
  <2>5. ASSUME NEW k \in Grown
        PROVE  Cardinality(OfKind(resources, k)') <= Capacity(k)
    <3>1. OfKind(resources, k)' \in SUBSET OfKind(resources, k)
      BY <1>5 DEF Grown, Kinds
    <3>2. /\ Cardinality(OfKind(resources, k)') <= Cardinality(OfKind(resources, k))
          /\ Cardinality(OfKind(resources, k)') \in Nat
          /\ Cardinality(OfKind(resources, k)) \in Nat
      BY <3>1, FiniteWorld, SizeFacts
    <3>3. Cardinality(OfKind(resources, k)) <= Capacity(k) /\ Capacity(k) \in Nat
      BY ConfigFacts DEF Booked, BookedResources, Capacity
    <3> QED
      BY <3>2, <3>3
  <2> QED
    BY <2>4, <2>5 DEF BookedResources, Capacity
<1>7. BookedCreatures'
  BY <1>1, <1>3 DEF Booked, BookedCreatures, Act
<1> QED
  BY <1>6, <1>7 DEF Booked

\* An act keeps every counter within what the rest of the frame may still add.
LEMMA ActCounted ==
  ASSUME Typed, Counted, NEW c \in DOMAIN creatures, NEW p \in Points, Act(c, p)
  PROVE  Counted'
<1> DEFINE old == creatures[c]
           new == Aged(creatures[c], p, Met(p))
           met == Met(p)
           m == metrics
           n == metrics'
<1> HIDE DEF old, new, met
<1>1. /\ old \in Creature /\ new \in Creature
      /\ c \in DOMAIN decisions /\ c \notin Dead
      /\ DOMAIN creatures' = DOMAIN creatures
      /\ creatures'[c] = new
      /\ \A d \in DOMAIN creatures : d # c => creatures'[d] = creatures[d]
      /\ Dead' = IF new.alive THEN Dead ELSE Dead \union {c}
      /\ Low' = IF new.low THEN Low \union {c} ELSE Low \ {c}
      /\ c \in Low <=> old.low
      /\ new.age = old.age + 1
      /\ old.low /\ met.water = {} => new.low
  BY ActFacts DEF old, new, met
<1>2. n = Measured(c, old, new, met)
  BY DEF Act, old, new, met
<1>3. m \in Readings
  BY DEF Typed, TypedControl
<1>4. /\ n \in Readings
      /\ n.recoveries = m.recoveries + One(met.water # {} /\ old.low)
      /\ n.opportunities = m.opportunities + One(new.low /\ ~(old.low /\ met.water = {}))
      /\ n.aliveFrames = m.aliveFrames + 1
      /\ n.hydrated \in {m.hydrated, m.hydrated + 1}
      /\ n.severe \in {m.severe, m.severe + 1}
      /\ n.fireContacts = m.fireContacts + One(met.burns)
      /\ n.fireDeaths = m.fireDeaths + One(met.burns /\ ~new.alive)
      /\ n.deaths = m.deaths
      /\ n.founderSurvival = (IF c = 1 THEN new.age ELSE m.founderSurvival)
      /\ n.offspringSurvival = m.offspringSurvival + One(c # 1)
      /\ n.offspringPossible = m.offspringPossible
      /\ n.extinctFrame = m.extinctFrame
      /\ (n.early <=> m.early)
  BY <1>1, <1>2, <1>3, MeasuredFacts
<1>5. DOMAIN decisions' = DOMAIN decisions \ {c} /\ frame' = frame /\ peak' = peak
      /\ pc = "act" /\ pc' \in {"act", "settle"}
  BY DEF Act
<1>6. One(Acting) = 1 /\ One(Acting') = 1
  <2>1. Acting /\ Acting'
    BY <1>5 DEF Acting
  <2> QED
    BY <2>1, OneFacts
<1>7. frame \in Nat /\ Config.lineage_cap \in Nat
  BY ConfigFacts DEF Typed, TypedControl
<1>8. /\ m.recoveries \in Nat /\ m.opportunities \in Nat /\ m.aliveFrames \in Nat
      /\ m.hydrated \in Nat /\ m.severe \in Nat /\ m.fireContacts \in Nat
      /\ m.fireDeaths \in Nat /\ m.deaths \in Nat /\ m.founderSurvival \in Nat
      /\ m.offspringSurvival \in Nat /\ m.offspringPossible \in Nat
  BY <1>3, ReadingFields
<1>9. Cardinality(DOMAIN creatures') <= peak' /\ peak' <= Config.lineage_cap
  BY <1>1, <1>5 DEF Counted
<1>10. ASSUME NEW d \in DOMAIN creatures'
       PROVE  creatures'[d].age + One(d \in DOMAIN decisions') <= frame' + One(Acting')
  <2>1. creatures[d].age + One(d \in DOMAIN decisions) <= frame + 1
    BY <1>1, <1>6 DEF Counted
  <2>2. CASE d = c
    <3>1. One(d \in DOMAIN decisions) = 1 /\ One(d \in DOMAIN decisions') = 0
      BY <1>1, <1>5, <2>2, OneFacts
    <3>2. creatures'[d].age = creatures[d].age + 1 /\ creatures[d].age \in Nat
      BY <1>1, <2>2, CreatureFields DEF old
    <3>3. creatures[d].age + 1 <= frame + 1
      BY <2>1, <3>1
    <3> QED
      BY <1>5, <1>6, <1>7, <3>1, <3>2, <3>3
  <2>3. CASE d # c
    <3>1. creatures'[d] = creatures[d] /\ (d \in DOMAIN decisions' <=> d \in DOMAIN decisions)
      BY <1>1, <1>5, <2>3
    <3>2. One(d \in DOMAIN decisions') = One(d \in DOMAIN decisions)
      BY <3>1 DEF One
    <3> QED
      BY <1>5, <1>6, <2>1, <3>1, <3>2
  <2> QED
    BY <2>2, <2>3
<1>11. n.founderSurvival <= frame' + One(Acting')
  <2>1. old.age + 1 <= frame + 1
    BY <1>1, <1>6, OneFacts DEF Counted, old
  <2>2. m.founderSurvival <= frame + 1
    BY <1>6 DEF Counted
  <2> QED
    BY <1>1, <1>4, <1>5, <1>6, <2>1, <2>2
<1>12. n.fireContacts <= n.aliveFrames
  <2>1. One(met.burns) \in {0, 1}
    BY OneFacts
  <2> QED
    BY <1>4, <1>8, <2>1 DEF Counted
<1>13. n.hydrated <= n.aliveFrames
  BY <1>4, <1>8 DEF Counted
<1>14. n.severe <= n.aliveFrames
  BY <1>4, <1>8 DEF Counted
<1>15. n.offspringSurvival <= n.aliveFrames
  <2>1. One(c # 1) \in {0, 1}
    BY OneFacts
  <2> QED
    BY <1>4, <1>8, <2>1 DEF Counted
<1>16. n.recoveries + Cardinality(Low') <= n.opportunities
  <2>1. m.recoveries + Cardinality(Low) <= m.opportunities
    BY DEF Counted
  <2>2. IsFiniteSet(Low) /\ Cardinality(Low) \in Nat
    BY FiniteWorld, FS_CardinalityType
  <2>3. CASE old.low /\ new.low
    <3>1. Cardinality(Low') = Cardinality(Low)
      BY <1>1, <2>2, <2>3, FS_AddElement
    <3>2. One(met.water # {} /\ old.low) = One(new.low /\ ~(old.low /\ met.water = {}))
      BY <2>3 DEF One
    <3> QED
      BY <1>4, <1>8, <2>1, <2>2, <3>1, <3>2, OneFacts
  <2>4. CASE old.low /\ ~new.low
    <3>1. Cardinality(Low') = Cardinality(Low) - 1
      BY <1>1, <2>2, <2>4, FS_RemoveElement
    <3>2. One(met.water # {} /\ old.low) = 1
          /\ One(new.low /\ ~(old.low /\ met.water = {})) = 0
      BY <1>1, <2>4, OneFacts
    <3> QED
      BY <1>4, <1>8, <2>1, <2>2, <3>1, <3>2
  <2>5. CASE ~old.low /\ new.low
    <3>1. Cardinality(Low') = Cardinality(Low) + 1
      BY <1>1, <2>2, <2>5, FS_AddElement
    <3>2. One(met.water # {} /\ old.low) = 0
          /\ One(new.low /\ ~(old.low /\ met.water = {})) = 1
      BY <2>5, OneFacts
    <3> QED
      BY <1>4, <1>8, <2>1, <2>2, <3>1, <3>2
  <2>6. CASE ~old.low /\ ~new.low
    <3>1. Cardinality(Low') = Cardinality(Low)
      BY <1>1, <2>2, <2>6, FS_RemoveElement
    <3>2. One(met.water # {} /\ old.low) = 0
          /\ One(new.low /\ ~(old.low /\ met.water = {})) = 0
      BY <2>6, OneFacts
    <3> QED
      BY <1>4, <1>8, <2>1, <2>2, <3>1, <3>2
  <2> QED
    BY <2>3, <2>4, <2>5, <2>6
<1>17. n.aliveFrames + Cardinality(DOMAIN decisions') <= (frame' + One(Acting')) * Config.lineage_cap
  <2>1. Cardinality(DOMAIN decisions') = Cardinality(DOMAIN decisions) - 1
        /\ Cardinality(DOMAIN decisions) \in Nat
    BY <1>1, <1>5, FiniteWorld, FS_RemoveElement, FS_CardinalityType
  <2>2. PICK room \in Int : room = (frame + One(Acting)) * Config.lineage_cap
    <3>1. \A a, b \in Int : a * b \in Int
      OBVIOUS
    <3>2. frame + One(Acting) \in Int /\ Config.lineage_cap \in Int
      BY <1>6, <1>7
    <3>3. (frame + One(Acting)) * Config.lineage_cap \in Int
      BY <3>1, <3>2
    <3> QED
      BY <3>3
  <2>3. room = (frame' + One(Acting')) * Config.lineage_cap
    BY <1>5, <1>6, <2>2
  <2>4. m.aliveFrames + Cardinality(DOMAIN decisions) <= room
    BY <2>2 DEF Counted
  <2> QED
    BY <1>4, <1>8, <2>1, <2>3, <2>4
<1>18. n.offspringSurvival + Cardinality(DOMAIN decisions' \ {1}) <= n.offspringPossible
  <2>1. m.offspringSurvival + Cardinality(DOMAIN decisions \ {1}) <= m.offspringPossible
    BY DEF Counted
  <2>2. IsFiniteSet(DOMAIN decisions \ {1}) /\ Cardinality(DOMAIN decisions \ {1}) \in Nat
    BY FiniteWorld, FS_RemoveElement, FS_CardinalityType
  <2>3. CASE c = 1
    <3>1. DOMAIN decisions' \ {1} = DOMAIN decisions \ {1} /\ One(c # 1) = 0
      BY <1>5, <2>3, OneFacts
    <3> QED
      BY <1>4, <1>8, <2>1, <2>2, <3>1
  <2>4. CASE c # 1
    <3>1. DOMAIN decisions' \ {1} = (DOMAIN decisions \ {1}) \ {c} /\ One(c # 1) = 1
          /\ c \in DOMAIN decisions \ {1}
      BY <1>1, <1>5, <2>4, OneFacts
    <3>2. Cardinality(DOMAIN decisions' \ {1}) = Cardinality(DOMAIN decisions \ {1}) - 1
      BY <2>2, <3>1, FS_RemoveElement
    <3> QED
      BY <1>4, <1>8, <2>1, <2>2, <3>1, <3>2
  <2> QED
    BY <2>3, <2>4
<1>19. n.fireDeaths <= n.deaths + Cardinality(Dead')
  <2>1. m.fireDeaths <= m.deaths + Cardinality(Dead)
    BY DEF Counted
  <2>2. IsFiniteSet(Dead) /\ Cardinality(Dead) \in Nat
    BY FiniteWorld, FS_CardinalityType
  <2>3. CASE new.alive
    <3>1. One(met.burns /\ ~new.alive) = 0 /\ Dead' = Dead
      BY <1>1, <2>3, OneFacts
    <3> QED
      BY <1>4, <1>8, <2>1, <2>2, <3>1
  <2>4. CASE ~new.alive
    <3>1. One(met.burns /\ ~new.alive) \in {0, 1} /\ Dead' = Dead \union {c}
      BY <1>1, <2>4, OneFacts
    <3>2. Cardinality(Dead') = Cardinality(Dead) + 1
      BY <1>1, <2>2, <3>1, FS_AddElement
    <3> QED
      BY <1>4, <1>8, <2>1, <2>2, <3>1, <3>2
  <2> QED
    BY <2>3, <2>4
<1>20. /\ n.extinctFrame \in {-1} \union 0 .. frame'
       /\ n.extinctFrame # -1 <=> pc' = "extinction"
       /\ n.early => pc' = "extinction"
  BY <1>4, <1>5 DEF Counted
<1> HIDE DEF m
<1> QED
  BY <1>9, <1>10, <1>11, <1>12, <1>13, <1>14, <1>15, <1>16, <1>17, <1>18, <1>19, <1>20
  DEF Counted

\* An act leaves what the others have sensed.
LEMMA ActSensed ==
  ASSUME Typed, NEW c \in DOMAIN creatures, NEW p \in Points, Act(c, p)
  PROVE  Sensed'
<1>1. c \in DOMAIN creatures' /\ c \notin DOMAIN decisions'
  BY ActFacts DEF Act
<1>2. ~FirstActs'
  BY <1>1 DEF FirstActs
<1> QED
  BY <1>2 DEF Sensed

--------------------------------------------------------------------------------
(* The begin of a frame.                                                        *)

\* The begin of a frame keeps the invariant: the new grid of creatures is exact when it is read.
LEMMA BeginFrameKeeps ==
  ASSUME WorldInv, BeginFrame
  PROVE  WorldInv'
<1> DEFINE m == metrics
           n == metrics'
           grid == Build(Positions)
<1>1. Typed /\ Booked /\ Counted
  BY DEF WorldInv
<1>2. /\ pc = "sense" /\ pc' = "act" /\ frame < Config.max_frames
      /\ UNCHANGED <<profile, frame, creatures, resources, index, nextCreature, nextResource,
                     accumulator, peak>>
      /\ decisions' = [c \in Alive |-> Inputs(c, grid)]
      /\ n = [m EXCEPT !.offspringPossible = @ + m.born]
  BY DEF BeginFrame, Sense, SenseWith
<1>3. m \in Readings
  BY <1>1 DEF Typed, TypedControl
<1>4. n \in Readings
  <2>1. PICK possible \in Nat : possible = m.offspringPossible + m.born
    BY <1>3, ReadingFields
  <2>2. n = [m EXCEPT !.offspringPossible = possible]
    BY <1>2, <2>1
  <2> HIDE DEF m, n
  <2> QED
    BY <1>3, <2>2 DEF Readings
<1>5. /\ n.offspringPossible = m.offspringPossible + m.born
      /\ n.food = m.food /\ n.water = m.water /\ n.recoveries = m.recoveries
      /\ n.opportunities = m.opportunities /\ n.aliveFrames = m.aliveFrames
      /\ n.hydrated = m.hydrated /\ n.severe = m.severe /\ n.fireContacts = m.fireContacts
      /\ n.fireDeaths = m.fireDeaths /\ n.born = m.born /\ n.deaths = m.deaths
      /\ n.founderSurvival = m.founderSurvival
      /\ n.offspringSurvival = m.offspringSurvival
      /\ n.extinctFrame = m.extinctFrame /\ (n.early <=> m.early)
  <2> HIDE DEF grid
  <2> QED
    BY <1>2, <1>3 DEF Readings
<1>6. Alive' = Alive /\ Dead' = Dead /\ Low' = Low /\ DOMAIN decisions' = Alive
  BY <1>2 DEF Alive, Dead, Low
<1>7. Dead = {} /\ Alive = DOMAIN creatures /\ DOMAIN creatures # {}
      /\ DOMAIN decisions = {} /\ ~Acting /\ Acting'
  <2>1. ~Acting /\ Acting' /\ pc # "act" /\ pc # "extinction"
    BY <1>2 DEF Acting
  <2>2. Dead = {} /\ DOMAIN creatures # {} /\ DOMAIN decisions = {}
    BY <1>1, <2>1 DEF Typed, TypedDecisions
  <2> QED
    BY <2>1, <2>2 DEF Dead, Alive
<1>8. One(Acting) = 0 /\ One(Acting') = 1
  BY <1>7, OneFacts
<1>9. Typed'
  <2>1. TypedCreatures'
    BY <1>1, <1>2 DEF Typed, TypedCreatures
  <2>2. TypedResources'
    BY <1>1, <1>2 DEF Typed, TypedResources, Grid, OfKind, Key
  <2>3. TypedControl'
    BY <1>1, <1>2, <1>4 DEF Typed, TypedControl
  <2>4. decisions' = [c \in DOMAIN decisions' |-> decisions'[c]]
    BY <1>2
  <2>5. TypedDecisions'
    BY <1>2, <1>6, <1>7, <2>4 DEF TypedDecisions
  <2> QED
    BY <2>1, <2>2, <2>3, <2>5 DEF Typed
<1>10. Booked'
  BY <1>1, <1>2, <1>5 DEF Booked, BookedResources, BookedCreatures, OfKind, Capacity
<1>11. Counted'
  <2>1. /\ m.recoveries \in Nat /\ m.opportunities \in Nat /\ m.aliveFrames \in Nat
        /\ m.fireDeaths \in Nat /\ m.deaths \in Nat /\ m.founderSurvival \in Nat
        /\ m.offspringSurvival \in Nat /\ m.offspringPossible \in Nat /\ m.born \in Nat
        /\ frame \in Nat /\ Config.lineage_cap \in Nat /\ peak \in Nat
    BY <1>1, <1>3, ReadingFields, ConfigFacts DEF Typed, TypedControl
  <2>2. Cardinality(DOMAIN creatures) \in Nat /\ Cardinality(DOMAIN creatures) <= Config.lineage_cap
    BY <1>1, <2>1, FiniteWorld, FS_CardinalityType DEF Counted
  <2>3. ASSUME NEW c \in DOMAIN creatures'
        PROVE  creatures'[c].age + One(c \in DOMAIN decisions') <= frame' + One(Acting')
    <3>1. creatures[c].age + One(c \in DOMAIN decisions) <= frame + 0
      BY <1>1, <1>2, <1>8 DEF Counted
    <3>2. One(c \in DOMAIN decisions) \in Nat /\ One(c \in DOMAIN decisions') \in {0, 1}
      BY OneFacts
    <3>3. creatures[c].age \in Nat
      BY <1>1, <1>2, CreatureFields DEF Typed, TypedCreatures
    <3>4. creatures[c].age <= frame
      BY <2>1, <3>1, <3>2, <3>3
    <3> QED
      BY <1>2, <1>8, <2>1, <3>2, <3>3, <3>4
  <2>4. n.founderSurvival <= frame' + One(Acting')
    <3>1. m.founderSurvival <= frame + 0
      BY <1>1, <1>8 DEF Counted
    <3> QED
      BY <1>2, <1>5, <1>8, <2>1, <3>1
  <2>5. n.aliveFrames + Cardinality(DOMAIN decisions') <= (frame' + One(Acting')) * Config.lineage_cap
    <3>1. m.aliveFrames + 0 <= (frame + 0) * Config.lineage_cap
      BY <1>1, <1>7, <1>8, FS_EmptySet DEF Counted
    <3>2. (frame + 1) * Config.lineage_cap = frame * Config.lineage_cap + Config.lineage_cap
          /\ frame * Config.lineage_cap \in Int
      BY <2>1
    <3>3. m.aliveFrames <= frame * Config.lineage_cap
      BY <2>1, <3>1
    <3>4. m.aliveFrames + Cardinality(DOMAIN creatures) <= (frame + 1) * Config.lineage_cap
      BY <2>1, <2>2, <3>2, <3>3
    <3> QED
      BY <1>2, <1>5, <1>6, <1>7, <1>8, <3>4
  <2>6. n.offspringSurvival + Cardinality(DOMAIN decisions' \ {1}) <= n.offspringPossible
    <3>1. m.offspringSurvival + 0 <= m.offspringPossible
      <4>1. DOMAIN decisions \ {1} = {}
        BY <1>7
      <4> QED
        BY <1>1, <4>1, FS_EmptySet DEF Counted
    <3>2. DOMAIN creatures \ {1} \in SUBSET (2 .. nextCreature - 1)
      BY <1>1 DEF Typed, TypedCreatures
    <3>3. nextCreature - 1 = 1 + m.born
      BY <1>1 DEF Booked, BookedCreatures
    <3>4. nextCreature \in Nat
      BY <1>1 DEF Typed, TypedCreatures
    <3>5. IsFiniteSet(2 .. nextCreature - 1) /\ Cardinality(2 .. nextCreature - 1) = m.born
      BY <2>1, <3>3, <3>4, FS_Interval
    <3>6. Cardinality(DOMAIN creatures \ {1}) \in Nat
          /\ Cardinality(DOMAIN creatures \ {1}) <= m.born
      BY <3>2, <3>5, SizeFacts
    <3> QED
      BY <1>5, <1>6, <1>7, <2>1, <3>1, <3>6
  <2>7. /\ Cardinality(DOMAIN creatures') <= peak' /\ peak' <= Config.lineage_cap
        /\ n.fireContacts <= n.aliveFrames /\ n.hydrated <= n.aliveFrames
        /\ n.severe <= n.aliveFrames /\ n.offspringSurvival <= n.aliveFrames
        /\ n.recoveries + Cardinality(Low') <= n.opportunities
        /\ n.fireDeaths <= n.deaths + Cardinality(Dead')
    BY <1>1, <1>2, <1>5, <1>6 DEF Counted
  <2>8. /\ n.extinctFrame \in {-1} \union 0 .. frame'
        /\ n.extinctFrame # -1 <=> pc' = "extinction"
        /\ n.early => pc' = "extinction"
    BY <1>1, <1>2, <1>5 DEF Counted
  <2> HIDE DEF m
  <2> QED
    BY <2>3, <2>4, <2>5, <2>6, <2>7, <2>8 DEF Counted
<1>12. Sensed'
  <2>1. ASSUME NEW c \in Alive
        PROVE  Inputs(c, grid).crowd
                 = Cardinality({d \in Alive \ {c} :
                     Within(creatures[d].at, creatures[c].at, Config.vision_range)})
    <3> DEFINE N == Alive \ {c}
               part == {e \in grid : e[2] \in N}
    <3>1. \A d \in DOMAIN creatures : Positions[d] = creatures[d].at /\ Positions[d] \in Points
      BY <1>1, CreatureFields DEF Positions, Typed, TypedCreatures
    <3>2. N \in SUBSET DOMAIN creatures /\ DOMAIN Positions = DOMAIN creatures
      BY DEF Alive, Positions
    <3>3. part = {<<Key(Positions[d]), d>> : d \in N}
      BY <3>2 DEF Build
    <3> HIDE DEF N, part
    <3>4. Query(part, Positions, creatures[c].at, Config.vision_range)
            = {d \in N : Within(Positions[d], creatures[c].at, Config.vision_range)}
      <4>1. creatures[c].at \in Points
        BY <3>1 DEF Alive
      <4>2. \A d \in N : Positions[d] \in Points
        BY <3>1, <3>2
      <4> QED
        BY <3>3, <4>1, <4>2, ConfigFacts, QueryIsWalk
    <3>5. {d \in N : Within(Positions[d], creatures[c].at, Config.vision_range)}
            = {d \in N : Within(creatures[d].at, creatures[c].at, Config.vision_range)}
      BY <3>1, <3>2
    <3> HIDE DEF grid
    <3> QED
      BY <3>4, <3>5 DEF Inputs, N, part
  <2>2. \A c \in DOMAIN decisions' : decisions'[c] = Inputs(c, grid)
    BY <1>2
  <2> HIDE DEF grid
  <2>3. \A c \in DOMAIN decisions' :
          decisions'[c].crowd
            = Cardinality({d \in Alive' \ {c} :
                Within(creatures'[d].at, creatures'[c].at, Config.vision_range)})
    BY <1>2, <1>6, <2>1, <2>2
  <2> QED
    BY <2>3 DEF Sensed
<1> QED
  BY <1>9, <1>10, <1>11, <1>12 DEF WorldInv

\* Nothing happens to the world.
LEMMA WorldStutters ==
  ASSUME WorldInv, UNCHANGED vars
  PROVE  WorldInv'
<1>1. UNCHANGED <<profile, frame, creatures, resources, index, nextCreature, nextResource,
                  accumulator, metrics, peak, decisions, pc>>
  BY DEF vars
<1>2. Alive' = Alive /\ Dead' = Dead /\ Low' = Low /\ (Acting' <=> Acting)
  BY <1>1 DEF Alive, Dead, Low, Acting
<1>3. Typed'
  BY <1>1, <1>2 DEF WorldInv, Typed, TypedCreatures, TypedResources, TypedControl,
     TypedDecisions, Grid, OfKind, Key
<1>4. Booked'
  BY <1>1 DEF WorldInv, Booked, BookedResources, BookedCreatures, OfKind, Capacity
<1>5. Counted'
  BY <1>1, <1>2 DEF WorldInv, Counted, One
<1>6. Sensed'
  BY <1>1, <1>2 DEF WorldInv, Sensed, FirstActs
<1> QED
  BY <1>3, <1>4, <1>5, <1>6 DEF WorldInv

--------------------------------------------------------------------------------
(* The constructor.                                                             *)

\* No kind is over its capacity at the start, whatever the profile.
LEMMA InitialFacts ==
  /\ InitialCount("food") \in Nat /\ InitialCount("water") \in Nat
  /\ InitialCount("fire") \in Nat
  /\ InitialCount("food") <= Config.food_capacity
  /\ InitialCount("water") <= Config.water_capacity
<1>1. \A n \in Nat : /\ (n * 3) \div 4 \in Nat /\ (n * 3) \div 4 <= n
                     /\ n \div 4 \in Nat /\ n \div 4 <= n
  OBVIOUS
<1>2. /\ Config.initial_food \in Nat /\ Config.initial_water \in Nat
      /\ Config.initial_fire \in Nat /\ Config.challenge_fire \in Nat
      /\ Config.food_capacity \in Nat /\ Config.water_capacity \in Nat
      /\ Config.initial_food <= Config.food_capacity
      /\ Config.initial_water <= Config.water_capacity
      /\ 1 <= Config.food_capacity /\ 1 <= Config.water_capacity
  BY ConfigFacts, ConfigAssumption
<1>3. /\ (Config.initial_food * 3) \div 4 \in Nat
      /\ (Config.initial_food * 3) \div 4 <= Config.food_capacity
      /\ Config.initial_water \div 4 \in Nat
      /\ Config.initial_water \div 4 <= Config.water_capacity
  BY <1>1, <1>2
<1>4. \A n \in Nat : Max({1, n}) \in {1, n}
  BY MaxOfTwo
<1>5. /\ Max({1, (Config.initial_food * 3) \div 4}) \in {1, (Config.initial_food * 3) \div 4}
      /\ Max({1, Config.initial_water \div 4}) \in {1, Config.initial_water \div 4}
  BY <1>3, <1>4
<1>6. InitialCount("food") \in {1, (Config.initial_food * 3) \div 4, Config.initial_food}
  BY <1>5 DEF InitialCount
<1>7. InitialCount("water") \in {1, Config.initial_water \div 4, Config.initial_water}
  BY <1>5 DEF InitialCount
<1>8. InitialCount("fire") \in {Config.initial_fire, Config.initial_fire + Config.challenge_fire}
  <2>1. InitialCount("fire") = Config.initial_fire + (IF Challenge THEN Config.challenge_fire ELSE 0)
    BY DEF InitialCount
  <2> QED
    BY <1>2, <2>1
<1> QED
  BY <1>2, <1>3, <1>6, <1>7, <1>8

\* The worlds of the constructor: their numbers are in the order of the kinds.
LEMMA WorldsFacts ==
  ASSUME NEW founder, NEW world \in Worlds(founder)
  PROVE  LET food == InitialCount("food")
             water == food + InitialCount("water")
             total == water + InitialCount("fire")
         IN  /\ world \in [1 .. total -> Resource]
             /\ OfKind(world, "food") = 1 .. food
             /\ OfKind(world, "water") = food + 1 .. water
<1> DEFINE food == InitialCount("food")
           water == food + InitialCount("water")
           total == water + InitialCount("fire")
<1>1. food \in Nat /\ water \in Nat /\ total \in Nat /\ food <= water /\ water <= total
  BY InitialFacts
<1> DEFINE kindOf == [r \in 1 .. total |->
                        IF r <= food THEN "food" ELSE IF r <= water THEN "water" ELSE "fire"]
<1>2. PICK at \in [1 .. total -> Points] :
        world = [r \in 1 .. total |-> [kind |-> kindOf[r], at |-> at[r]]]
  BY DEF Worlds
<1> HIDE DEF food, water, total
<1>3. \A r \in 1 .. total : kindOf[r] \in Kinds
  BY DEF Kinds
<1>4. world \in [1 .. total -> Resource]
  <2> HIDE DEF kindOf
  <2> QED
    BY <1>2, <1>3 DEF Resource
<1>5. DOMAIN world = 1 .. total /\ \A r \in 1 .. total : world[r].kind = kindOf[r]
  BY <1>2
<1>6. OfKind(world, "food") = 1 .. food
  BY <1>1, <1>5 DEF OfKind
<1>7. OfKind(world, "water") = food + 1 .. water
  BY <1>1, <1>5 DEF OfKind
<1> QED
  BY <1>4, <1>6, <1>7 DEF food, water, total

\* A new creature is a creature.
LEMMA NewCreatureFacts ==
  ASSUME NEW at \in Points, NEW energy \in Int, NEW hunger \in Int, NEW thirst \in Int
  PROVE  /\ NewCreature(at, energy, hunger, thirst) \in Creature
         /\ NewCreature(at, energy, hunger, thirst).age = 0
         /\ NewCreature(at, energy, hunger, thirst).alive
         /\ ~NewCreature(at, energy, hunger, thirst).low
BY DEF NewCreature, Creature

\* The grids of a world are those of its kinds.
LEMMA BuiltGrids ==
  ASSUME NEW k, index = [kind \in Kinds |->
                           {e \in Build(Places(resources)) : resources[e[2]].kind = kind}],
         k \in Kinds
  PROVE  index[k] = Grid(k)
<1>1. DOMAIN Places(resources) = DOMAIN resources
      /\ \A r \in DOMAIN resources : Places(resources)[r] = resources[r].at
  BY DEF Places
<1>2. Build(Places(resources)) = {<<Key(resources[r].at), r>> : r \in DOMAIN resources}
  BY <1>1 DEF Build
<1>3. index[k] = {e \in Build(Places(resources)) : resources[e[2]].kind = k}
  OBVIOUS
<1> QED
  BY <1>2, <1>3 DEF Grid, OfKind

\* The constructor establishes the invariant under both profiles.
LEMMA InitWorld ==
  ASSUME Init
  PROVE  WorldInv
<1>1. PICK p \in Points : /\ creatures = [c \in {1} |-> NewCreature(p, Config.full_energy, 0, 0)]
                          /\ resources \in Worlds(p)
  BY DEF Init
<1>2. /\ profile \in {"standard", "water_fire_challenge"} /\ frame = 0
      /\ index = [k \in Kinds |-> {e \in Build(Places(resources)) : resources[e[2]].kind = k}]
      /\ nextCreature = 2 /\ nextResource = Cardinality(DOMAIN resources) + 1
      /\ accumulator = [k \in Grown |-> 0] /\ metrics = NoMetrics /\ peak = 1
      /\ decisions = [c \in {} |-> TRUE] /\ pc = "sense"
  BY DEF Init
<1>3. /\ DOMAIN creatures = {1} /\ creatures[1] \in Creature /\ creatures[1].age = 0
      /\ creatures[1].alive /\ ~creatures[1].low
  BY <1>1, NewCreatureFacts, ConfigFacts
<1>4. Alive = {1} /\ Dead = {} /\ Low = {} /\ DOMAIN decisions = {} /\ ~Acting
  BY <1>2, <1>3 DEF Alive, Dead, Low, Acting
<1> DEFINE food == InitialCount("food")
           water == food + InitialCount("water")
           total == water + InitialCount("fire")
<1>5. food \in Nat /\ water \in Nat /\ total \in Nat /\ food <= water /\ water <= total
      /\ food <= Config.food_capacity /\ water - food <= Config.water_capacity
  BY InitialFacts
<1>6. /\ resources \in [1 .. total -> Resource]
      /\ OfKind(resources, "food") = 1 .. food
      /\ OfKind(resources, "water") = food + 1 .. water
  BY <1>1, WorldsFacts
<1> HIDE DEF food, water, total
<1>7. DOMAIN resources = 1 .. total /\ Cardinality(1 .. total) = total
      /\ Cardinality(1 .. food) = food /\ Cardinality(food + 1 .. water) = water - food
  <2>1. \A a, b \in Int : a <= b + 1 => Cardinality(a .. b) = b - a + 1
    BY FS_Interval
  <2>2. /\ Cardinality(1 .. total) = total - 1 + 1 /\ Cardinality(1 .. food) = food - 1 + 1
        /\ Cardinality(food + 1 .. water) = water - (food + 1) + 1
    BY <1>5, <2>1
  <2> QED
    BY <1>5, <1>6, <2>2
<1>8. /\ metrics \in Readings
      /\ metrics.food = 0 /\ metrics.water = 0 /\ metrics.born = 0 /\ metrics.deaths = 0
      /\ metrics.recoveries = 0 /\ metrics.opportunities = 0 /\ metrics.aliveFrames = 0
      /\ metrics.hydrated = 0 /\ metrics.severe = 0 /\ metrics.fireContacts = 0
      /\ metrics.fireDeaths = 0 /\ metrics.founderSurvival = 0
      /\ metrics.offspringSurvival = 0 /\ metrics.offspringPossible = 0
      /\ metrics.extinctFrame = -1 /\ ~metrics.early
  BY <1>2 DEF NoMetrics, Readings
<1>9. Typed
  <2>1. TypedCreatures
    BY <1>1, <1>2, <1>3 DEF TypedCreatures
  <2>2. TypedResources
    <3>1. index = [k \in Kinds |-> index[k]] /\ \A k \in Kinds : index[k] = Grid(k)
      BY <1>2, BuiltGrids
    <3>2. nextResource = total + 1
      BY <1>2, <1>7
    <3> QED
      BY <1>2, <1>5, <1>6, <1>7, <3>1, <3>2 DEF TypedResources
  <2>3. TypedControl
    <3>1. frame \in 0 .. Config.max_frames /\ peak \in Nat
      <4>1. frame = 0 /\ peak = 1
        BY <1>2
      <4>2. Config.max_frames \in Nat
        BY ConfigFacts
      <4> QED
        BY <4>1, <4>2
    <3>2. metrics \in Readings
      BY <1>8
    <3>3. profile \in {"standard", "water_fire_challenge"} /\ pc = "sense"
      BY <1>2
    <3> QED
      BY <1>4, <3>1, <3>2, <3>3 DEF TypedControl
  <2>4. TypedDecisions
    BY <1>2, <1>3, <1>4 DEF TypedDecisions
  <2> QED
    BY <2>1, <2>2, <2>3, <2>4 DEF Typed
<1>10. Booked
  <2>1. BookedCreatures
    <3>1. Cardinality(DOMAIN creatures) = 1
      BY <1>3, FS_Singleton
    <3>2. nextCreature = 2 /\ metrics.born = 0 /\ metrics.deaths = 0
      BY <1>2, <1>8
    <3> QED
      BY <3>1, <3>2 DEF BookedCreatures
  <2>2. BookedResources
    BY <1>2, <1>5, <1>6, <1>7, <1>8 DEF BookedResources, Capacity, Grown
  <2> QED
    BY <2>1, <2>2 DEF Booked
<1>11. Counted
  <2>1. Cardinality(DOMAIN creatures) = 1 /\ Cardinality(Low) = 0 /\ Cardinality(Dead) = 0
        /\ Cardinality(DOMAIN decisions) = 0 /\ Cardinality(DOMAIN decisions \ {1}) = 0
    <3>1. DOMAIN decisions \ {1} = {}
      BY <1>4
    <3> QED
      BY <1>3, <1>4, <3>1, FS_Singleton, FS_EmptySet
  <2>2. One(Acting) = 0
    BY <1>4, OneFacts
  <2>3. \A c \in DOMAIN creatures : creatures[c].age = 0 /\ One(c \in DOMAIN decisions) = 0
    BY <1>3, <1>4, OneFacts
  <2>4. Config.lineage_cap \in Nat \ {0}
    BY ConfigFacts
  <2>5. (frame + One(Acting)) * Config.lineage_cap = 0
    BY <1>2, <2>2, <2>4
  <2>6. 1 <= Config.lineage_cap
    BY <2>4
  <2> QED
    BY <1>2, <1>8, <2>1, <2>2, <2>3, <2>5, <2>6 DEF Counted
<1>12. Sensed
  BY <1>2 DEF Sensed, FirstActs
<1> QED
  BY <1>9, <1>10, <1>11, <1>12 DEF WorldInv

--------------------------------------------------------------------------------
(* The end of a frame.                                                          *)

\* The breeders are alive, and there is room for one child of each.
LEMMA BreedersFit ==
  ASSUME Typed, Counted
  PROVE  /\ Breeders \in SUBSET Alive
         /\ IsFiniteSet(Breeders) /\ Cardinality(Breeders) \in Nat
         /\ Cardinality(Alive) + Cardinality(Breeders) <= Config.lineage_cap
<1> DEFINE fertile == {c \in DOMAIN creatures : Fertile(c)}
           room == Config.lineage_cap - Cardinality(Alive)
<1>1. fertile \in SUBSET Alive
  BY DEF Fertile, Alive
<1>2. IsFiniteSet(Alive) /\ Cardinality(Alive) \in Nat
      /\ Cardinality(Alive) <= Cardinality(DOMAIN creatures)
      /\ Cardinality(DOMAIN creatures) \in Nat
  BY FiniteWorld, SizeFacts
<1>3. Cardinality(Alive) <= Config.lineage_cap
  BY <1>2, ConfigFacts DEF Counted, Typed, TypedControl
<1>4. room \in Nat
  BY <1>2, <1>3, ConfigFacts
<1>5. IsFiniteSet(fertile) /\ fertile \in SUBSET Nat
  <2>1. Alive \in SUBSET Nat
    BY FiniteWorld DEF Typed, TypedCreatures
  <2> QED
    BY <1>1, <1>2, <2>1, SizeFacts
<1>6. Breeders = {c \in fertile : Before(c, fertile) < room}
  BY DEF Breeders
<1> HIDE DEF fertile
<1>7. Cardinality(Breeders) <= room
  <2> HIDE DEF room
  <2> QED
    BY <1>4, <1>5, <1>6, FirstOfRank
<1>8. Breeders \in SUBSET Alive
  BY <1>1, <1>6
<1>9. IsFiniteSet(Breeders) /\ Cardinality(Breeders) \in Nat
  BY <1>2, <1>8, SizeFacts
<1>10. Config.lineage_cap \in Nat
  BY ConfigFacts
<1> QED
  BY <1>2, <1>7, <1>8, <1>9, <1>10

\* A parent pays with energy only.
LEMMA ParentPays ==
  ASSUME NEW c \in Creature, NEW n \in Int
  PROVE  LET p == [c EXCEPT !.energy = @ - n]
         IN  /\ p \in Creature /\ p.age = c.age /\ (p.alive <=> c.alive) /\ (p.low <=> c.low)
BY DEF Creature

\* The population is the living and one child for each breeder; a child is new.
LEMMA PopulationFacts ==
  ASSUME Typed, NEW B \in SUBSET Alive
  PROVE  LET P == Population(B)
             numbers == nextCreature .. nextCreature + Cardinality(B) - 1
         IN  /\ DOMAIN P = Alive \union numbers
             /\ P \in [DOMAIN P -> Creature]
             /\ Alive \intersect numbers = {}
             /\ IsFiniteSet(numbers) /\ Cardinality(numbers) = Cardinality(B)
             /\ Cardinality(B) \in Nat
             /\ \A c \in Alive : P[c].age = creatures[c].age
                                 /\ (P[c].low <=> c \in Low) /\ P[c].alive
             /\ \A c \in numbers : P[c].age = 0 /\ ~P[c].low /\ P[c].alive
<1> DEFINE P == Population(B)
           numbers == nextCreature .. nextCreature + Cardinality(B) - 1
           paid(c) == IF c \in B
                      THEN [creatures[c] EXCEPT !.energy = @ - Config.reproduction_parent_cost]
                      ELSE creatures[c]
           parent(n) == CHOOSE c \in B : nextCreature + Before(c, B) = n
<1>1. P = [c \in Alive \union numbers |-> IF c \in Alive THEN paid(c) ELSE Newborn(parent(c))]
  BY DEF Population
<1>2. nextCreature \in Nat \ {0} /\ DOMAIN creatures \subseteq 1 .. nextCreature - 1
      /\ \A c \in DOMAIN creatures : creatures[c] \in Creature
  BY DEF Typed, TypedCreatures
<1>3. IsFiniteSet(B) /\ Cardinality(B) \in Nat /\ Alive \subseteq DOMAIN creatures
      /\ B \in SUBSET Nat
  BY <1>2, FiniteWorld, SizeFacts
<1>4. IsFiniteSet(numbers) /\ Cardinality(numbers) = Cardinality(B)
  BY <1>2, <1>3, FS_Interval
<1>5. Alive \intersect numbers = {}
  BY <1>2, <1>3
<1>6. ASSUME NEW c \in Alive
      PROVE  paid(c) \in Creature /\ paid(c).age = creatures[c].age
             /\ (paid(c).low <=> c \in Low) /\ paid(c).alive
  <2>1. creatures[c] \in Creature /\ creatures[c].alive /\ (creatures[c].low <=> c \in Low)
    BY <1>2 DEF Alive, Low
  <2> QED
    BY <2>1, ParentPays, ConfigFacts
<1>7. ASSUME NEW n \in numbers
      PROVE  Newborn(parent(n)) \in Creature /\ Newborn(parent(n)).age = 0
             /\ ~Newborn(parent(n)).low /\ Newborn(parent(n)).alive
  <2>1. n - nextCreature \in 0 .. Cardinality(B) - 1
    BY <1>2, <1>3
  <2>2. \E c \in B : Before(c, B) = n - nextCreature
    BY <1>3, <2>1, RanksAreTaken
  <2>3. \E c \in B : nextCreature + Before(c, B) = n
    BY <1>2, <2>1, <2>2
  <2>4. parent(n) \in B
    BY <2>3
  <2>5. PICK c \in B : c = parent(n)
    BY <2>4
  <2>6. creatures[c] \in Creature
    BY <1>2, <1>3
  <2>7. Newborn(c) \in Creature /\ Newborn(c).age = 0 /\ ~Newborn(c).low /\ Newborn(c).alive
    BY <2>6, CreatureFields, NewCreatureFacts, ConfigFacts DEF Newborn
  <2> HIDE DEF parent
  <2> QED
    BY <2>5, <2>7
<1> HIDE DEF paid, parent, numbers, P
<1>8. DOMAIN P = Alive \union numbers
  BY <1>1
<1>9. \A c \in Alive : P[c] = paid(c)
  BY <1>1
<1>10. \A c \in numbers : P[c] = Newborn(parent(c))
  BY <1>1, <1>5
<1>11. \A c \in DOMAIN P : P[c] \in Creature
  BY <1>6, <1>7, <1>8, <1>9, <1>10
<1>12. P \in [DOMAIN P -> Creature]
  BY <1>1, <1>8, <1>11
<1>13. /\ \A c \in Alive : P[c].age = creatures[c].age
                           /\ (P[c].low <=> c \in Low) /\ P[c].alive
       /\ \A c \in numbers : P[c].age = 0 /\ ~P[c].low /\ P[c].alive
  BY <1>6, <1>7, <1>9, <1>10
<1> QED
  BY <1>3, <1>4, <1>5, <1>8, <1>12, <1>13 DEF P, numbers

\* What grows is what the accumulator pays for and the capacity allows.
LEMMA GrowthFacts ==
  ASSUME Typed, Booked, NEW k \in Grown
  PROVE  /\ Count(k) \in Nat /\ Left(k) \in Nat
         /\ Cardinality(OfKind(resources, k)) + Count(k) <= Capacity(k)
<1> DEFINE held == Cardinality(OfKind(resources, k))
           due == accumulator[k] + Rate(k)
           unit == Config.unit
<1>1. unit \in Nat \ {0} /\ Capacity(k) \in Nat
  BY ConfigFacts DEF Capacity
<1>2. held \in Nat /\ held <= Capacity(k)
  BY FiniteWorld, FS_CardinalityType DEF Booked, BookedResources
<1>3. accumulator[k] \in Nat /\ Rate(k) \in Nat
  <2>1. accumulator[k] \in Nat
    BY DEF Typed, TypedResources
  <2>2. Config.food_rate \in Nat /\ Config.water_rate \in Nat
    BY ConfigFacts
  <2>3. Config.water_rate \div 2 \in Nat
    BY <2>2
  <2> QED
    BY <2>1, <2>2, <2>3 DEF Rate
<1>4. due \in Nat
  BY <1>3
<1>5. Count(k) = Min({due \div unit, Capacity(k) - held})
  BY DEF Count
<1> HIDE DEF held, due, unit
<1>6. due \div unit \in Nat /\ (due \div unit) * unit <= due
  BY <1>1, <1>4
<1>7. Capacity(k) - held \in Nat
  BY <1>1, <1>2
<1>8. Count(k) \in Nat /\ Count(k) <= due \div unit /\ Count(k) <= Capacity(k) - held
  <2>1. PICK a \in Nat : a = due \div unit
    BY <1>6
  <2>2. PICK b \in Nat : b = Capacity(k) - held
    BY <1>7
  <2>3. Count(k) = Min({a, b})
    BY <1>5, <2>1, <2>2
  <2>4. Min({a, b}) \in {a, b} /\ Min({a, b}) <= a /\ Min({a, b}) <= b
    BY MinOfTwo
  <2> QED
    BY <2>1, <2>2, <2>3, <2>4
<1>9. held + Count(k) <= Capacity(k)
  BY <1>1, <1>2, <1>8
<1>10. due - Count(k) * unit \in Nat
  <2>1. \A a, b, u \in Nat : a <= b => a * u <= b * u
    OBVIOUS
  <2>2. Count(k) * unit <= (due \div unit) * unit
    BY <1>1, <1>6, <1>8, <2>1
  <2>3. Count(k) * unit \in Nat /\ (due \div unit) * unit \in Nat
    BY <1>1, <1>6, <1>8
  <2> QED
    BY <1>4, <1>6, <2>2, <2>3
<1>11. (due - Count(k) * unit) % unit \in Nat
  BY <1>1, <1>10
<1>12. Left(k) \in {(due - Count(k) * unit) % unit, due - Count(k) * unit}
  <2>1. PICK left : left = due - Count(k) * unit
    OBVIOUS
  <2>2. left = accumulator[k] + Rate(k) - Count(k) * Config.unit
    <3>1. Count(k) * Config.unit \in Int
      BY <1>1, <1>8 DEF unit
    <3> QED
      BY <1>3, <2>1, <3>1 DEF due, unit
  <2>3. Left(k) = left % Config.unit \/ Left(k) = left
    BY <2>2 DEF Left
  <2> QED
    BY <2>1, <2>3 DEF unit
<1> QED
  BY <1>8, <1>9, <1>10, <1>11, <1>12 DEF held

\* The resources that grow are new, food before water.
LEMMA GrownFacts ==
  ASSUME Typed, Booked, NEW at \in GrowthPlaces
  PROVE  LET grown == NewResources(at)
             food == Count("food")
             water == Count("water")
         IN  /\ grown \in [nextResource .. nextResource + food + water - 1 -> Resource]
             /\ OfKind(grown, "food") = nextResource .. nextResource + food - 1
             /\ OfKind(grown, "water") = nextResource + food .. nextResource + food + water - 1
             /\ food \in Nat /\ water \in Nat
<1> DEFINE grown == NewResources(at)
           food == Count("food")
           water == Count("water")
<1>1. food \in Nat /\ water \in Nat
  BY GrowthFacts DEF Grown
<1>2. nextResource \in Nat
  BY DEF Typed, TypedResources
<1>3. at["food"] \in Points /\ at["water"] \in Points
  BY DEF GrowthPlaces, Grown
<1>4. grown = [r \in nextResource .. nextResource + food + water - 1 |->
                 IF r < nextResource + food THEN [kind |-> "food", at |-> at["food"]]
                                            ELSE [kind |-> "water", at |-> at["water"]]]
  BY DEF NewResources
<1> HIDE DEF food, water, grown
<1>5. grown \in [nextResource .. nextResource + food + water - 1 -> Resource]
  BY <1>3, <1>4 DEF Resource, Kinds
<1>6. /\ DOMAIN grown = nextResource .. nextResource + food + water - 1
      /\ \A r \in DOMAIN grown :
           grown[r].kind = IF r < nextResource + food THEN "food" ELSE "water"
  BY <1>4
<1>7. OfKind(grown, "food") = nextResource .. nextResource + food - 1
  BY <1>1, <1>2, <1>6 DEF OfKind
<1>8. OfKind(grown, "water") = nextResource + food .. nextResource + food + water - 1
  BY <1>1, <1>2, <1>6 DEF OfKind
<1> QED
  BY <1>1, <1>5, <1>7, <1>8 DEF grown, food, water

\* What the settlement of a frame counts.
LEMMA SettleReadings ==
  ASSUME metrics \in Readings, NEW deaths \in Nat, NEW born \in Nat,
         NEW extinctFrame \in Int, NEW early \in BOOLEAN,
         metrics' = [metrics EXCEPT !.deaths = @ + deaths, !.born = @ + born,
                                    !.extinctFrame = extinctFrame, !.early = early]
  PROVE  /\ metrics' \in Readings
         /\ metrics'.deaths = metrics.deaths + deaths /\ metrics'.born = metrics.born + born
         /\ metrics'.extinctFrame = extinctFrame /\ (metrics'.early <=> early)
         /\ metrics'.food = metrics.food /\ metrics'.water = metrics.water
         /\ metrics'.recoveries = metrics.recoveries
         /\ metrics'.opportunities = metrics.opportunities
         /\ metrics'.aliveFrames = metrics.aliveFrames /\ metrics'.hydrated = metrics.hydrated
         /\ metrics'.severe = metrics.severe /\ metrics'.fireContacts = metrics.fireContacts
         /\ metrics'.fireDeaths = metrics.fireDeaths
         /\ metrics'.founderSurvival = metrics.founderSurvival
         /\ metrics'.offspringSurvival = metrics.offspringSurvival
         /\ metrics'.offspringPossible = metrics.offspringPossible
<1>1. PICK d \in Nat, b \in Nat : d = metrics.deaths + deaths /\ b = metrics.born + born
  <2>1. metrics.deaths + deaths \in Nat /\ metrics.born + born \in Nat
    BY ReadingFields
  <2> QED
    BY <2>1
<1>2. metrics' = [metrics EXCEPT !.deaths = d, !.born = b,
                                 !.extinctFrame = extinctFrame, !.early = early]
  BY <1>1
<1>3. metrics' \in Readings
  BY <1>2 DEF Readings
<1>4. /\ metrics'.deaths = d /\ metrics'.born = b
      /\ metrics'.extinctFrame = extinctFrame /\ (metrics'.early <=> early)
  BY <1>2 DEF Readings
<1>5. /\ metrics'.food = metrics.food /\ metrics'.water = metrics.water
      /\ metrics'.recoveries = metrics.recoveries
      /\ metrics'.opportunities = metrics.opportunities
      /\ metrics'.aliveFrames = metrics.aliveFrames /\ metrics'.hydrated = metrics.hydrated
      /\ metrics'.severe = metrics.severe /\ metrics'.fireContacts = metrics.fireContacts
      /\ metrics'.fireDeaths = metrics.fireDeaths
      /\ metrics'.founderSurvival = metrics.founderSurvival
      /\ metrics'.offspringSurvival = metrics.offspringSurvival
      /\ metrics'.offspringPossible = metrics.offspringPossible
  BY <1>2 DEF Readings
<1> QED
  BY <1>1, <1>3, <1>4, <1>5

\* The list of resources and its cells when resources have grown.
LEMMA GrownWorld ==
  ASSUME Typed, Booked, NEW at \in GrowthPlaces, Settle(at)
  PROVE  /\ TypedResources'
         /\ Cardinality(DOMAIN resources')
              = Cardinality(DOMAIN resources) + Count("food") + Count("water")
         /\ nextResource' = nextResource + Count("food") + Count("water")
         /\ \A k \in Grown : Cardinality(OfKind(resources, k)') <= Capacity(k)
<1> DEFINE grown == NewResources(at)
           food == Count("food")
           water == Count("water")
<1>1. /\ grown \in [nextResource .. nextResource + food + water - 1 -> Resource]
      /\ OfKind(grown, "food") = nextResource .. nextResource + food - 1
      /\ OfKind(grown, "water") = nextResource + food .. nextResource + food + water - 1
      /\ food \in Nat /\ water \in Nat
  BY GrownFacts
<1>2. /\ resources' = [r \in DOMAIN resources \union DOMAIN grown |->
                         IF r \in DOMAIN resources THEN resources[r] ELSE grown[r]]
      /\ index' = [k \in Kinds |-> index[k] \union
                     {<<Key(grown[r].at), r>> : r \in OfKind(grown, k)}]
      /\ nextResource' = nextResource + Cardinality(DOMAIN grown)
      /\ accumulator' = [k \in Grown |-> Left(k)]
  BY DEF Settle
<1> HIDE DEF grown, food, water
<1>3. /\ nextResource \in Nat \ {0} /\ DOMAIN resources \subseteq 1 .. nextResource - 1
      /\ resources \in [DOMAIN resources -> Resource]
      /\ index = [k \in Kinds |-> Grid(k)]
  BY DEF Typed, TypedResources
<1>4. DOMAIN grown = nextResource .. nextResource + food + water - 1
      /\ DOMAIN resources \intersect DOMAIN grown = {}
  BY <1>1, <1>3
<1>5. IsFiniteSet(DOMAIN grown) /\ Cardinality(DOMAIN grown) = food + water
  <2>1. nextResource \in Int /\ nextResource + food + water - 1 \in Int
        /\ (nextResource > nextResource + food + water - 1 => food + water = 0)
        /\ (nextResource + food + water - 1) - nextResource + 1 = food + water
    BY <1>1, <1>3
  <2>2. IsFiniteSet(DOMAIN grown)
        /\ Cardinality(DOMAIN grown)
             = IF nextResource > nextResource + food + water - 1 THEN 0
               ELSE (nextResource + food + water - 1) - nextResource + 1
    BY <1>4, <2>1, FS_Interval
  <2> QED
    BY <2>1, <2>2
<1>6. /\ DOMAIN resources' = DOMAIN resources \union DOMAIN grown
      /\ \A r \in DOMAIN resources : resources'[r] = resources[r]
      /\ \A r \in DOMAIN grown : resources'[r] = grown[r]
      /\ resources' \in [DOMAIN resources' -> Resource]
  BY <1>1, <1>2, <1>3, <1>4
<1>7. \A k \in Kinds : OfKind(resources, k)' = OfKind(resources, k) \union OfKind(grown, k)
  BY <1>6 DEF OfKind
<1>8. ASSUME NEW k \in Kinds
      PROVE  index'[k] = Grid(k)'
  <2>1. Grid(k)' = {<<Key(resources'[r].at), r>> : r \in OfKind(resources, k)'}
    BY DEF Grid, Key
  <2>2. \A r \in OfKind(resources, k) : resources'[r] = resources[r]
    BY <1>6 DEF OfKind
  <2>3. \A r \in OfKind(grown, k) : resources'[r] = grown[r]
    BY <1>6 DEF OfKind
  <2>4. Grid(k)' = {<<Key(resources[r].at), r>> : r \in OfKind(resources, k)}
                     \union {<<Key(grown[r].at), r>> : r \in OfKind(grown, k)}
    BY <1>7, <2>1, <2>2, <2>3
  <2>5. index'[k] = Grid(k) \union {<<Key(grown[r].at), r>> : r \in OfKind(grown, k)}
    BY <1>2, <1>3
  <2> QED
    BY <2>4, <2>5 DEF Grid
<1>9. index' = [k \in Kinds |-> Grid(k)']
  <2>1. index' = [k \in Kinds |-> index'[k]]
    BY <1>2
  <2> QED
    BY <1>8, <2>1
<1>10. nextResource' = nextResource + food + water
  BY <1>1, <1>2, <1>3, <1>5
<1>11. accumulator' \in [Grown -> Nat]
  BY <1>2, GrowthFacts
<1>12. TypedResources'
  <2>1. DOMAIN resources' \subseteq 1 .. nextResource' - 1 /\ nextResource' \in Nat \ {0}
    BY <1>1, <1>3, <1>4, <1>6, <1>10
  <2> QED
    BY <1>6, <1>9, <1>11, <2>1 DEF TypedResources
<1>13. Cardinality(DOMAIN resources') = Cardinality(DOMAIN resources) + food + water
  <2>1. Cardinality(DOMAIN resources') = Cardinality(DOMAIN resources) + (food + water)
    BY <1>4, <1>5, <1>6, FiniteWorld, DisjointSizes
  <2>2. Cardinality(DOMAIN resources) \in Nat
    BY FiniteWorld, FS_CardinalityType
  <2> QED
    BY <1>1, <2>1, <2>2
<1>14. ASSUME NEW k \in Grown
       PROVE  Cardinality(OfKind(resources, k)') <= Capacity(k)
  <2>1. OfKind(grown, k) \in SUBSET DOMAIN grown /\ OfKind(resources, k) \in SUBSET DOMAIN resources
    BY DEF OfKind
  <2>2. IsFiniteSet(OfKind(grown, k)) /\ Cardinality(OfKind(grown, k)) = Count(k)
    <3>1. \A a \in Int, n \in Nat : IsFiniteSet(a .. a + n - 1) /\ Cardinality(a .. a + n - 1) = n
      <4> SUFFICES ASSUME NEW a \in Int, NEW n \in Nat
                   PROVE  IsFiniteSet(a .. a + n - 1) /\ Cardinality(a .. a + n - 1) = n
        OBVIOUS
      <4>1. PICK b \in Int : b = a + n - 1
        OBVIOUS
      <4>2. IsFiniteSet(a .. b) /\ Cardinality(a .. b) = IF a > b THEN 0 ELSE b - a + 1
        BY FS_Interval
      <4>3. (a > b => n = 0) /\ b - a + 1 = n
        BY <4>1
      <4> QED
        BY <4>1, <4>2, <4>3
    <3>2. CASE k = "food"
      <4>1. nextResource \in Int
        BY <1>3
      <4> QED
        BY <1>1, <3>1, <3>2, <4>1 DEF food
    <3>3. CASE k = "water"
      <4>1. nextResource + food \in Int
        BY <1>1, <1>3
      <4> QED
        BY <1>1, <3>1, <3>3, <4>1 DEF water
    <3> QED
      BY <3>2, <3>3 DEF Grown
  <2>3. IsFiniteSet(OfKind(resources, k)) /\ OfKind(resources, k) \intersect OfKind(grown, k) = {}
    BY <1>4, <2>1, FiniteWorld
  <2>4. OfKind(resources, k)' = OfKind(resources, k) \union OfKind(grown, k)
    BY <1>7 DEF Grown, Kinds
  <2>5. Cardinality(OfKind(resources, k)') = Cardinality(OfKind(resources, k)) + Count(k)
    BY <2>2, <2>3, <2>4, DisjointSizes
  <2> QED
    BY <2>5, GrowthFacts
<1> QED
  BY <1>10, <1>12, <1>13, <1>14 DEF food, water

\* What the settlement of a frame does to the creatures, their counters and the control.
LEMMA SettleFacts ==
  ASSUME WorldInv, NEW at \in GrowthPlaces, Settle(at),
         NEW numbers,
         numbers = nextCreature .. nextCreature + Cardinality(Breeders) - 1
  PROVE  /\ DOMAIN creatures' = Alive \union numbers
         /\ creatures' \in [DOMAIN creatures' -> Creature]
         /\ Alive \intersect numbers = {}
         /\ Cardinality(DOMAIN creatures') = Cardinality(Alive) + Cardinality(Breeders)
         /\ Cardinality(Breeders) \in Nat /\ Cardinality(Alive) \in Nat
         /\ Cardinality(DOMAIN creatures') <= Config.lineage_cap
         /\ nextCreature' = nextCreature + Cardinality(Breeders)
         /\ \A c \in Alive : creatures'[c].age = creatures[c].age
                             /\ (creatures'[c].low <=> c \in Low)
         /\ \A c \in numbers : creatures'[c].age = 0 /\ ~creatures'[c].low
         /\ Alive' = DOMAIN creatures' /\ Dead' = {} /\ Low' = Low \intersect Alive
         /\ metrics' \in Readings
         /\ metrics'.deaths = metrics.deaths + Cardinality(Dead)
         /\ metrics'.born = metrics.born + Cardinality(Breeders)
         /\ metrics'.extinctFrame
              = (IF DOMAIN creatures' = {} THEN frame + 1 ELSE metrics.extinctFrame)
         /\ metrics'.early => DOMAIN creatures' = {}
         /\ metrics'.food = metrics.food /\ metrics'.water = metrics.water
         /\ metrics'.recoveries = metrics.recoveries
         /\ metrics'.opportunities = metrics.opportunities
         /\ metrics'.aliveFrames = metrics.aliveFrames /\ metrics'.hydrated = metrics.hydrated
         /\ metrics'.severe = metrics.severe /\ metrics'.fireContacts = metrics.fireContacts
         /\ metrics'.fireDeaths = metrics.fireDeaths
         /\ metrics'.founderSurvival = metrics.founderSurvival
         /\ metrics'.offspringSurvival = metrics.offspringSurvival
         /\ metrics'.offspringPossible = metrics.offspringPossible
         /\ frame' = frame + 1 /\ frame < Config.max_frames /\ Acting /\ ~Acting'
         /\ pc' \in {"extinction", "max_frames", "sense"}
         /\ pc' = "extinction" <=> DOMAIN creatures' = {}
         /\ DOMAIN decisions = {} /\ decisions' = decisions /\ profile' = profile
         /\ peak' = Max({peak, Cardinality(DOMAIN creatures')})
<1> DEFINE population == Population(Breeders)
<1>1. Typed /\ Booked /\ Counted
  BY DEF WorldInv
<1>2. /\ pc = "settle" /\ creatures' = population
      /\ nextCreature' = nextCreature + Cardinality(Breeders)
      /\ frame' = frame + 1 /\ peak' = Max({peak, Cardinality(DOMAIN population)})
      /\ metrics' = [metrics EXCEPT
                       !.deaths = @ + Cardinality(DOMAIN creatures \ Alive),
                       !.born = @ + Cardinality(Breeders),
                       !.extinctFrame = IF DOMAIN population = {} THEN frame + 1 ELSE @,
                       !.early = DOMAIN population = {}
                                   /\ (frame + 1) * Config.early_fraction < Config.max_frames]
      /\ pc' = IF DOMAIN population = {} THEN "extinction"
               ELSE IF frame + 1 >= Config.max_frames THEN "max_frames" ELSE "sense"
      /\ UNCHANGED <<profile, creatureIndex, decisions>>
  BY DEF Settle
<1> HIDE DEF population
<1>3. /\ Breeders \in SUBSET Alive /\ Cardinality(Breeders) \in Nat
      /\ Cardinality(Alive) + Cardinality(Breeders) <= Config.lineage_cap
  BY <1>1, BreedersFit
<1>4. /\ DOMAIN population = Alive \union numbers
      /\ population \in [DOMAIN population -> Creature]
      /\ Alive \intersect numbers = {}
      /\ IsFiniteSet(numbers) /\ Cardinality(numbers) = Cardinality(Breeders)
      /\ \A c \in Alive : population[c].age = creatures[c].age
                          /\ (population[c].low <=> c \in Low) /\ population[c].alive
      /\ \A c \in numbers : population[c].age = 0 /\ ~population[c].low /\ population[c].alive
  BY <1>1, <1>3, PopulationFacts DEF population
<1>5. IsFiniteSet(Alive) /\ Cardinality(Alive) \in Nat
      /\ IsFiniteSet(Dead) /\ Cardinality(Dead) \in Nat
  BY <1>1, FiniteWorld, FS_CardinalityType
<1>6. Cardinality(DOMAIN population) = Cardinality(Alive) + Cardinality(Breeders)
  BY <1>4, <1>5, DisjointSizes
<1>7. Alive' = DOMAIN creatures' /\ Dead' = {}
  <2>1. Alive' = DOMAIN creatures'
    BY <1>2, <1>4 DEF Alive
  <2> QED
    BY <2>1 DEF Dead
<1>8. Low' = Low \intersect Alive
  <2>1. Low' = {c \in Alive \union numbers : population[c].low}
    BY <1>2, <1>4 DEF Low
  <2> QED
    BY <1>4, <2>1
<1>9. /\ metrics' \in Readings
      /\ metrics'.deaths = metrics.deaths + Cardinality(Dead)
      /\ metrics'.born = metrics.born + Cardinality(Breeders)
      /\ metrics'.extinctFrame
           = (IF DOMAIN population = {} THEN frame + 1 ELSE metrics.extinctFrame)
      /\ metrics'.early => DOMAIN population = {}
      /\ metrics'.food = metrics.food /\ metrics'.water = metrics.water
      /\ metrics'.recoveries = metrics.recoveries
      /\ metrics'.opportunities = metrics.opportunities
      /\ metrics'.aliveFrames = metrics.aliveFrames /\ metrics'.hydrated = metrics.hydrated
      /\ metrics'.severe = metrics.severe /\ metrics'.fireContacts = metrics.fireContacts
      /\ metrics'.fireDeaths = metrics.fireDeaths
      /\ metrics'.founderSurvival = metrics.founderSurvival
      /\ metrics'.offspringSurvival = metrics.offspringSurvival
      /\ metrics'.offspringPossible = metrics.offspringPossible
  <2>1. metrics \in Readings /\ frame \in Nat
    BY <1>1 DEF Typed, TypedControl
  <2>2. PICK extinctFrame \in Int :
          extinctFrame = IF DOMAIN population = {} THEN frame + 1 ELSE metrics.extinctFrame
    BY <2>1, ReadingFields
  <2>3. PICK early \in BOOLEAN :
          early <=> DOMAIN population = {}
                      /\ (frame + 1) * Config.early_fraction < Config.max_frames
    OBVIOUS
  <2>4. metrics' = [metrics EXCEPT !.deaths = @ + Cardinality(Dead),
                                   !.born = @ + Cardinality(Breeders),
                                   !.extinctFrame = extinctFrame, !.early = early]
    <3>1. (DOMAIN population = {} /\ (frame + 1) * Config.early_fraction < Config.max_frames)
            = early
      BY <2>3
    <3>2. metrics' = [metrics EXCEPT
                        !.deaths = @ + Cardinality(Dead), !.born = @ + Cardinality(Breeders),
                        !.extinctFrame = extinctFrame,
                        !.early = DOMAIN population = {}
                                   /\ (frame + 1) * Config.early_fraction < Config.max_frames]
      BY <1>2, <2>1, <2>2 DEF Dead, Readings
    <3> QED
      BY <3>1, <3>2
  <2>5. Cardinality(Dead) \in Nat /\ Cardinality(Breeders) \in Nat
    BY <1>3, <1>5
  <2>6. /\ metrics' \in Readings
        /\ metrics'.deaths = metrics.deaths + Cardinality(Dead)
        /\ metrics'.born = metrics.born + Cardinality(Breeders)
        /\ metrics'.extinctFrame = extinctFrame /\ (metrics'.early <=> early)
        /\ metrics'.food = metrics.food /\ metrics'.water = metrics.water
        /\ metrics'.recoveries = metrics.recoveries
        /\ metrics'.opportunities = metrics.opportunities
        /\ metrics'.aliveFrames = metrics.aliveFrames /\ metrics'.hydrated = metrics.hydrated
        /\ metrics'.severe = metrics.severe /\ metrics'.fireContacts = metrics.fireContacts
        /\ metrics'.fireDeaths = metrics.fireDeaths
        /\ metrics'.founderSurvival = metrics.founderSurvival
        /\ metrics'.offspringSurvival = metrics.offspringSurvival
        /\ metrics'.offspringPossible = metrics.offspringPossible
    BY <2>1, <2>4, <2>5, SettleReadings
  <2> QED
    BY <2>2, <2>3, <2>6
<1>10. Acting /\ frame < Config.max_frames /\ pc # "act"
  BY <1>1, <1>2 DEF Acting, Typed, TypedControl
<1>11. DOMAIN decisions = {}
  BY <1>1, <1>10 DEF Typed, TypedDecisions
<1>12. pc' \in {"extinction", "max_frames", "sense"}
       /\ (pc' = "extinction" <=> DOMAIN population = {}) /\ ~Acting'
  BY <1>2 DEF Acting
<1> QED
  BY <1>2, <1>3, <1>4, <1>5, <1>6, <1>7, <1>8, <1>9, <1>10, <1>11, <1>12

\* The end of a frame keeps the invariant: removal, breeding, growth and termination.
LEMMA SettleKeeps ==
  ASSUME WorldInv, NEW at \in GrowthPlaces, Settle(at)
  PROVE  WorldInv'
<1> DEFINE m == metrics
           n == metrics'
<1>1. Typed /\ Booked /\ Counted
  BY DEF WorldInv
<1>2. PICK numbers : numbers = nextCreature .. nextCreature + Cardinality(Breeders) - 1
  OBVIOUS
<1>3. /\ DOMAIN creatures' = Alive \union numbers
      /\ creatures' \in [DOMAIN creatures' -> Creature]
      /\ Cardinality(DOMAIN creatures') = Cardinality(Alive) + Cardinality(Breeders)
      /\ Cardinality(Breeders) \in Nat /\ Cardinality(Alive) \in Nat
      /\ Cardinality(DOMAIN creatures') <= Config.lineage_cap
      /\ nextCreature' = nextCreature + Cardinality(Breeders)
      /\ \A c \in Alive : creatures'[c].age = creatures[c].age
      /\ \A c \in numbers : creatures'[c].age = 0
      /\ Alive' = DOMAIN creatures' /\ Dead' = {} /\ Low' = Low \intersect Alive
  BY <1>2, SettleFacts
<1>4. /\ n \in Readings
      /\ n.deaths = m.deaths + Cardinality(Dead)
      /\ n.born = m.born + Cardinality(Breeders)
      /\ n.extinctFrame = (IF DOMAIN creatures' = {} THEN frame + 1 ELSE m.extinctFrame)
      /\ n.early => DOMAIN creatures' = {}
      /\ n.food = m.food /\ n.water = m.water /\ n.recoveries = m.recoveries
      /\ n.opportunities = m.opportunities /\ n.aliveFrames = m.aliveFrames
      /\ n.hydrated = m.hydrated /\ n.severe = m.severe /\ n.fireContacts = m.fireContacts
      /\ n.fireDeaths = m.fireDeaths /\ n.founderSurvival = m.founderSurvival
      /\ n.offspringSurvival = m.offspringSurvival
      /\ n.offspringPossible = m.offspringPossible
  BY <1>2, SettleFacts
<1>5. /\ frame' = frame + 1 /\ frame < Config.max_frames
      /\ pc' \in {"extinction", "max_frames", "sense"}
      /\ pc' = "extinction" <=> DOMAIN creatures' = {}
      /\ DOMAIN decisions = {} /\ decisions' = decisions /\ profile' = profile
      /\ peak' = Max({peak, Cardinality(DOMAIN creatures')})
  BY <1>2, SettleFacts
<1>6. Acting /\ ~Acting'
  BY <1>2, SettleFacts
<1>7. One(Acting) = 1 /\ One(Acting') = 0
  BY <1>6 DEF One
<1>8. m \in Readings /\ frame \in Nat /\ peak \in Nat /\ pc # "extinction"
  <2>1. m \in Readings /\ frame \in Nat /\ peak \in Nat
    BY <1>1 DEF Typed, TypedControl
  <2> QED
    BY <1>6, <2>1 DEF Acting
<1>9. /\ m.food \in Nat /\ m.water \in Nat /\ m.born \in Nat /\ m.deaths \in Nat
      /\ m.recoveries \in Nat /\ m.opportunities \in Nat /\ m.aliveFrames \in Nat
      /\ m.fireDeaths \in Nat /\ m.founderSurvival \in Nat
      /\ m.offspringSurvival \in Nat /\ m.offspringPossible \in Nat
  BY <1>8, ReadingFields
<1>10. peak' \in Nat /\ Cardinality(DOMAIN creatures') <= peak' /\ peak' <= Config.lineage_cap
  <2>1. PICK size \in Nat : size = Cardinality(DOMAIN creatures')
    BY <1>3
  <2>2. peak' \in {peak, size} /\ size <= peak'
    <3>1. Max({peak, size}) \in {peak, size} /\ size <= Max({peak, size})
      BY <1>8, MaxOfTwo
    <3> QED
      BY <1>5, <2>1, <3>1
  <2>3. peak <= Config.lineage_cap
    BY <1>1 DEF Counted
  <2> QED
    BY <1>3, <1>8, <2>1, <2>2, <2>3
<1>11. Typed'
  <2>1. TypedCreatures'
    <3>1. nextCreature \in Nat \ {0} /\ Alive \subseteq 1 .. nextCreature - 1
      BY <1>1 DEF Typed, TypedCreatures, Alive
    <3>2. nextCreature' \in Nat \ {0} /\ DOMAIN creatures' \subseteq 1 .. nextCreature' - 1
      BY <1>2, <1>3, <3>1
    <3> QED
      BY <1>3, <3>2 DEF TypedCreatures
  <2>2. TypedResources'
    BY <1>1, GrownWorld
  <2>3. TypedControl'
    <3>1. profile' \in {"standard", "water_fire_challenge"}
      BY <1>1, <1>5 DEF Typed, TypedControl
    <3>2. frame' \in 0 .. Config.max_frames
      <4>1. Config.max_frames \in Nat
        BY ConfigFacts
      <4> QED
        BY <1>5, <1>8, <4>1
    <3> QED
      BY <1>4, <1>5, <1>6, <1>10, <3>1, <3>2 DEF TypedControl
  <2>4. TypedDecisions'
    <3>1. decisions' = [c \in DOMAIN decisions' |-> decisions'[c]]
      BY <1>1, <1>5 DEF Typed, TypedDecisions
    <3> QED
      BY <1>3, <1>5, <3>1 DEF TypedDecisions
  <2> QED
    BY <2>1, <2>2, <2>3, <2>4 DEF Typed
<1>12. Booked'
  <2>1. BookedResources'
    <3>1. nextResource - 1 = Cardinality(DOMAIN resources) + m.food + m.water
      BY <1>1 DEF Booked, BookedResources
    <3>2. /\ Cardinality(DOMAIN resources')
               = Cardinality(DOMAIN resources) + Count("food") + Count("water")
          /\ nextResource' = nextResource + Count("food") + Count("water")
          /\ \A k \in Grown : Cardinality(OfKind(resources, k)') <= Capacity(k)
      BY <1>1, GrownWorld
    <3>3. Count("food") \in Nat /\ Count("water") \in Nat
      BY <1>1, GrowthFacts DEF Grown
    <3>4. Cardinality(DOMAIN resources) \in Nat /\ nextResource \in Nat
      BY <1>1, FiniteWorld, FS_CardinalityType DEF Typed, TypedResources
    <3>5. PICK food \in Nat, water \in Nat : food = Count("food") /\ water = Count("water")
      BY <3>3
    <3>6. /\ Cardinality(DOMAIN resources') = Cardinality(DOMAIN resources) + food + water
          /\ nextResource' = nextResource + food + water
      BY <3>2, <3>5
    <3>7. n.food = m.food /\ n.water = m.water
      BY <1>4
    <3>8. nextResource' - 1 = Cardinality(DOMAIN resources') + n.food + n.water
      <4>1. PICK held \in Nat, eaten \in Nat, drunk \in Nat, next \in Nat :
              /\ held = Cardinality(DOMAIN resources) /\ next = nextResource
              /\ eaten = m.food /\ drunk = m.water
        BY <1>9, <3>4
      <4>2. next - 1 = held + eaten + drunk
        BY <3>1, <4>1
      <4>3. (next + food + water) - 1 = (held + food + water) + eaten + drunk
        BY <4>2
      <4> HIDE DEF m, n
      <4> QED
        BY <3>6, <3>7, <4>1, <4>3
    <3> QED
      BY <3>2, <3>8 DEF BookedResources, Capacity
  <2>2. BookedCreatures'
    <3>1. nextCreature - 1 = 1 + m.born
          /\ nextCreature - 1 = Cardinality(DOMAIN creatures) + m.deaths
      BY <1>1 DEF Booked, BookedCreatures
    <3>2. Cardinality(DOMAIN creatures) = Cardinality(Alive) + Cardinality(Dead)
      <4>1. Alive \union Dead = DOMAIN creatures /\ Alive \intersect Dead = {}
        BY DEF Alive, Dead
      <4> QED
        BY <1>1, <4>1, FiniteWorld, DisjointSizes
    <3>3. Cardinality(Dead) \in Nat /\ nextCreature \in Nat
      BY <1>1, FiniteWorld, FS_CardinalityType DEF Typed, TypedCreatures
    <3>4. /\ Cardinality(DOMAIN creatures') = Cardinality(Alive) + Cardinality(Breeders)
          /\ Cardinality(Breeders) \in Nat /\ Cardinality(Alive) \in Nat
          /\ nextCreature' = nextCreature + Cardinality(Breeders)
          /\ n.deaths = m.deaths + Cardinality(Dead)
          /\ n.born = m.born + Cardinality(Breeders)
          /\ m.born \in Nat /\ m.deaths \in Nat
      BY <1>3, <1>4, <1>9
    <3>5. /\ nextCreature' - 1 = 1 + n.born
          /\ nextCreature' - 1 = Cardinality(DOMAIN creatures') + n.deaths
      <4> HIDE DEF m, n
      <4> QED
        BY <3>1, <3>2, <3>3, <3>4
    <3> QED
      BY <3>5 DEF BookedCreatures
  <2> QED
    BY <2>1, <2>2 DEF Booked
<1>13. Counted'
  <2>1. ASSUME NEW c \in DOMAIN creatures'
        PROVE  creatures'[c].age + One(c \in DOMAIN decisions') <= frame' + One(Acting')
    <3>1. One(c \in DOMAIN decisions') = 0
      BY <1>5, OneFacts
    <3>2. CASE c \in Alive
      <4>1. c \in DOMAIN creatures
        BY <3>2 DEF Alive
      <4>2. creatures[c].age + One(c \in DOMAIN decisions) <= frame + 1
        BY <1>1, <1>7, <4>1 DEF Counted
      <4>3. One(c \in DOMAIN decisions) = 0
        BY <1>5, OneFacts
      <4>4. creatures[c].age \in Nat
        BY <1>1, <4>1, CreatureFields DEF Typed, TypedCreatures
      <4>5. creatures[c].age <= frame + 1
        BY <1>8, <4>2, <4>3, <4>4
      <4>6. creatures'[c].age = creatures[c].age
        BY <1>3, <3>2
      <4> QED
        BY <1>5, <1>7, <1>8, <3>1, <4>4, <4>5, <4>6
    <3>3. CASE c \in numbers
      <4>1. creatures'[c].age = 0
        BY <1>3, <3>3
      <4> QED
        BY <1>5, <1>7, <1>8, <3>1, <4>1
    <3> QED
      BY <1>3, <3>2, <3>3
  <2>2. n.founderSurvival <= frame' + One(Acting')
    <3>1. m.founderSurvival <= frame + 1
      BY <1>1, <1>7 DEF Counted
    <3> QED
      BY <1>4, <1>5, <1>7, <1>8, <1>9, <3>1
  <2>3. n.recoveries + Cardinality(Low') <= n.opportunities
    <3>1. m.recoveries + Cardinality(Low) <= m.opportunities
      BY <1>1 DEF Counted
    <3>2. Cardinality(Low') <= Cardinality(Low) /\ Cardinality(Low') \in Nat
          /\ Cardinality(Low) \in Nat
      <4>1. Low' \in SUBSET Low
        BY <1>3
      <4> QED
        BY <1>1, <4>1, FiniteWorld, SizeFacts
    <3> QED
      BY <1>4, <1>9, <3>1, <3>2
  <2>4. n.aliveFrames + Cardinality(DOMAIN decisions') <= (frame' + One(Acting')) * Config.lineage_cap
    <3>1. m.aliveFrames + Cardinality(DOMAIN decisions) <= (frame + 1) * Config.lineage_cap
      BY <1>1, <1>7 DEF Counted
    <3>2. frame' + One(Acting') = frame + 1
      BY <1>5, <1>7, <1>8
    <3> QED
      BY <1>4, <1>5, <3>1, <3>2
  <2>5. n.offspringSurvival + Cardinality(DOMAIN decisions' \ {1}) <= n.offspringPossible
    BY <1>1, <1>4, <1>5 DEF Counted
  <2>6. n.fireDeaths <= n.deaths + Cardinality(Dead')
    <3>1. m.fireDeaths <= m.deaths + Cardinality(Dead)
      BY <1>1 DEF Counted
    <3>2. Cardinality(Dead') = 0 /\ Cardinality(Dead) \in Nat
      BY <1>1, <1>3, FS_EmptySet, FiniteWorld, FS_CardinalityType
    <3> QED
      BY <1>4, <1>9, <3>1, <3>2
  <2>7. /\ n.fireContacts <= n.aliveFrames /\ n.hydrated <= n.aliveFrames
        /\ n.severe <= n.aliveFrames /\ n.offspringSurvival <= n.aliveFrames
    BY <1>1, <1>4 DEF Counted
  <2>8. /\ n.extinctFrame \in {-1} \union 0 .. frame'
        /\ n.extinctFrame # -1 <=> pc' = "extinction"
        /\ n.early => pc' = "extinction"
    <3>1. m.extinctFrame = -1
      BY <1>1, <1>8, ReadingFields DEF Counted
    <3> QED
      BY <1>4, <1>5, <1>8, <3>1
  <2> HIDE DEF m
  <2> QED
    BY <1>10, <2>1, <2>2, <2>3, <2>4, <2>5, <2>6, <2>7, <2>8 DEF Counted
<1>14. Sensed'
  BY <1>5 DEF Sensed, FirstActs
<1> QED
  BY <1>11, <1>12, <1>13, <1>14 DEF WorldInv

--------------------------------------------------------------------------------
(* A trial.                                                                     *)

\* Every step of a trial keeps the invariant.
LEMMA NextKeeps ==
  ASSUME WorldInv, [Next]_vars
  PROVE  WorldInv'
<1>1. CASE BeginFrame
  BY <1>1, BeginFrameKeeps
<1>2. CASE \E c \in DOMAIN creatures, p \in Points : Act(c, p)
  <2>1. PICK c \in DOMAIN creatures, p \in Points : Act(c, p)
    BY <1>2
  <2> QED
    BY <2>1, ActTyped, ActBooked, ActCounted, ActSensed DEF WorldInv
<1>3. CASE pc = "settle" /\ \E at \in GrowthPlaces : Settle(at)
  BY <1>3, SettleKeeps
<1>4. CASE UNCHANGED vars
  BY <1>4, WorldStutters
<1> QED
  BY <1>1, <1>2, <1>3, <1>4 DEF Next

\* The inductive invariant of a trial.
THEOREM WorldInvariant == Spec => []WorldInv
<1>1. Init => WorldInv
  BY InitWorld
<1>2. WorldInv /\ [Next]_vars => WorldInv'
  BY NextKeeps
<1> QED
  BY <1>1, <1>2, PTL DEF Spec

\* The books of the invariant are the balance of a trial.
LEMMA InvariantBalances ==
  ASSUME WorldInv
  PROVE  Balanced
<1>1. Typed /\ Booked
  BY DEF WorldInv
<1>2. TypeOK
  <2>1. \A c \in DOMAIN creatures : c \in 1 .. nextCreature - 1 /\ creatures[c].at \in Points
    BY <1>1, CreatureFields DEF Typed, TypedCreatures
  <2>2. \A r \in DOMAIN resources : r \in 1 .. nextResource - 1 /\ resources[r].kind \in Kinds
                                    /\ resources[r].at \in Points
    BY <1>1, ResourceFields DEF Typed, TypedResources
  <2> QED
    BY <1>1, <2>1, <2>2 DEF TypeOK, Typed, TypedControl
<1> QED
  BY <1>1, <1>2 DEF Balanced, Booked, BookedResources, BookedCreatures

\* Nothing is eaten twice and nobody dies twice, in a world of any size: what ever was
\* there is there or was counted once (v35 l. 748-766, 854-855), and no kind of resource
\* grows beyond its capacity (_regenerate, l. 827-841).
THEOREM TheBooksBalance == Spec => []Balanced
<1>1. WorldInv => Balanced
  BY InvariantBalances
<1> QED
  BY <1>1, WorldInvariant, PTL

\* The counters of the invariant pass validate_trial_summary when the trial is over.
LEMMA InvariantValidates ==
  ASSUME WorldInv
  PROVE  TrialValidates
<1> SUFFICES ASSUME Over
             PROVE  /\ ValidPopulation /\ ValidMetrics /\ ValidComponents
                    /\ metrics.extinctFrame # -1 <=> pc = "extinction"
                    /\ metrics.early => pc = "extinction"
                    /\ metrics.fireDeaths <= metrics.deaths
  BY DEF TrialValidates
<1>1. Typed /\ Counted
  BY DEF WorldInv
<1>2. ~Acting /\ pc # "act"
  BY DEF Over, Acting
<1>3. DOMAIN decisions = {} /\ Dead = {}
  BY <1>1, <1>2 DEF Typed, TypedDecisions
<1>4. DOMAIN decisions \ {1} = {} /\ One(Acting) = 0
  BY <1>2, <1>3 DEF One
<1>5. Cardinality(DOMAIN decisions) = 0 /\ Cardinality(DOMAIN decisions \ {1}) = 0
      /\ Cardinality(Dead) = 0
  BY <1>3, <1>4, FS_EmptySet
<1>6. Cardinality(Low) \in Nat
  BY <1>1, FiniteWorld, FS_CardinalityType
<1>7. frame \in Nat /\ Config.lineage_cap \in Nat /\ metrics \in Readings
  BY <1>1, ConfigFacts DEF Typed, TypedControl
<1>8. /\ metrics.recoveries \in Nat /\ metrics.opportunities \in Nat
      /\ metrics.aliveFrames \in Nat /\ metrics.fireDeaths \in Nat /\ metrics.deaths \in Nat
      /\ metrics.founderSurvival \in Nat /\ metrics.offspringSurvival \in Nat
      /\ metrics.offspringPossible \in Nat
  BY <1>7, ReadingFields
<1>9. PICK most \in Int : most = frame * Config.lineage_cap
  BY <1>7
<1>10. metrics.founderSurvival <= frame
  BY <1>1, <1>4, <1>7, <1>8 DEF Counted
<1>11. metrics.aliveFrames <= most
  <2>1. metrics.aliveFrames + 0 <= (frame + 0) * Config.lineage_cap
    BY <1>1, <1>4, <1>5 DEF Counted
  <2>2. frame + 0 = frame
    BY <1>7
  <2> QED
    BY <1>8, <1>9, <2>1, <2>2
<1>12. metrics.offspringSurvival <= most
  <2>1. metrics.offspringSurvival <= metrics.aliveFrames
    BY <1>1 DEF Counted
  <2> QED
    BY <1>8, <1>11, <2>1
<1>13. metrics.recoveries <= metrics.opportunities
  <2>1. metrics.recoveries + Cardinality(Low) <= metrics.opportunities
    BY <1>1 DEF Counted
  <2> QED
    BY <1>6, <1>8, <2>1
<1>14. metrics.offspringSurvival <= metrics.offspringPossible
  <2>1. metrics.offspringSurvival + 0 <= metrics.offspringPossible
    BY <1>1, <1>5 DEF Counted
  <2> QED
    BY <1>8, <2>1
<1>15. metrics.fireDeaths <= metrics.deaths
  <2>1. metrics.fireDeaths <= metrics.deaths + 0
    BY <1>1, <1>5 DEF Counted
  <2> QED
    BY <1>8, <2>1
<1>16. ValidPopulation
  BY <1>1 DEF Counted, ValidPopulation
<1>17. ValidMetrics
  BY <1>1, <1>9, <1>10, <1>11, <1>12, <1>13 DEF Counted, ValidMetrics
<1>18. ValidComponents
  BY <1>1, <1>14 DEF Counted, ValidComponents
<1>19. (metrics.extinctFrame # -1 <=> pc = "extinction")
       /\ (metrics.early => pc = "extinction")
  BY <1>1 DEF Counted
<1> QED
  BY <1>15, <1>16, <1>17, <1>18, <1>19

\* Every finished trial passes validate_trial_summary (v35 l. 485-509), whatever the world
\* and the creatures were: no counter runs ahead of another one, no ratio of the fitness
\* leaves 0 .. 1, and the cap of the lineage is kept.
THEOREM FinishedTrialsValidate == Spec => []TrialValidates
<1>1. WorldInv => TrialValidates
  BY InvariantValidates
<1> QED
  BY <1>1, WorldInvariant, PTL

\* In an exact grid every answer is that of a walk through the list.
LEMMA InvariantQueries ==
  ASSUME WorldInv
  PROVE  QueriesAreExact
<1>1. Typed /\ Sensed
  BY DEF WorldInv
<1>2. ASSUME NEW k \in Kinds
      PROVE  index[k] = {<<Key(resources[r].at), r>> : r \in OfKind(resources, k)}
  BY <1>1 DEF Typed, TypedResources, Grid
<1>3. ASSUME NEW k \in Kinds
      PROVE  {e[2] : e \in index[k]} = OfKind(resources, k)
  <2>1. \A r \in OfKind(resources, k) : <<Key(resources[r].at), r>> \in index[k]
                                        /\ <<Key(resources[r].at), r>>[2] = r
    BY <1>2
  <2>2. \A e \in index[k] : e[2] \in OfKind(resources, k)
    BY <1>2
  <2>3. ASSUME NEW r \in OfKind(resources, k)
        PROVE  r \in {e[2] : e \in index[k]}
    <3>1. PICK e \in index[k] : e[2] = r
      BY <2>1
    <3> QED
      BY <3>1
  <2> QED
    BY <2>2, <2>3
<1>4. ASSUME NEW k \in Kinds, NEW p \in Points,
             NEW radius \in {Config.touch_distance, Config.vision_range}
      PROVE  Query(index[k], Places(resources), p, radius) = FoundByWalking(k, p, radius)
  <2>1. \A r \in OfKind(resources, k) : Places(resources)[r] = resources[r].at
                                        /\ resources[r].at \in Points
    BY <1>1, ResourceFields DEF Typed, TypedResources, Places, OfKind
  <2>2. radius \in Nat
    BY ConfigFacts
  <2>3. index[k] = {<<Key(Places(resources)[r]), r>> : r \in OfKind(resources, k)}
    BY <1>2, <2>1
  <2>4. \A r \in OfKind(resources, k) : Places(resources)[r] \in Points
    BY <2>1
  <2>5. Query(index[k], Places(resources), p, radius)
          = {r \in OfKind(resources, k) : Within(Places(resources)[r], p, radius)}
    BY <2>2, <2>3, <2>4, QueryIsWalk
  <2> QED
    BY <2>1, <2>5 DEF FoundByWalking
<1> QED
  BY <1>1, <1>3, <1>4 DEF QueriesAreExact, Sensed

\* The grids answer exactly what a walk through the list would, for every size of the world,
\* of a cell and of a radius (SpatialIndex, v35 l. 677-682, 748-766).
THEOREM GridsAnswerExactly == Spec => []QueriesAreExact
<1>1. WorldInv => QueriesAreExact
  BY InvariantQueries
<1> QED
  BY <1>1, WorldInvariant, PTL

--------------------------------------------------------------------------------
(* A rollout.                                                                   *)

\* A step of a rollout is a step of the world or leaves it alone.
LEMMA RolloutSteps ==
  ASSUME [RolloutNext]_rolloutVars
  PROVE  [Next]_vars
<1>1. CASE finished = NoResult /\ BeginFrame /\ UNCHANGED <<sampled, trajectories, finished>>
  BY <1>1 DEF Next
<1>2. CASE \E c \in DOMAIN creatures, p \in Points : SampledAct(c, p)
  BY <1>2 DEF Next, SampledAct
<1>3. CASE pc = "settle" /\ \E at \in GrowthPlaces :
             Settle(at) /\ UNCHANGED <<sampled, trajectories, finished>>
  BY <1>3 DEF Next
<1>4. CASE Finish
  BY <1>4 DEF Finish
<1>5. CASE UNCHANGED rolloutVars
  BY <1>5 DEF rolloutVars
<1> QED
  BY <1>1, <1>2, <1>3, <1>4, <1>5 DEF RolloutNext

\* A rollout of v36 or v37 is a trial: what they override watches the world and changes
\* nothing in it.  So the theorems above are theorems about rollouts too.
THEOREM RolloutsAreTrials == RolloutSpec => Spec
<1>1. RolloutInit => Init
  BY DEF RolloutInit
<1>2. [RolloutNext]_rolloutVars => [Next]_vars
  BY RolloutSteps
<1> QED
  BY <1>1, <1>2, PTL DEF RolloutSpec, Spec

\* The counters a reward can be about.
LEMMA CauseFacts ==
  ASSUME metrics \in Readings
  PROVE  \A k \in Causes : metrics[k] \in Nat
<1>1. metrics["food"] \in Nat /\ metrics["water"] \in Nat /\ metrics["recoveries"] \in Nat
      /\ metrics["fireContacts"] \in Nat
  BY DEF Readings
<1> QED
  BY <1>1 DEF Causes

\* By an act each of them grows by at most one.
LEMMA CausesGrow ==
  ASSUME Typed, NEW c \in DOMAIN creatures, NEW p \in Points, Act(c, p), NEW k \in Causes
  PROVE  metrics'[k] \in {metrics[k], metrics[k] + 1}
<1> DEFINE old == creatures[c]
           new == Aged(creatures[c], p, Met(p))
           met == Met(p)
           m == metrics
<1> HIDE DEF old, new, met
<1>1. old \in Creature /\ new \in Creature
  BY ActFacts DEF old, new
<1>2. metrics' = Measured(c, old, new, met)
  BY DEF Act, old, new, met
<1>3. m \in Readings
  BY DEF Typed, TypedControl
<1>4. /\ metrics'.food = m.food + One(met.food # {})
      /\ metrics'.water = m.water + One(met.water # {})
      /\ metrics'.recoveries = m.recoveries + One(met.water # {} /\ old.low)
      /\ metrics'.fireContacts = m.fireContacts + One(met.burns)
  BY <1>1, <1>2, <1>3, MeasuredFacts
<1>5. m.food \in Nat /\ m.water \in Nat /\ m.recoveries \in Nat /\ m.fireContacts \in Nat
  BY <1>3, ReadingFields
<1>6. /\ metrics'["food"] \in {m["food"], m["food"] + 1}
      /\ metrics'["water"] \in {m["water"], m["water"] + 1}
      /\ metrics'["recoveries"] \in {m["recoveries"], m["recoveries"] + 1}
      /\ metrics'["fireContacts"] \in {m["fireContacts"], m["fireContacts"] + 1}
  <2>1. /\ One(met.food # {}) \in {0, 1} /\ One(met.water # {}) \in {0, 1}
        /\ One(met.water # {} /\ old.low) \in {0, 1} /\ One(met.burns) \in {0, 1}
    BY OneFacts
  <2> QED
    BY <1>4, <1>5, <2>1
<1> QED
  BY <1>6 DEF Causes

\* One entry for each unit that a creature of D was paid.
Entries(D, paid) == UNION {{d} \X (1 .. paid[d]) : d \in D}

\* Creature c, which had old, has new, and D2 is D with it; the others have what they had.
Pays(D, D2, paid, paid2, c, old, new) ==
  /\ old \in Nat /\ new \in {old, old + 1}
  /\ D2 = D \union {c}
  /\ \A d \in D : d # c => paid2[d] = paid[d]
  /\ paid2[c] = new
  /\ c \in D => paid[c] = old
  /\ c \notin D => old = 0

\* One more transition is one more payment if it is paid, and none otherwise.
LEMMA PaymentsGrow ==
  ASSUME NEW D, NEW D2, NEW paid, NEW paid2, NEW c, NEW old, NEW new,
         Pays(D, D2, paid, paid2, c, old, new), IsFiniteSet(Entries(D, paid))
  PROVE  /\ IsFiniteSet(Entries(D2, paid2))
         /\ Cardinality(Entries(D2, paid2)) = Cardinality(Entries(D, paid)) + (new - old)
<1> USE DEF Pays
<1> DEFINE before == Entries(D, paid)
           after == Entries(D2, paid2)
<1>1. \A x : x \in before <=> \E d \in D : x \in {d} \X (1 .. paid[d])
  BY DEF Entries
<1>2. \A x : x \in after <=> \E d \in D2 : x \in {d} \X (1 .. paid2[d])
  BY DEF Entries
<1>3. IsFiniteSet(before)
  OBVIOUS
<1> HIDE DEF before, after
<1>4. CASE new = old
  <2>1. ASSUME NEW x \in after
        PROVE  x \in before
    <3>1. PICK d \in D2 : x \in {d} \X (1 .. paid2[d])
      BY <1>2
    <3>2. CASE d = c /\ c \notin D
      <4>1. 1 .. paid2[d] = {}
        BY <1>4, <3>2
      <4> QED
        BY <3>1, <4>1
    <3>3. CASE d \in D
      <4>1. paid2[d] = paid[d]
        BY <1>4, <3>3
      <4> QED
        BY <1>1, <3>1, <3>3, <4>1
    <3> QED
      BY <3>2, <3>3
  <2>2. ASSUME NEW x \in before
        PROVE  x \in after
    <3>1. PICK d \in D : x \in {d} \X (1 .. paid[d])
      BY <1>1
    <3>2. paid2[d] = paid[d]
      BY <1>4
    <3>3. d \in D2
      OBVIOUS
    <3> QED
      BY <1>2, <3>1, <3>2, <3>3
  <2>3. after = before
    BY <2>1, <2>2
  <2>4. Cardinality(before) \in Nat
    BY <1>3, FS_CardinalityType
  <2> QED
    BY <1>4, <1>3, <2>3, <2>4 DEF before, after
<1>5. CASE new = old + 1
  <2> DEFINE fresh == <<c, old + 1>>
  <2>1. 1 .. old + 1 = (1 .. old) \union {old + 1}
    OBVIOUS
  <2>2. fresh \notin before
    <3> SUFFICES ASSUME fresh \in before
                 PROVE  FALSE
      OBVIOUS
    <3>1. PICK d \in D : fresh \in {d} \X (1 .. paid[d])
      BY <1>1
    <3>2. d = c /\ old + 1 \in 1 .. paid[d]
      BY <3>1
    <3>3. paid[d] = old
      BY <3>2
    <3> QED
      BY <3>2, <3>3
  <2>3. ASSUME NEW x \in after
        PROVE  x \in before \union {fresh}
    <3>1. PICK d \in D2 : x \in {d} \X (1 .. paid2[d])
      BY <1>2
    <3>2. CASE d = c
      <4>1. x \in {c} \X ((1 .. old) \union {old + 1})
        BY <1>5, <2>1, <3>1, <3>2
      <4>2. x = fresh \/ x \in {c} \X (1 .. old)
        BY <4>1
      <4>3. ASSUME x \in {c} \X (1 .. old)
            PROVE  x \in before
        <5>1. c \in D
          <6> SUFFICES ASSUME c \notin D
                       PROVE  FALSE
            OBVIOUS
          <6>1. 1 .. old = {}
            OBVIOUS
          <6> QED
            BY <4>3, <6>1
        <5>2. paid[c] = old
          BY <5>1
        <5> QED
          BY <1>1, <4>3, <5>1, <5>2
      <4> QED
        BY <4>2, <4>3
    <3>3. CASE d # c
      <4>1. d \in D /\ paid2[d] = paid[d]
        BY <3>3
      <4> QED
        BY <1>1, <3>1, <4>1
    <3> QED
      BY <3>2, <3>3
  <2>4. ASSUME NEW x \in before
        PROVE  x \in after
    <3>1. PICK d \in D : x \in {d} \X (1 .. paid[d])
      BY <1>1
    <3>2. d \in D2
      OBVIOUS
    <3>3. CASE d = c
      <4>1. paid[d] = old /\ paid2[d] = old + 1
        BY <1>5, <3>3
      <4>2. 1 .. old \subseteq 1 .. old + 1
        OBVIOUS
      <4>3. x \in {d} \X (1 .. old + 1)
        BY <3>1, <4>1, <4>2
      <4> QED
        BY <1>2, <3>2, <4>1, <4>3
    <3>4. CASE d # c
      BY <1>2, <3>1, <3>2, <3>4
    <3> QED
      BY <3>3, <3>4
  <2>5. fresh \in after
    <3>1. old + 1 \in 1 .. paid2[c]
      BY <1>5
    <3>2. fresh \in {c} \X (1 .. paid2[c])
      BY <3>1
    <3>3. c \in D2
      OBVIOUS
    <3> QED
      BY <1>2, <3>2, <3>3
  <2>6. after = before \union {fresh}
    BY <2>3, <2>4, <2>5
  <2>7. Cardinality(before) \in Nat
    BY <1>3, FS_CardinalityType
  <2> HIDE DEF fresh
  <2>8. IsFiniteSet(after) /\ Cardinality(after) = Cardinality(before) + 1
    BY <1>3, <2>2, <2>6, FS_AddElement
  <2> QED
    BY <1>5, <2>7, <2>8 DEF before, after
<1> QED
  BY <1>4, <1>5 DEF before, after

\* The trajectory of a creature is a sequence of transitions.
LEMMA TrajectoryFacts ==
  ASSUME Rewarded, sampled # "no", NEW c
  PROVE  /\ Trajectory(c) \in Transitions
         /\ Trajectory(c).length \in Nat /\ Trajectory(c).rewards \in [Causes -> Nat]
         /\ c \notin DOMAIN trajectories
              => Trajectory(c).length = 0 /\ \A k \in Causes : Trajectory(c).rewards[k] = 0
<1>1. NoTransition \in Transitions /\ NoTransition.length = 0
      /\ NoTransition.rewards = [k \in Causes |-> 0]
  BY DEF NoTransition, Transitions
<1>2. Trajectory(c) \in Transitions
  BY <1>1 DEF Trajectory, Rewarded
<1>3. \A t \in Transitions : t.length \in Nat /\ t.rewards \in [Causes -> Nat]
  BY DEF Transitions
<1> QED
  BY <1>1, <1>2, <1>3 DEF Trajectory

\* What the rewards are about did not change, so they are still right.
LEMMA RewardedKept ==
  ASSUME Rewarded, UNCHANGED <<sampled, trajectories, nextCreature, creatures>>,
         \A k \in Causes : metrics'[k] = metrics[k]
  PROVE  Rewarded'
<1>1. Alive' = Alive
  BY DEF Alive
<1>2. \A k : Payments(k)' = Payments(k)
  BY DEF Payments
<1>3. \A c : Trajectory(c)' = Trajectory(c)
  BY DEF Trajectory
<1>4. sampled' = sampled /\ trajectories' = trajectories /\ nextCreature' = nextCreature
      /\ creatures' = creatures
  OBVIOUS
<1>5. CASE sampled = "no"
  BY <1>4, <1>5 DEF Rewarded
<1>6. CASE sampled # "no"
  <2>1. \A k \in Causes : IsFiniteSet(Payments(k)') /\ Cardinality(Payments(k)') = metrics'[k]
    BY <1>2, <1>6 DEF Rewarded
  <2>2. \A c \in DOMAIN creatures' : Trajectory(c)'.length = creatures'[c].age
    BY <1>3, <1>4, <1>6 DEF Rewarded
  <2>3. \A c \in 1 .. nextCreature' - 1 : Trajectory(c)'.deaths = One(c \notin Alive')
    BY <1>1, <1>3, <1>4, <1>6 DEF Rewarded
  <2>4. \A c \in DOMAIN trajectories' : trajectories'[c].done <=> c \notin Alive'
    BY <1>1, <1>4, <1>6 DEF Rewarded
  <2>5. /\ sampled' \in {"no", "v36", "v37"}
        /\ trajectories' \in [DOMAIN trajectories' -> Transitions]
        /\ DOMAIN trajectories' \subseteq 1 .. nextCreature' - 1
    BY <1>4, <1>6 DEF Rewarded
  <2> QED
    BY <2>1, <2>2, <2>3, <2>4, <2>5 DEF Rewarded
<1> QED
  BY <1>5, <1>6

\* The begin of a frame pays nothing.
LEMMA BeginFrameRewarded ==
  ASSUME WorldInv, Rewarded, BeginFrame, UNCHANGED <<sampled, trajectories>>
  PROVE  Rewarded'
<1>1. metrics' = [metrics EXCEPT !.offspringPossible = @ + metrics.born]
      /\ UNCHANGED <<creatures, nextCreature>>
  BY DEF BeginFrame, Sense, SenseWith
<1>2. metrics \in Readings
  BY DEF WorldInv, Typed, TypedControl
<1>3. /\ metrics'["food"] = metrics["food"] /\ metrics'["water"] = metrics["water"]
      /\ metrics'["recoveries"] = metrics["recoveries"]
      /\ metrics'["fireContacts"] = metrics["fireContacts"]
  BY <1>1, <1>2 DEF Readings
<1>4. \A k \in Causes : metrics'[k] = metrics[k]
  BY <1>3 DEF Causes
<1> QED
  BY <1>1, <1>4, RewardedKept

\* An act pays the creature that acted what the counters count.
LEMMA SampledActRewarded ==
  ASSUME WorldInv, Rewarded, NEW c \in DOMAIN creatures, NEW p \in Points, SampledAct(c, p)
  PROVE  Rewarded'
<1>1. Act(c, p) /\ sampled' = sampled /\ Typed
  BY DEF SampledAct, WorldInv
<1>2. CASE sampled = "no"
  BY <1>1, <1>2 DEF Rewarded
<1>3. CASE sampled # "no"
  <2> DEFINE old == creatures[c]
             new == Aged(creatures[c], p, Met(p))
             was == Trajectory(c)
             now == Transition(c)
  <2>1. trajectories' = [d \in DOMAIN trajectories \union {c} |->
                           IF d = c THEN now ELSE trajectories[d]]
    BY <1>3 DEF SampledAct
  <2>2. now = [length |-> was.length + 1,
               rewards |-> [k \in Causes |-> was.rewards[k] + metrics'[k] - metrics[k]],
               deaths |-> was.deaths + One(~creatures'[c].alive),
               done |-> ~creatures'[c].alive]
    BY DEF Transition
  <2> HIDE DEF old, new, was, now
  <2>3. /\ old \in Creature /\ new \in Creature
        /\ c \in Alive /\ DOMAIN creatures' = DOMAIN creatures
        /\ creatures'[c] = new
        /\ \A d \in DOMAIN creatures : d # c => creatures'[d] = creatures[d]
        /\ Alive' = IF new.alive THEN Alive ELSE Alive \ {c}
        /\ new.age = old.age + 1
    BY <1>1, ActFacts DEF old, new
  <2>4. was \in Transitions /\ was.length \in Nat /\ was.rewards \in [Causes -> Nat]
    BY <1>3, TrajectoryFacts DEF was
  <2>5. c \in 1 .. nextCreature - 1 /\ nextCreature' = nextCreature
    BY <1>1 DEF Typed, TypedCreatures, Act
  <2>6. was.deaths = 0
    <3>1. was.deaths = One(c \notin Alive)
      BY <1>3, <2>5 DEF Rewarded, was
    <3> QED
      BY <2>3, <3>1, OneFacts
  <2>7. metrics \in Readings /\ \A k \in Causes : metrics[k] \in Nat
    BY <1>1, CauseFacts DEF Typed, TypedControl
  <2>8. ASSUME NEW k \in Causes
        PROVE  /\ was.rewards[k] \in Nat
               /\ now.rewards[k] \in {was.rewards[k], was.rewards[k] + 1}
               /\ metrics'[k] - metrics[k] = now.rewards[k] - was.rewards[k]
               /\ metrics'[k] \in Nat
    <3>1. metrics'[k] \in {metrics[k], metrics[k] + 1}
      BY <1>1, CausesGrow
    <3>2. now.rewards[k] = was.rewards[k] + (metrics'[k] - metrics[k])
      <4>1. now.rewards = [j \in Causes |-> was.rewards[j] + metrics'[j] - metrics[j]]
        BY <2>2
      <4> QED
        BY <2>4, <2>7, <3>1, <4>1
    <3>3. was.rewards[k] \in Nat /\ metrics[k] \in Nat
      BY <2>4, <2>7
    <3> QED
      BY <3>1, <3>2, <3>3
  <2>9. now \in Transitions
    <3>1. now.rewards = [k \in Causes |-> now.rewards[k]]
      BY <2>2
    <3>2. \A k \in Causes : now.rewards[k] \in Nat
      BY <2>8
    <3>3. now.rewards \in [Causes -> Nat]
      BY <3>1, <3>2
    <3>4. now.length \in Nat /\ now.deaths \in Nat
      <4>1. One(~creatures'[c].alive) \in Nat
        BY OneFacts
      <4> QED
        BY <2>2, <2>4, <2>6, <4>1
    <3>5. now = [length |-> now.length, rewards |-> now.rewards, deaths |-> now.deaths,
                 done |-> ~creatures'[c].alive]
      BY <2>2
    <3>6. (~creatures'[c].alive) \in BOOLEAN
      OBVIOUS
    <3>7. PICK length \in Nat, rewards \in [Causes -> Nat], deaths \in Nat, done \in BOOLEAN :
            /\ length = now.length /\ rewards = now.rewards /\ deaths = now.deaths
            /\ done = ~creatures'[c].alive
      BY <3>3, <3>4, <3>6
    <3>8. now = [length |-> length, rewards |-> rewards, deaths |-> deaths, done |-> done]
      BY <3>5, <3>7
    <3> QED
      BY <3>8 DEF Transitions
  <2>10. /\ DOMAIN trajectories' = DOMAIN trajectories \union {c}
         /\ trajectories'[c] = now
         /\ \A d \in DOMAIN trajectories : d # c => trajectories'[d] = trajectories[d]
    BY <2>1
  <2>11. trajectories' \in [DOMAIN trajectories' -> Transitions]
    BY <1>3, <2>1, <2>9, <2>10 DEF Rewarded
  <2>12. DOMAIN trajectories' \subseteq 1 .. nextCreature' - 1
    BY <1>3, <2>5, <2>10 DEF Rewarded
  <2>13. ASSUME NEW k \in Causes
         PROVE  IsFiniteSet(Payments(k)') /\ Cardinality(Payments(k)') = metrics'[k]
    <3> DEFINE paid == [d \in DOMAIN trajectories |-> trajectories[d].rewards[k]]
               paid2 == [d \in DOMAIN trajectories' |-> trajectories'[d].rewards[k]]
    <3>1. Payments(k) = UNION {{d} \X (1 .. paid[d]) : d \in DOMAIN trajectories}
      BY DEF Payments
    <3>2. Payments(k)' = UNION {{d} \X (1 .. paid2[d]) : d \in DOMAIN trajectories'}
      BY DEF Payments
    <3>3. \A d \in DOMAIN trajectories : d # c => paid2[d] = paid[d]
      BY <2>10
    <3>4. paid2[c] = now.rewards[k]
      BY <2>10
    <3>5. c \in DOMAIN trajectories => paid[c] = was.rewards[k]
      BY DEF was, Trajectory
    <3>6. c \notin DOMAIN trajectories => was.rewards[k] = 0
      BY <1>3, TrajectoryFacts DEF was
    <3>7. IsFiniteSet(Payments(k)) /\ Cardinality(Payments(k)) = metrics[k]
      BY <1>3 DEF Rewarded
    <3> HIDE DEF paid, paid2
    <3>8. PICK D, D2, then, since, v, w :
            /\ D = DOMAIN trajectories /\ D2 = DOMAIN trajectories'
            /\ then = paid /\ since = paid2
            /\ v = was.rewards[k] /\ w = now.rewards[k]
      OBVIOUS
    <3>9. Entries(D, then) = Payments(k) /\ Entries(D2, since) = Payments(k)'
      BY <3>1, <3>2, <3>8 DEF Entries
    <3>10. /\ IsFiniteSet(Entries(D2, since))
           /\ Cardinality(Entries(D2, since)) = Cardinality(Entries(D, then)) + (w - v)
      <4>1. v \in Nat /\ w \in {v, v + 1}
        BY <2>8, <3>8
      <4>2. D2 = D \union {c}
        BY <2>10, <3>8
      <4>3. \A d \in D : d # c => since[d] = then[d]
        BY <3>3, <3>8
      <4>4. since[c] = w /\ (c \in D => then[c] = v) /\ (c \notin D => v = 0)
        BY <3>4, <3>5, <3>6, <3>8
      <4>5. IsFiniteSet(Entries(D, then))
        BY <3>7, <3>9
      <4>6. Pays(D, D2, then, since, c, v, w)
        BY <4>1, <4>2, <4>3, <4>4 DEF Pays
      <4> QED
        BY <4>5, <4>6, PaymentsGrow
    <3>11. Cardinality(Entries(D, then)) = metrics[k] /\ w - v = metrics'[k] - metrics[k]
           /\ metrics[k] \in Nat /\ metrics'[k] \in Nat
      BY <2>7, <2>8, <3>7, <3>8, <3>9
    <3>12. Cardinality(Entries(D2, since)) = metrics'[k]
      BY <3>10, <3>11
    <3> QED
      BY <3>9, <3>10, <3>12
  <2>14. /\ Trajectory(c)' = now
         /\ \A d : d # c => Trajectory(d)' = Trajectory(d)
    BY <2>10 DEF Trajectory
  <2>15. ASSUME NEW d \in DOMAIN creatures'
         PROVE  Trajectory(d)'.length = creatures'[d].age
    <3>1. Trajectory(d).length = creatures[d].age
      BY <1>3, <2>3 DEF Rewarded
    <3>2. CASE d = c
      <4>1. now.length = was.length + 1
        BY <2>2
      <4> QED
        BY <2>3, <2>14, <3>1, <3>2, <4>1 DEF was, old
    <3>3. CASE d # c
      BY <2>3, <2>14, <3>1, <3>3
    <3> QED
      BY <3>2, <3>3
  <2>16. c \in Alive' <=> new.alive
    BY <2>3
  <2>17. ASSUME NEW d \in 1 .. nextCreature' - 1
         PROVE  Trajectory(d)'.deaths = One(d \notin Alive')
    <3>1. CASE d = c
      <4>1. now.deaths = 0 + One(~new.alive)
        BY <2>2, <2>3, <2>6
      <4>2. One(~new.alive) = One(c \notin Alive') /\ One(~new.alive) \in Nat
        BY <2>16 DEF One
      <4> QED
        BY <2>14, <3>1, <4>1, <4>2
    <3>2. CASE d # c
      <4>1. Trajectory(d).deaths = One(d \notin Alive)
        BY <1>3, <2>5 DEF Rewarded
      <4>2. d \in Alive' <=> d \in Alive
        BY <2>3, <3>2
      <4> QED
        BY <2>14, <3>2, <4>1, <4>2 DEF One
    <3> QED
      BY <3>1, <3>2
  <2>18. ASSUME NEW d \in DOMAIN trajectories'
         PROVE  trajectories'[d].done <=> d \notin Alive'
    <3>1. CASE d = c
      <4>1. now.done <=> ~creatures'[c].alive
        BY <2>2
      <4> QED
        BY <2>3, <2>10, <2>16, <3>1, <4>1
    <3>2. CASE d # c
      <4>1. d \in DOMAIN trajectories /\ (trajectories[d].done <=> d \notin Alive)
        BY <1>3, <2>10, <3>2 DEF Rewarded
      <4>2. d \in Alive' <=> d \in Alive
        BY <2>3, <3>2
      <4> QED
        BY <2>10, <3>2, <4>1, <4>2
    <3> QED
      BY <3>1, <3>2
  <2>19. sampled' \in {"no", "v36", "v37"}
    BY <1>1 DEF Rewarded
  <2> QED
    BY <2>11, <2>12, <2>13, <2>15, <2>17, <2>18, <2>19 DEF Rewarded
<1> QED
  BY <1>2, <1>3

\* The settlement of a frame pays nothing, but it removes and adds creatures.
LEMMA SettleRewarded ==
  ASSUME WorldInv, Rewarded, NEW at \in GrowthPlaces, Settle(at),
         UNCHANGED <<sampled, trajectories>>
  PROVE  Rewarded'
<1>1. CASE sampled = "no"
  BY <1>1 DEF Rewarded
<1>2. CASE sampled # "no"
  <2>1. PICK numbers : numbers = nextCreature .. nextCreature + Cardinality(Breeders) - 1
    OBVIOUS
  <2>2. /\ DOMAIN creatures' = Alive \union numbers
        /\ Cardinality(Breeders) \in Nat
        /\ nextCreature' = nextCreature + Cardinality(Breeders)
        /\ \A c \in Alive : creatures'[c].age = creatures[c].age
        /\ \A c \in numbers : creatures'[c].age = 0
        /\ Alive' = DOMAIN creatures'
    BY <2>1, SettleFacts
  <2>3. /\ metrics'.food = metrics.food /\ metrics'.water = metrics.water
        /\ metrics'.recoveries = metrics.recoveries
        /\ metrics'.fireContacts = metrics.fireContacts
    BY <2>1, SettleFacts
  <2>4. \A k \in Causes : metrics'[k] = metrics[k]
    <3>1. /\ metrics'["food"] = metrics["food"] /\ metrics'["water"] = metrics["water"]
          /\ metrics'["recoveries"] = metrics["recoveries"]
          /\ metrics'["fireContacts"] = metrics["fireContacts"]
      BY <2>3
    <3> QED
      BY <3>1 DEF Causes
  <2>5. /\ trajectories' = trajectories /\ \A c : Trajectory(c)' = Trajectory(c)
        /\ \A k : Payments(k)' = Payments(k)
    BY DEF Trajectory, Payments
  <2>6. nextCreature \in Nat \ {0} /\ DOMAIN creatures \subseteq 1 .. nextCreature - 1
    BY DEF WorldInv, Typed, TypedCreatures
  <2>7. Alive \subseteq DOMAIN creatures /\ DOMAIN trajectories \subseteq 1 .. nextCreature - 1
    BY <1>2 DEF Alive, Rewarded
  <2>8. \A c \in 1 .. nextCreature - 1 : c \in Alive' <=> c \in Alive
    BY <2>1, <2>2, <2>6
  <2>9. \A c \in numbers : c \in Alive' /\ c \notin DOMAIN trajectories
    BY <2>1, <2>2, <2>6, <2>7
  <2>10. \A c \in 1 .. nextCreature' - 1 : c \in 1 .. nextCreature - 1 \/ c \in numbers
    BY <2>1, <2>2, <2>6
  <2>11. \A c \in numbers : Trajectory(c).length = 0 /\ Trajectory(c).deaths = 0
    BY <2>9 DEF Trajectory, NoTransition
  <2>12. \A k \in Causes : IsFiniteSet(Payments(k)') /\ Cardinality(Payments(k)') = metrics'[k]
    BY <1>2, <2>4, <2>5 DEF Rewarded
  <2>13. ASSUME NEW c \in DOMAIN creatures'
         PROVE  Trajectory(c)'.length = creatures'[c].age
    <3>1. CASE c \in Alive
      BY <1>2, <2>2, <2>5, <2>7, <3>1 DEF Rewarded
    <3>2. CASE c \in numbers
      BY <2>2, <2>5, <2>11, <3>2
    <3> QED
      BY <2>2, <3>1, <3>2
  <2>14. ASSUME NEW c \in 1 .. nextCreature' - 1
         PROVE  Trajectory(c)'.deaths = One(c \notin Alive')
    <3>1. CASE c \in 1 .. nextCreature - 1
      <4>1. Trajectory(c).deaths = One(c \notin Alive)
        BY <1>2, <3>1 DEF Rewarded
      <4> QED
        BY <2>5, <2>8, <3>1, <4>1 DEF One
    <3>2. CASE c \in numbers
      BY <2>5, <2>9, <2>11, <3>2 DEF One
    <3> QED
      BY <2>10, <3>1, <3>2
  <2>15. ASSUME NEW c \in DOMAIN trajectories'
         PROVE  trajectories'[c].done <=> c \notin Alive'
    <3>1. c \in DOMAIN trajectories /\ c \in 1 .. nextCreature - 1
      BY <2>5, <2>7
    <3> QED
      BY <1>2, <2>5, <2>8, <3>1 DEF Rewarded
  <2>16. sampled' \in {"no", "v36", "v37"}
         /\ trajectories' \in [DOMAIN trajectories' -> Transitions]
    BY <1>2, <2>5 DEF Rewarded
  <2>17. DOMAIN trajectories' \subseteq 1 .. nextCreature' - 1
    BY <2>2, <2>5, <2>6, <2>7
  <2> QED
    BY <2>12, <2>13, <2>14, <2>15, <2>16, <2>17 DEF Rewarded
<1> QED
  BY <1>1, <1>2

\* What finish decides agrees with what the last acts decided.
LEMMA FinishAgrees ==
  ASSUME WorldInv, Rewarded, Finish
  PROVE  Concluded'
<1>1. /\ sampled # "no" /\ RolloutOver
      /\ finished' = [c \in DOMAIN trajectories |-> IF sampled = "v36" THEN Cut(c) ELSE Ended]
      /\ UNCHANGED <<pc, sampled, trajectories>>
  BY DEF Finish, vars
<1>2. ~Acting /\ ~Acting'
  BY <1>1 DEF RolloutOver, Over, Acting
<1>3. trajectories \in [DOMAIN trajectories -> Transitions]
      /\ \A c \in DOMAIN trajectories : trajectories[c].done <=> c \notin Alive
  BY <1>1 DEF Rewarded
<1>4. metrics.early => Alive = {}
  BY DEF WorldInv, Typed, TypedDecisions, Counted, Alive
<1>5. ASSUME NEW c \in DOMAIN finished'
      PROVE  /\ sampled' = "v36" => /\ finished'[c].done = trajectories'[c].done
                                    /\ finished'[c].done <=> finished'[c].observed = {}
             /\ finished'[c].penalised => trajectories'[c].done
  <2>1. c \in DOMAIN trajectories /\ trajectories' = trajectories
    BY <1>1
  <2>2. trajectories[c].done \in BOOLEAN
    BY <1>3, <2>1 DEF Transitions
  <2>3. CASE sampled = "v36"
    <3>1. finished'[c] = Cut(c)
      BY <1>1, <2>1, <2>3
    <3>2. /\ Cut(c).done = (c \notin Alive) /\ ~Cut(c).penalised
          /\ Cut(c).observed = IF c \in Alive THEN {Inputs(c, creatureIndex)} ELSE {}
      BY DEF Cut
    <3>3. trajectories[c].done = (c \notin Alive)
      BY <1>3, <2>1, <2>2
    <3>4. Cut(c).done <=> Cut(c).observed = {}
      BY <3>2
    <3> QED
      BY <2>1, <3>1, <3>2, <3>3, <3>4
  <2>4. CASE sampled # "v36"
    <3>1. finished'[c] = Ended
      BY <1>1, <2>1, <2>4
    <3>2. finished'[c].penalised => metrics.early
      BY <3>1 DEF Ended
    <3> QED
      BY <1>1, <1>3, <1>4, <2>1, <2>4, <3>2
  <2> QED
    BY <2>3, <2>4
<1> QED
  BY <1>1, <1>2, <1>5 DEF Concluded

\* Every step of a rollout keeps what the trajectories were paid in line with the counters.
LEMMA RolloutKeeps ==
  ASSUME RolloutInv, [RolloutNext]_rolloutVars
  PROVE  RolloutInv'
<1>1. WorldInv /\ Rewarded /\ Concluded
  BY DEF RolloutInv
<1>2. WorldInv'
  BY <1>1, RolloutSteps, NextKeeps
<1>3. NoResult = [c \in {} |-> TRUE] /\ DOMAIN NoResult = {}
  BY DEF NoResult
<1>4. finished = NoResult /\ finished' = finished => Concluded'
  BY <1>3 DEF Concluded
<1>5. Acting => finished = NoResult
  BY <1>1 DEF Concluded
<1>6. CASE finished = NoResult /\ BeginFrame /\ UNCHANGED <<sampled, trajectories, finished>>
  <2>1. Rewarded'
    BY <1>1, <1>6, BeginFrameRewarded
  <2> QED
    BY <1>2, <1>4, <1>6, <2>1 DEF RolloutInv
<1>7. CASE \E c \in DOMAIN creatures, p \in Points : SampledAct(c, p)
  <2>1. PICK c \in DOMAIN creatures, p \in Points : SampledAct(c, p)
    BY <1>7
  <2>2. Rewarded'
    BY <1>1, <2>1, SampledActRewarded
  <2>3. Acting /\ finished' = finished
    BY <2>1 DEF SampledAct, Act, Acting
  <2> QED
    BY <1>2, <1>4, <1>5, <2>2, <2>3 DEF RolloutInv
<1>8. CASE pc = "settle" /\ \E at \in GrowthPlaces :
             Settle(at) /\ UNCHANGED <<sampled, trajectories, finished>>
  <2>1. PICK at \in GrowthPlaces : Settle(at) /\ UNCHANGED <<sampled, trajectories, finished>>
    BY <1>8
  <2>2. Rewarded'
    BY <1>1, <2>1, SettleRewarded
  <2>3. Acting /\ finished' = finished
    BY <1>8, <2>1 DEF Acting
  <2> QED
    BY <1>2, <1>4, <1>5, <2>2, <2>3 DEF RolloutInv
<1>9. CASE Finish
  <2>1. UNCHANGED <<sampled, trajectories, nextCreature, creatures, metrics>>
    BY <1>9 DEF Finish, vars
  <2>2. Rewarded'
    BY <1>1, <2>1, RewardedKept
  <2>3. Concluded'
    BY <1>1, <1>9, FinishAgrees
  <2> QED
    BY <1>2, <2>2, <2>3 DEF RolloutInv
<1>10. CASE UNCHANGED rolloutVars
  <2>1. UNCHANGED <<sampled, trajectories, finished, nextCreature, creatures, metrics, pc>>
    BY <1>10 DEF rolloutVars, vars
  <2>2. Rewarded'
    BY <1>1, <2>1, RewardedKept
  <2>3. Concluded'
    BY <1>1, <2>1 DEF Concluded, Acting
  <2> QED
    BY <1>2, <2>2, <2>3 DEF RolloutInv
<1> QED
  BY <1>6, <1>7, <1>8, <1>9, <1>10 DEF RolloutNext

\* Nothing was paid at the start.
LEMMA InitRollout ==
  ASSUME RolloutInit
  PROVE  RolloutInv
<1>1. Init /\ sampled \in {"no", "v36", "v37"} /\ finished = NoResult
      /\ trajectories = [c \in {} |-> NoTransition]
  BY DEF RolloutInit
<1>2. WorldInv
  BY <1>1, InitWorld
<1>3. Concluded
  BY <1>1 DEF Concluded, NoResult
<1>4. DOMAIN creatures = {1} /\ creatures[1].age = 0 /\ creatures[1].alive /\ nextCreature = 2
  BY <1>1 DEF Init, NewCreature
<1>5. Alive = {1}
  BY <1>4 DEF Alive
<1>6. \A k \in Causes : metrics[k] = 0
  BY <1>1 DEF Init, NoMetrics, Causes
<1>7. \A k : Payments(k) = {}
  BY <1>1 DEF Payments
<1>8. \A k \in Causes : IsFiniteSet(Payments(k)) /\ Cardinality(Payments(k)) = metrics[k]
  BY <1>6, <1>7, FS_EmptySet
<1>9. DOMAIN trajectories = {} /\ trajectories \in [DOMAIN trajectories -> Transitions]
  BY <1>1
<1>10. \A c : Trajectory(c).length = 0 /\ Trajectory(c).deaths = 0
  BY <1>9 DEF Trajectory, NoTransition
<1>11. \A c \in DOMAIN creatures : Trajectory(c).length = creatures[c].age
  BY <1>4, <1>10
<1>12. ASSUME NEW c \in 1 .. nextCreature - 1
       PROVE  Trajectory(c).deaths = One(c \notin Alive)
  <2>1. c \in Alive
    BY <1>4, <1>5
  <2> QED
    BY <1>10, <2>1, OneFacts
<1>13. Rewarded
  BY <1>1, <1>8, <1>9, <1>11, <1>12 DEF Rewarded
<1> QED
  BY <1>2, <1>3, <1>13 DEF RolloutInv

\* The inductive invariant of a rollout.
THEOREM RolloutInvariant == RolloutSpec => []RolloutInv
<1>1. RolloutInit => RolloutInv
  BY InitRollout
<1>2. RolloutInv /\ [RolloutNext]_rolloutVars => RolloutInv'
  BY RolloutKeeps
<1> QED
  BY <1>1, <1>2, PTL DEF RolloutSpec

\* The rewards of a rollout are what happened to the lineage, however many creatures act in
\* whatever order: nothing is paid twice or to nobody, a death is paid once, and finish
\* never disagrees with the last act about who is done (v36 l. 302-339, v37 l. 180-204).
THEOREM RewardsAreTheCounters == RolloutSpec => []RewardsBelong
<1>1. RolloutInv => RewardsBelong
  <2> SUFFICES ASSUME RolloutInv
               PROVE  RewardsBelong
    OBVIOUS
  <2>1. Rewarded /\ Concluded
    BY DEF RolloutInv
  <2>2. \A k \in Causes : Paid(k) = Cardinality(Payments(k))
    BY DEF Paid, Payments
  <2>3. ASSUME sampled # "no"
        PROVE  /\ \A k \in Causes : Paid(k) = metrics[k]
               /\ \A c \in DOMAIN trajectories \intersect DOMAIN creatures :
                    trajectories[c].length = creatures[c].age
               /\ \A c \in 1 .. nextCreature - 1 : Trajectory(c).deaths = One(c \notin Alive)
               /\ \A c \in DOMAIN trajectories : trajectories[c].done <=> c \notin Alive
    <3>1. \A k \in Causes : Paid(k) = metrics[k]
      BY <2>1, <2>2, <2>3 DEF Rewarded
    <3>2. \A c \in DOMAIN trajectories \intersect DOMAIN creatures :
            trajectories[c].length = creatures[c].age
      BY <2>1, <2>3 DEF Rewarded, Trajectory
    <3>3. /\ \A c \in 1 .. nextCreature - 1 : Trajectory(c).deaths = One(c \notin Alive)
          /\ \A c \in DOMAIN trajectories : trajectories[c].done <=> c \notin Alive
      BY <2>1, <2>3 DEF Rewarded
    <3> QED
      BY <3>1, <3>2, <3>3
  <2>4. \A c \in DOMAIN finished :
          /\ sampled = "v36" => /\ finished[c].done = trajectories[c].done
                                /\ finished[c].done <=> finished[c].observed = {}
          /\ finished[c].penalised => trajectories[c].done
    BY <2>1 DEF Concluded
  <2> QED
    BY <2>3, <2>4 DEF RewardsBelong
<1> QED
  BY <1>1, RolloutInvariant, PTL
=============================================================================
