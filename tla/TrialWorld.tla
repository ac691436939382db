------------------------------ MODULE TrialWorld -------------------------------
(***************************************************************************)
(* One trial of tmp_2d_simulator_v35.py: the world that a lineage of         *)
(* creatures lives in, frame by frame, until it dies out or its frames end.  *)
(*                                                                           *)
(* A frame has three parts.  First every living creature senses the world;   *)
(* then the creatures act one after the other, in the order of their         *)
(* numbers; then the dead are removed, the living reproduce and resources    *)
(* grow.  Resources live twice, in a list and in a grid of cells that is     *)
(* kept up to date by hand; the grid of creatures is rebuilt every frame.    *)
(*                                                                           *)
(* Simplifications.  The world is a grid of points.  What the brain answers  *)
(* is any move within max_speed, so orientation, vision cone and smell are   *)
(* left out.  Energy, hunger and thirst are small integers (limit stands for *)
(* 1.0, low_water for 0.75), rates are numbers of units, early_fraction is   *)
(* the inverse of early_extinction_fraction.  A random position is any.      *)
(***************************************************************************)
EXTENDS Integers, FiniteSets, FiniteSetsExt

CONSTANT Config   \* SimulationConfig

ASSUME ConfigAssumption ==
  /\ \A f \in {"cell_size", "max_frames", "lineage_cap", "reproduction_interval", "unit"} :
       Config[f] \in Nat \ {0}
  /\ \A f \in {"width", "height", "touch_distance", "vision_range", "max_speed",
               "initial_food", "initial_water", "initial_fire", "challenge_fire",
               "food_capacity", "water_capacity", "food_rate", "water_rate"} :
       Config[f] \in Nat
  /\ \A f \in {"full_energy", "meal", "movement_cost", "basal_cost", "fire_damage",
               "hunger_increment", "thirst_increment", "low_water", "limit",
               "starvation_penalty", "reproduction_threshold", "reproduction_parent_cost",
               "child_start_energy", "early_fraction"} :
       Config[f] \in Int
  /\ Config.food_rate <= Config.unit /\ Config.water_rate <= Config.unit
  /\ Config.initial_food <= Config.food_capacity
  /\ Config.initial_water <= Config.water_capacity
  \* The challenge profile gives one of each kind even to a world without capacity.
  /\ 1 <= Config.food_capacity /\ 1 <= Config.water_capacity

VARIABLES
  profile,        \* the trial profile, fixed
  frame,
  creatures,      \* the list, by creature number
  resources,      \* the lists, by resource number
  index,          \* resource_indexes: the cells of each kind
  creatureIndex,
  nextCreature, nextResource,
  accumulator,    \* food_accumulator and water_accumulator
  metrics,
  peak,
  decisions,      \* what the creatures that still have to act have sensed
  pc              \* "sense", "act", "settle", or the reason of the termination

vars == <<profile, frame, creatures, resources, index, creatureIndex, nextCreature,
          nextResource, accumulator, metrics, peak, decisions, pc>>

Kinds == {"food", "water", "fire"}
Grown == {"food", "water"}
Points == (0 .. Config.width) \X (0 .. Config.height)

Square(n) == n * n
SquaredDistance(p, q) == Square(p[1] - q[1]) + Square(p[2] - q[2])
Within(p, q, radius) == SquaredDistance(p, q) <= Square(radius)

\* SpatialIndex.  A grid is a set of entries <<cell, number>>.
Key(p) == <<p[1] \div Config.cell_size, p[2] \div Config.cell_size>>

\* Defect: whole cells only.
SpanRoundedDown(radius) == radius \div Config.cell_size

Span(radius) == (radius + Config.cell_size - 1) \div Config.cell_size

Near(cell, p, radius) ==
  \A axis \in {1, 2} : cell[axis] - Key(p)[axis] \in -Span(radius) .. Span(radius)

\* where[n] is the present position of object n, also when its cell is an old one.
Query(grid, where, p, radius) ==
  {e[2] : e \in {e \in grid : Near(e[1], p, radius) /\ Within(where[e[2]], p, radius)}}

Build(where) == {<<Key(where[n]), n>> : n \in DOMAIN where}

OfKind(world, kind) == {r \in DOMAIN world : world[r].kind = kind}
Places(world) == [r \in DOMAIN world |-> world[r].at]
Positions == [c \in DOMAIN creatures |-> creatures[c].at]
Touched(kind, p) == Query(index[kind], Places(resources), p, Config.touch_distance)

Alive == {c \in DOMAIN creatures : creatures[c].alive}

\* What creature c senses: food and water that it could touch, and the living around it.
\* The grid may still hold creatures that died.
Inputs(c, grid) ==
  [food  |-> Touched("food", creatures[c].at) # {},
   water |-> Touched("water", creatures[c].at) # {},
   crowd |-> Cardinality(Query({e \in grid : e[2] \in Alive \ {c}}, Positions,
                               creatures[c].at, Config.vision_range))]

--------------------------------------------------------------------------------
(* The constructor.                                                             *)

NewCreature(at, energy, hunger, thirst) ==
  [at |-> at, energy |-> energy, hunger |-> hunger, thirst |-> thirst,
   age |-> 0, alive |-> TRUE, low |-> FALSE]

NoMetrics ==
  [food |-> 0, water |-> 0, recoveries |-> 0, opportunities |-> 0,
   aliveFrames |-> 0, hydrated |-> 0, severe |-> 0, fireContacts |-> 0, fireDeaths |-> 0,
   born |-> 0, deaths |-> 0, founderSurvival |-> 0,
   offspringSurvival |-> 0, offspringPossible |-> 0,
   extinctFrame |-> -1, early |-> FALSE]

\* Fire keeps away from the founder; when 64 attempts fail it takes the corner that is
\* farthest from it.
Corners == {0, Config.width} \X {0, Config.height}

FirePlaces(founder) ==
  LET safe == {p \in Points :
                 SquaredDistance(p, founder) >= Square(2 * Config.touch_distance)}
      far == {p \in Corners : \A q \in Corners :
                 SquaredDistance(q, founder) <= SquaredDistance(p, founder)}
  IN safe \union far

PlacesFor(kind, founder) == IF kind = "fire" THEN FirePlaces(founder) ELSE Points

\* The challenge profile has less food and water, more fire, and moves the first fire
\* next to the founder before the grids are built.
Challenge == profile = "water_fire_challenge"

InitialCount(kind) ==
  CASE kind = "food"  -> IF Challenge THEN Max({1, (Config.initial_food * 3) \div 4})
                                      ELSE Config.initial_food
    [] kind = "water" -> IF Challenge THEN Max({1, Config.initial_water \div 4})
                                      ELSE Config.initial_water
    [] kind = "fire"  -> Config.initial_fire + (IF Challenge THEN Config.challenge_fire ELSE 0)

\* The worlds that _spawn_resources can make: numbers in the order of the kinds.
Worlds(founder) ==
  LET food == InitialCount("food")
      water == food + InitialCount("water")
      total == water + InitialCount("fire")
      kindOf == [r \in 1 .. total |->
                   IF r <= food THEN "food" ELSE IF r <= water THEN "water" ELSE "fire"]
      nearby == {p \in Points : Within(p, founder, 2 * Config.touch_distance)}
      moved == Challenge /\ total > water
  IN {[r \in 1 .. total |-> [kind |-> kindOf[r], at |-> at[r]]] :
        at \in {at \in [1 .. total -> Points] :
                  \A r \in 1 .. total :
                    at[r] \in IF moved /\ r = water + 1 THEN nearby
                              ELSE PlacesFor(kindOf[r], founder)}}

Init ==
  /\ profile \in {"standard", "water_fire_challenge"}
  /\ frame = 0
  /\ \E p \in Points :
       /\ creatures = [c \in {1} |-> NewCreature(p, Config.full_energy, 0, 0)]
       /\ resources \in Worlds(p)
  /\ index = [k \in Kinds |-> {e \in Build(Places(resources)) : resources[e[2]].kind = k}]
  /\ creatureIndex = {}
  /\ nextCreature = 2
  /\ nextResource = Cardinality(DOMAIN resources) + 1
  /\ accumulator = [k \in Grown |-> 0]
  /\ metrics = NoMetrics
  /\ peak = 1
  /\ decisions = [c \in {} |-> TRUE]
  /\ pc = "sense"

--------------------------------------------------------------------------------
(* A frame.                                                                     *)

\* The first part of step: every living creature senses, before any of them acts.
SenseWith(grid) ==
  /\ creatureIndex' = grid
  /\ decisions' = [c \in Alive |-> Inputs(c, grid)]
  /\ metrics' = [metrics EXCEPT !.offspringPossible = @ + metrics.born]

\* Defect: the grid is rebuilt only when the number of creatures changed.
SenseWithoutRebuild ==
  SenseWith(IF Cardinality(creatureIndex) = Cardinality(Alive) THEN creatureIndex
            ELSE Build(Positions))

Sense == SenseWith(Build(Positions))

BeginFrame ==
  /\ pc = "sense" /\ frame < Config.max_frames
  /\ Sense
  /\ pc' = "act"
  /\ UNCHANGED <<profile, frame, creatures, resources, index, nextCreature, nextResource,
                 accumulator, peak>>

\* Defect: everything in reach is eaten.
MetAll(p) ==
  [burns |-> Touched("fire", p) # {}, food |-> Touched("food", p), water |-> Touched("water", p)]

\* What a creature meets at p: one fire burns it, and of food and of water _consume gives
\* it the oldest in reach.
Met(p) ==
  LET Oldest(S) == IF S = {} THEN {} ELSE {Min(S)}
  IN [burns |-> Touched("fire", p) # {},
      food |-> Oldest(Touched("food", p)), water |-> Oldest(Touched("water", p))]

\* Defect: the grid keeps what was eaten.
DiscardFromList(taken) ==
  /\ resources' = [r \in DOMAIN resources \ taken |-> resources[r]]
  /\ UNCHANGED index

Discard(taken) ==
  /\ resources' = [r \in DOMAIN resources \ taken |-> resources[r]]
  /\ index' = [k \in Kinds |-> index[k] \ {<<Key(resources[r].at), r>> : r \in taken}]

Steps(p, q) == LET Abs(n) == IF n < 0 THEN -n ELSE n IN Abs(p[1] - q[1]) + Abs(p[2] - q[2])

One(condition) == IF condition THEN 1 ELSE 0

\* What becomes of a creature that moves to p and meets something there: it pays, burns
\* once, eats, drinks, gets hungrier and thirstier, starves, and lives on if energy is left.
Aged(old, p, met) ==
  LET ate == met.food # {}
      drank == met.water # {}
      paid == old.energy - Steps(old.at, p) * Config.movement_cost - Config.basal_cost
      burnt == paid - One(met.burns) * Config.fire_damage
      fed == IF ate THEN Min({Config.full_energy, burnt + Config.meal}) ELSE burnt
      hunger == (IF ate THEN 0 ELSE old.hunger) + Config.hunger_increment
      thirst == (IF drank THEN 0 ELSE old.thirst) + Config.thirst_increment
      starves == hunger > Config.limit \/ thirst > Config.limit
      energy == fed - One(starves) * Config.starvation_penalty
  IN [at |-> p, energy |-> energy, hunger |-> hunger, thirst |-> thirst,
      age |-> old.age + 1, alive |-> energy > 0,
      low |-> (old.low /\ ~drank) \/ thirst >= Config.low_water]

Measured(c, old, new, met) ==
  [metrics EXCEPT
     !.food = @ + One(met.food # {}),
     !.water = @ + One(met.water # {}),
     !.recoveries = @ + One(met.water # {} /\ old.low),
     !.opportunities = @ + One(new.low /\ ~(old.low /\ met.water = {})),
     !.aliveFrames = @ + 1,
     !.hydrated = @ + One(old.thirst < Config.low_water),
     !.severe = @ + One(old.thirst > Config.limit),
     !.fireContacts = @ + One(met.burns),
     !.fireDeaths = @ + One(met.burns /\ ~new.alive),
     !.founderSurvival = IF c = 1 THEN new.age ELSE @,
     !.offspringSurvival = @ + One(c # 1)]

Act(c, p) ==
  LET met == Met(p)
      new == Aged(creatures[c], p, met)
  IN /\ pc = "act" /\ c \in DOMAIN decisions
     /\ \A d \in DOMAIN decisions : c <= d
     /\ Within(creatures[c].at, p, Config.max_speed)
     /\ creatures' = [creatures EXCEPT ![c] = new]
     /\ metrics' = Measured(c, creatures[c], new, met)
     /\ Discard(met.food \union met.water)
     /\ decisions' = [d \in DOMAIN decisions \ {c} |-> decisions[d]]
     /\ pc' = IF DOMAIN decisions = {c} THEN "settle" ELSE "act"
     /\ UNCHANGED <<profile, frame, creatureIndex, nextCreature, nextResource, accumulator,
                    peak>>

\* _reproduce, in the order of numbers, up to the cap; newborns do not breed.
Fertile(c) ==
  /\ creatures[c].alive /\ creatures[c].age > 0
  /\ creatures[c].age % Config.reproduction_interval = 0
  /\ creatures[c].energy >= Config.reproduction_threshold

\* How many of S come before c.
Before(c, S) == Cardinality({d \in S : d < c})

\* Defect: the cap is compared with the population before the births of this frame.
BreedersBeyondCap ==
  IF Cardinality(Alive) < Config.lineage_cap THEN {c \in DOMAIN creatures : Fertile(c)} ELSE {}

Breeders ==
  LET fertile == {c \in DOMAIN creatures : Fertile(c)}
      room == Config.lineage_cap - Cardinality(Alive)
  IN {c \in fertile : Before(c, fertile) < room}

Newborn(parent) ==
  NewCreature(creatures[parent].at, Config.child_start_energy,
              creatures[parent].hunger, creatures[parent].thirst)

\* The living and the newborn, when the breeders have paid.
Population(breeders) ==
  LET paid(c) == IF c \in breeders
                 THEN [creatures[c] EXCEPT !.energy = @ - Config.reproduction_parent_cost]
                 ELSE creatures[c]
      parent(n) == CHOOSE c \in breeders : nextCreature + Before(c, breeders) = n
      numbers == nextCreature .. nextCreature + Cardinality(breeders) - 1
  IN [c \in Alive \union numbers |-> IF c \in Alive THEN paid(c) ELSE Newborn(parent(c))]

\* _regenerate.  A rate is at most one, and what is left in the accumulator is less than
\* one, so at most one resource of a kind grows in a frame.
Rate(kind) ==
  IF kind = "food" THEN Config.food_rate
  ELSE IF Challenge THEN Config.water_rate \div 2 ELSE Config.water_rate

Capacity(kind) == IF kind = "food" THEN Config.food_capacity ELSE Config.water_capacity

Count(kind) == Min({(accumulator[kind] + Rate(kind)) \div Config.unit,
                    Capacity(kind) - Cardinality(OfKind(resources, kind))})

Left(kind) ==
  LET left == accumulator[kind] + Rate(kind) - Count(kind) * Config.unit
  IN IF Cardinality(OfKind(resources, kind)) + Count(kind) >= Capacity(kind)
     THEN left % Config.unit ELSE left

\* Food grows before water; at[kind] is where.
NewResources(at) ==
  LET food == Count("food")
  IN [r \in nextResource .. nextResource + food + Count("water") - 1 |->
        IF r < nextResource + food THEN [kind |-> "food", at |-> at["food"]]
                                   ELSE [kind |-> "water", at |-> at["water"]]]

\* Places that matter: one is enough for a kind that does not grow.
GrowthPlaces ==
  {at \in [Grown -> Points] : \A k \in Grown : Count(k) = 0 => at[k] = <<0, 0>>}

Settle(at) ==
  LET breeders == Breeders
      population == Population(breeders)
      grown == NewResources(at)
      extinct == DOMAIN population = {}
  IN /\ pc = "settle"
     /\ creatures' = population
     /\ nextCreature' = nextCreature + Cardinality(breeders)
     /\ resources' = [r \in DOMAIN resources \union DOMAIN grown |->
                        IF r \in DOMAIN resources THEN resources[r] ELSE grown[r]]
     /\ index' = [k \in Kinds |-> index[k] \union
                    {<<Key(grown[r].at), r>> : r \in OfKind(grown, k)}]
     /\ nextResource' = nextResource + Cardinality(DOMAIN grown)
     /\ accumulator' = [k \in Grown |-> Left(k)]
     /\ frame' = frame + 1
     /\ peak' = Max({peak, Cardinality(DOMAIN population)})
     /\ metrics' = [metrics EXCEPT
                      !.deaths = @ + Cardinality(DOMAIN creatures \ Alive),
                      !.born = @ + Cardinality(breeders),
                      !.extinctFrame = IF extinct THEN frame + 1 ELSE @,
                      !.early = extinct /\ (frame + 1) * Config.early_fraction
                                           < Config.max_frames]
     /\ pc' = IF extinct THEN "extinction"
              ELSE IF frame + 1 >= Config.max_frames THEN "max_frames" ELSE "sense"
     /\ UNCHANGED <<profile, creatureIndex, decisions>>

Over == pc \in {"extinction", "max_frames"}

Next ==
  \/ BeginFrame
  \/ \E c \in DOMAIN creatures, p \in Points : Act(c, p)
  \/ pc = "settle" /\ \E at \in GrowthPlaces : Settle(at)

Spec == Init /\ [][Next]_vars
FairSpec == Spec /\ WF_vars(Next)

--------------------------------------------------------------------------------
(* Properties.                                                                  *)

\* Type correctness.
TypeOK ==
  /\ profile \in {"standard", "water_fire_challenge"}
  /\ frame \in 0 .. Config.max_frames
  /\ \A c \in DOMAIN creatures : c \in 1 .. nextCreature - 1 /\ creatures[c].at \in Points
  /\ \A r \in DOMAIN resources :
       r \in 1 .. nextResource - 1 /\ resources[r].kind \in Kinds /\ resources[r].at \in Points
  /\ pc \in {"sense", "act", "settle", "extinction", "max_frames"}

\* A question to a grid is answered as a walk through the list would answer it: the cells
\* of resources, kept up to date by constructor, growth and consumption (v35 l. 677-682,
\* 748-766), hold exactly the resources of the list, and the cells searched reach as far as
\* the radius.  What creatures have sensed when the first of them acts is the world as it
\* is, their neighbours included, although the grid of creatures is built once per frame.
FoundByWalking(kind, p, radius) ==
  {r \in OfKind(resources, kind) : Within(resources[r].at, p, radius)}

FirstActs == pc = "act" /\ DOMAIN decisions = DOMAIN creatures

QueriesAreExact ==
  /\ \A k \in Kinds : {e[2] : e \in index[k]} = OfKind(resources, k)
  /\ \A k \in Kinds, p \in Points, radius \in {Config.touch_distance, Config.vision_range} :
       Query(index[k], Places(resources), p, radius) = FoundByWalking(k, p, radius)
  /\ FirstActs => \A c \in DOMAIN decisions :
       decisions[c].crowd =
         Cardinality({d \in Alive \ {c} :
                        Within(creatures[d].at, creatures[c].at, Config.vision_range)})

\* validate_trial_summary, and what compute_fitness_components divides by what.
ValidPopulation ==
  Cardinality(DOMAIN creatures) <= peak /\ peak <= Config.lineage_cap

ValidMetrics ==
  /\ metrics.founderSurvival <= frame
  /\ metrics.fireContacts <= metrics.aliveFrames
  /\ metrics.recoveries <= metrics.opportunities
  /\ metrics.aliveFrames <= frame * Config.lineage_cap
  /\ metrics.offspringSurvival <= frame * Config.lineage_cap
  /\ metrics.extinctFrame \in {-1} \union 0 .. frame

ValidComponents ==
  /\ metrics.hydrated <= metrics.aliveFrames
  /\ metrics.severe <= metrics.aliveFrames
  /\ metrics.offspringSurvival <= metrics.offspringPossible

\* Every finished trial passes the validation that its result goes through before it is
\* believed (validate_trial_summary, l. 485-509): whatever the lineage did, its counters
\* stay in their relations and every ratio of the fitness is a number between 0 and 1.  It
\* is extinct exactly when it says so, and early only then.
TrialValidates ==
  Over => /\ ValidPopulation /\ ValidMetrics /\ ValidComponents
          /\ metrics.extinctFrame # -1 <=> pc = "extinction"
          /\ metrics.early => pc = "extinction"
          /\ metrics.fireDeaths <= metrics.deaths

\* Nothing is eaten twice and nobody dies twice: every resource there ever was is still
\* there or was counted as a meal once, whoever else was in reach of it (l. 748-766), and
\* every creature born is alive or counted as dead (l. 852-853).  (The types of the state go
\* with it.)
Balanced ==
  /\ TypeOK
  /\ nextResource - 1 = Cardinality(DOMAIN resources) + metrics.food + metrics.water
  /\ \A k \in Grown : Cardinality(OfKind(resources, k)) <= Capacity(k)
  /\ nextCreature - 1 = 1 + metrics.born
  /\ nextCreature - 1 = Cardinality(DOMAIN creatures) + metrics.deaths
================================================================================
