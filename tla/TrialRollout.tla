----------------------------- MODULE TrialRollout ------------------------------
(***************************************************************************)
(* RolloutSimulation of tmp_2d_simulator_v36.py and RobustRollout of          *)
(* tmp_2d_simulator_v37.py: a trial of the world whose actions are sampled    *)
(* from a policy and rewarded, to train that policy.                          *)
(*                                                                           *)
(* They override _act: a reward is what the action of the parent class did   *)
(* to the counters of the whole lineage, so it is a difference of two         *)
(* readings taken around that call.  A rollout ends with the trial, or before *)
(* it, when its share of the frames is used up.  Then finish marks the last   *)
(* transition of each creature.  Under v36 that is done, or cut off, and then *)
(* its value is estimated from what the creature senses at the end; under     *)
(* v37 it is done, with a penalty when the lineage died out early.            *)
(*                                                                           *)
(* A trajectory is kept as its length, the sum of its rewards by cause, and   *)
(* the done flag of its last transition; weights, clipping and energy are     *)
(* left out.                                                                 *)
(***************************************************************************)
EXTENDS TrialWorld

VARIABLES
  sampled,        \* "v36" or "v37" when this trial is a rollout of theirs, fixed
  trajectories,   \* by creature number, in a rollout
  finished        \* the result of finish, by creature number

rolloutVars == <<vars, sampled, trajectories, finished>>

Causes == {"food", "water", "recoveries", "fireContacts"}

\* Before finish.
NoResult == [c \in {} |-> TRUE]

NoTransition == [length |-> 0, rewards |-> [k \in Causes |-> 0], deaths |-> 0, done |-> FALSE]

RolloutInit ==
  /\ Init
  /\ sampled \in {"no", "v36", "v37"}
  /\ sampled = "v36" => profile = "standard"
  /\ trajectories = [c \in {} |-> NoTransition]
  /\ finished = NoResult

\* setdefault: a creature that acts for the first time gets its trajectory.
Trajectory(c) == IF c \in DOMAIN trajectories THEN trajectories[c] ELSE NoTransition

\* Defect: the transition says done when the creature is in its last frame.
TransitionAtHorizon(c) ==
  LET old == Trajectory(c)
  IN [length |-> old.length + 1,
      rewards |-> [k \in Causes |-> old.rewards[k] + metrics'[k] - metrics[k]],
      deaths |-> old.deaths + One(~creatures'[c].alive),
      done |-> ~creatures'[c].alive \/ frame + 1 = Config.max_frames]

Transition(c) ==
  LET old == Trajectory(c)
  IN [length |-> old.length + 1,
      rewards |-> [k \in Causes |-> old.rewards[k] + metrics'[k] - metrics[k]],
      deaths |-> old.deaths + One(~creatures'[c].alive),
      done |-> ~creatures'[c].alive]

SampledAct(c, p) ==
  /\ Act(c, p)
  /\ trajectories' = IF sampled = "no" THEN trajectories
                     ELSE [d \in DOMAIN trajectories \union {c} |->
                             IF d = c THEN Transition(c) ELSE trajectories[d]]
  /\ UNCHANGED <<sampled, finished>>

\* The frames of a rollout may be used up at the end of any frame.
RolloutOver == Over \/ (pc = "sense" /\ frame > 0)

\* The observation that a bootstrapped value stands on is taken with the grid of creatures
\* that the last frame was begun with.
Cut(c) ==
  [done |-> c \notin Alive,
   observed |-> IF c \in Alive THEN {Inputs(c, creatureIndex)} ELSE {},
   penalised |-> FALSE]

Ended == [done |-> TRUE, observed |-> {}, penalised |-> metrics.early]

Finish ==
  /\ sampled # "no" /\ RolloutOver /\ finished = NoResult
  /\ finished' = [c \in DOMAIN trajectories |-> IF sampled = "v36" THEN Cut(c) ELSE Ended]
  /\ UNCHANGED <<vars, sampled, trajectories>>

RolloutNext ==
  \/ (finished = NoResult /\ BeginFrame /\ UNCHANGED <<sampled, trajectories, finished>>)
  \/ \E c \in DOMAIN creatures, p \in Points : SampledAct(c, p)
  \/ pc = "settle" /\ \E at \in GrowthPlaces :
       Settle(at) /\ UNCHANGED <<sampled, trajectories, finished>>
  \/ Finish

RolloutSpec == RolloutInit /\ [][RolloutNext]_rolloutVars

--------------------------------------------------------------------------------
(* Properties.                                                                  *)

\* What a rollout pays is what happened: the rewards of all creatures together are the
\* counters of the lineage, each creature was paid once for every frame it lived, and for
\* its death once, if it died (v36 l. 302-321, v37 l. 180-193).  Only death ends a
\* trajectory, and a future is estimated exactly for those that still have one: v36's
\* finish, which decides it again from the creatures that are left, agrees with what the
\* last act decided, wherever the rollout is cut off (l. 323-339).  The penalty of v37
\* (l. 195-204) reaches only lineages without a survivor.
Paid(k) == Cardinality(UNION {{c} \X (1 .. trajectories[c].rewards[k]) : c \in DOMAIN trajectories})

RewardsBelong ==
  /\ sampled # "no" =>
       /\ \A k \in Causes : Paid(k) = metrics[k]
       /\ \A c \in DOMAIN trajectories \intersect DOMAIN creatures :
            trajectories[c].length = creatures[c].age
       /\ \A c \in 1 .. nextCreature - 1 : Trajectory(c).deaths = One(c \notin Alive)
       /\ \A c \in DOMAIN trajectories : trajectories[c].done <=> c \notin Alive
  /\ \A c \in DOMAIN finished :
       /\ sampled = "v36" => /\ finished[c].done = trajectories[c].done
                             /\ finished[c].done <=> finished[c].observed = {}
       /\ finished[c].penalised => trajectories[c].done
================================================================================
