----------------------------- MODULE MCTrialWorld ------------------------------
(***************************************************************************)
(* Three points in a row, two of them in one cell; three creatures at most.  *)
(* In three frames a lineage can breed up to its cap, starve, burn, die out  *)
(* early or late, and two creatures can reach for one piece of food.         *)
(***************************************************************************)
EXTENDS TrialRollout

MCConfig ==
  [width |-> 2, height |-> 0, cell_size |-> 2, touch_distance |-> 1, vision_range |-> 1,
   max_speed |-> 1, max_frames |-> 3, early_fraction |-> 2, lineage_cap |-> 3,
   initial_food |-> 2, initial_water |-> 1, initial_fire |-> 1, challenge_fire |-> 1,
   food_capacity |-> 2, water_capacity |-> 1, food_rate |-> 2, water_rate |-> 4, unit |-> 4,
   full_energy |-> 4, meal |-> 2, movement_cost |-> 1, basal_cost |-> 0, fire_damage |-> 4,
   hunger_increment |-> 2, thirst_increment |-> 3, low_water |-> 3, limit |-> 4,
   starvation_penalty |-> 1, reproduction_interval |-> 1, reproduction_threshold |-> 2,
   reproduction_parent_cost |-> 1, child_start_energy |-> 3]
================================================================================
