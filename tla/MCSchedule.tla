------------------------------- MODULE MCSchedule ------------------------------
(* Schedule for TLC: symmetry.                                              *)
EXTENDS Schedule, TLC

ScheduleSymmetry ==
  Permutations(Series) \cup Permutations(Reminder) \cup Permutations(Looker) \cup Permutations(Content)
===============================================================================
