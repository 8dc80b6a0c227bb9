------------------------------ MODULE TimeSplits ------------------------------
(***************************************************************************)
(* The loops of time_split.py that cut a period into folds of training and *)
(* test days, both ends inclusive: a rolling training window               *)
(* (walk_forward_splits), one that grows (expanding_window_splits), and    *)
(* the single cut of simple_split.  A step_days of zero or less would      *)
(* never end; the loops are unguarded.                                     *)
(***************************************************************************)
EXTENDS Integers, Sequences

CONSTANTS TrainDays, TestDays, StepDays,   \* the values a caller may pass
          Ratios,                          \* train_ratio, in per cent
          LastDate                         \* bound on end_date, start_date being 0

ASSUME SplitsAssumption ==
  /\ TrainDays \subseteq Nat /\ TestDays \subseteq Nat
  /\ StepDays \subseteq Nat \ {0} /\ Ratios \subseteq 0 .. 100 /\ LastDate \in Nat

VARIABLES
  split,    \* the arguments of the call
  train,    \* current_train_start
  folds     \* the folds appended so far

tsVars == <<split, train, folds>>

Kinds == {"walk_forward", "expanding_window", "simple"}
Uncalled == [kind |-> "simple", train |-> 0, test |-> 0, step |-> 1, end |-> 0]

SplitsInit == split = Uncalled /\ train = 0 /\ folds = <<>>

CallSplits ==
  /\ split = Uncalled /\ folds = <<>>
  /\ \E kind \in Kinds \ {"simple"}, days \in TrainDays, test \in TestDays,
        step \in StepDays, end \in 0 .. LastDate :
       split' = [kind |-> kind, train |-> days, test |-> test, step |-> step, end |-> end]
  /\ UNCHANGED <<train, folds>>

\* int(total_days * train_ratio), and the rest is the test.
SimpleSplit ==
  /\ split = Uncalled /\ folds = <<>>
  /\ \E ratio \in Ratios, end \in 0 .. LastDate :
       LET days == (end * ratio) \div 100
       IN  /\ split' = [Uncalled EXCEPT !.train = days, !.end = end]
           /\ folds' = <<[train_start |-> 0, train_end |-> days,
                          test_start |-> days + 1, test_end |-> end]>>
  /\ UNCHANGED train

\* Both loops test on the days that follow the training days; one of them keeps
\* the beginning of the training where it was.
Fold ==
  [train_start |-> IF split.kind = "expanding_window" THEN 0 ELSE train,
   train_end   |-> train + split.train,
   test_start  |-> train + split.train + 1,
   test_end    |-> train + split.train + 1 + split.test]

AppendFold ==
  /\ split.kind # "simple" /\ Fold.test_end <= split.end
  /\ folds' = Append(folds, Fold)
  /\ train' = train + split.step
  /\ UNCHANGED split

SplitsNext == CallSplits \/ SimpleSplit \/ AppendFold
SplitsSpec == SplitsInit /\ [][SplitsNext]_tsVars

-------------------------------------------------------------------------------
(* Properties.                                                             *)

\* Every fold tests after it has trained and inside the period (a simple split may
\* leave no day to test on, and only when it trains on all of them); two consecutive
\* folds share a test day exactly when step_days <= test_days, since a test
\* covers test_days + 1 days: the defaults, 63 and 63, share one.
FoldsApart ==
  /\ \A k \in DOMAIN folds :
       /\ folds[k].train_start <= folds[k].train_end
       /\ folds[k].train_end < folds[k].test_start
       /\ folds[k].test_end <= split.end
       /\ \/ folds[k].test_start <= folds[k].test_end
          \/ split.kind = "simple" /\ folds[k].train_end = split.end
  /\ \A k \in DOMAIN folds : k + 1 \in DOMAIN folds =>
       (folds[k + 1].test_start <= folds[k].test_end <=> split.step <= split.test)
===============================================================================
