----------------------------- MODULE Evaluation -----------------------------
(***************************************************************************)
(* ov_eval's error_dataset: the runs of one algorithm over one dataset are *)
(* matched by time with the ground truth, and the errors of a time are     *)
(* averaged if every run has one there.  A pose is its line in the file;   *)
(* the alignment and the errors themselves are left out.                   *)
(***************************************************************************)
EXTENDS Integers, FiniteSets, SequencesExt

CONSTANTS
  TruthStamps,    \* stamps a ground truth may have
  EstStamps,      \* stamps an estimate may have
  max_difference, \* how far apart a pose and its truth may be (0.02 s)
  NumRuns,        \* files of the algorithm
  MinMatches      \* poses to be matched for a trajectory to be used (3)

\* A truth exactly max_difference before a pose would stop the search for it: equality of
\* doubles that were subtracted, left out.
ASSUME EvaluationAssumption ==
  /\ TruthStamps \subseteq Int /\ IsFiniteSet(TruthStamps)
  /\ EstStamps \subseteq Int /\ IsFiniteSet(EstStamps)
  /\ max_difference \in Nat /\ NumRuns \in Nat \ {0} /\ MinMatches \in Nat
  /\ \A t \in TruthStamps, e \in EstStamps : e - t # max_difference

VARIABLES
  truth,     \* stamps of the ground truth, in order
  runs,      \* what each run's file held (lines) and was matched with (pairs)
  rmse,      \* rmse_dataset: an error of a run, by the time it is filed under
  nees,      \* nees_dataset
  averaged,  \* times of rmse_ori and of nees_ori
  outcome    \* "running", "done", or "exit" (std::exit)

evaluationVars == <<truth, runs, rmse, nees, averaged, outcome>>

Sorted(S) ==
  CHOOSE s \in [1..Cardinality(S) -> S] : \A i, j \in 1..Cardinality(S) : i < j => s[i] < s[j]

\* Lines with fewer than eight values are not read; these have eight, or all twenty, the
\* covariance being one that can be inverted or not.
Line(t, fields, sound) == [t |-> t, fields |-> fields, sound |-> sound]

\* Files: no covariances, all, all but the last of use, or all but the first line's.
ResultFiles ==
  UNION {
    LET s == Sorted(S)
        Of(fields(_), sound(_)) == [i \in 1..Len(s) |-> Line(s[i], fields(i), sound(i))]
    IN  { Of(LAMBDA i : 8, LAMBDA i : FALSE),
          Of(LAMBDA i : 20, LAMBDA i : TRUE),
          Of(LAMBDA i : 20, LAMBDA i : i # Len(s)),
          Of(LAMBDA i : IF i = 1 THEN 8 ELSE 20, LAMBDA i : i # 1) }
    : S \in SUBSET EstStamps }

Covariances(lines) == { i \in DOMAIN lines : lines[i].fields = 20 }

\* Loader::load_data ends the program unless there are poses, all with a covariance or none.
load_data(lines) == lines # <<>> /\ Covariances(lines) \in {{}, DOMAIN lines}
-----------------------------------------------------------------------------
Distance(a, b) == IF a < b THEN b - a ELSE a - b

\* The first loop: truths before the pose that are too far from it.
SkipEarly(pointer, t) ==
  Min({ q \in pointer..(Len(truth) + 1) :
            q \in DOMAIN truth => truth[q] >= t \/ Distance(truth[q], t) <= max_difference })

\* The second loop: on while the next truth is closer than the best so far.
StopsAt(first, t) ==
  LET best_diff(q) == IF q = first THEN max_difference ELSE Distance(truth[q - 1], t)
  IN  Min({ q \in first..(Len(truth) + 1) :
                q \in DOMAIN truth => Distance(truth[q], t) >= best_diff(q) })

\* Mistake: the pointer stays with the truth that was matched.
PointerStays(first, stop) == IF stop > first THEN stop - 1 ELSE stop

\* The pointer is past every truth that was matched.
PointerAfter(first, stop) == stop

\* One pose: with found.pairs so far, each the pose's index and the truth's.
Associate(found, i, t) ==
  LET first == SkipEarly(found.gt_pointer, t)
      stop == StopsAt(first, t)
  IN  [gt_pointer |-> PointerAfter(first, stop),
       pairs |-> IF stop > first THEN Append(found.pairs, <<i, stop - 1>>) ELSE found.pairs]

perform_association(lines) ==
  LET after[i \in 0..Len(lines)] ==
        IF i = 0 THEN [gt_pointer |-> 1, pairs |-> <<>>]
        ELSE Associate(after[i - 1], i, lines[i].t)
  IN  after[Len(lines)].pairs

\* Mistake: a matched pose keeps the time it was estimated at.
OwnTime(lines, pair) == lines[pair[1]].t

\* A matched pose is given the time of its truth.
TimeOf(lines, pair) == truth[pair[2]]

\* The ResultTrajectory of a file, or the end of the program.
IsTrajectory(lines) ==
  load_data(lines) /\ Len(perform_association(lines)) >= MinMatches

\* An error at every matched pose (calculate_ate and calculate_ate_2d).
calculate_ate(lines, pairs) ==
  { [time |-> TimeOf(lines, p), of |-> p[1]] : p \in ToSet(pairs) }

\* None without covariances, or where the covariance cannot be inverted.
calculate_nees(lines, pairs) ==
  { [time |-> TimeOf(lines, p), of |-> p[1]] :
      p \in { q \in ToSet(pairs) : Covariances(lines) # {} /\ lines[q[1]].sound } }
-----------------------------------------------------------------------------
\* The ground truth is loaded first; without one the program ends.
EvaluationInit ==
  /\ \E S \in SUBSET TruthStamps :
       /\ truth = Sorted(S)
       /\ outcome = IF S = {} THEN "exit" ELSE "running"
  /\ runs = <<>>
  /\ rmse = {}
  /\ nees = {}
  /\ averaged = [rmse |-> {}, nees |-> {}]

\* The errors of the run that is processed, filed by their times.
Filed(errors) == { <<Len(runs) + 1, e>> : e \in errors }

ProcessRun ==
  /\ outcome = "running"
  /\ Len(runs) < NumRuns
  /\ \E lines \in ResultFiles :
       IF IsTrajectory(lines)
       THEN LET pairs == perform_association(lines)
            IN  /\ runs' = Append(runs, [lines |-> lines, pairs |-> pairs])
                /\ rmse' = rmse \union Filed(calculate_ate(lines, pairs))
                /\ nees' = nees \union Filed(calculate_nees(lines, pairs))
                /\ UNCHANGED outcome
       ELSE /\ outcome' = "exit"
            /\ UNCHANGED <<runs, rmse, nees>>
  /\ UNCHANGED <<truth, averaged>>

\* The times with as many errors as there are files.
TimesOfAll(filed) ==
  { t \in { f[2].time : f \in filed } :
      Cardinality({ f \in filed : f[2].time = t }) = NumRuns }

FinishDataset ==
  /\ outcome = "running"
  /\ Len(runs) = NumRuns
  /\ averaged' = [rmse |-> TimesOfAll(rmse), nees |-> TimesOfAll(nees)]
  /\ outcome' = "done"
  /\ UNCHANGED <<truth, runs, rmse, nees>>

EvaluationNext == ProcessRun \/ FinishDataset

EvaluationSpec == EvaluationInit /\ [][EvaluationNext]_evaluationVars
-----------------------------------------------------------------------------
\* One pass over both files finds, for each pose in turn, the nearest truth after those
\* already taken, if one is near enough: no truth is used twice, and skipping truths for
\* one pose never costs a later one its own.
MatchesNearest ==
  \A k \in DOMAIN runs : \A i \in DOMAIN runs[k].lines :
    LET t == runs[k].lines[i].t
        matches == ToSet(runs[k].pairs)
        free == { q \in DOMAIN truth :
                    /\ Distance(truth[q], t) < max_difference
                    /\ \A p \in matches : p[1] < i => p[2] < q }
        nearest == { q \in free : \A r \in free :
                       \/ Distance(truth[q], t) < Distance(truth[r], t)
                       \/ Distance(truth[q], t) = Distance(truth[r], t) /\ q <= r }
    IN  { p[2] : p \in { m \in matches : m[1] = i } } = nearest

\* Although the runs have poses at different times, an average is taken exactly where every
\* run has an error: a count of errors is a count of runs.
AveragedOverAllRuns ==
  outcome = "done" =>
    LET reached(k, i) == i \in { truth[p[2]] : p \in ToSet(runs[k].pairs) }
        certain(k) == { truth[p[2]] : p \in
                          { q \in ToSet(runs[k].pairs) : runs[k].lines[q[1]].sound } }
    IN  /\ averaged.rmse = { t \in ToSet(truth) : \A k \in 1..NumRuns : reached(k, t) }
        /\ averaged.nees = { t \in ToSet(truth) : \A k \in 1..NumRuns : t \in certain(k) }
=============================================================================
