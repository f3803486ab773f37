----------------------------- MODULE MCLifecycle -----------------------------
(***************************************************************************)
(* Instances of Lifecycle: a suite root with one component, and two        *)
(* benchmarks whose directories have the same name.                        *)
(***************************************************************************)
EXTENDS Lifecycle, TLC

Processes == Permutations(Process)

\* jbs_benchmarks: `bench` with the component `bench/small`.  Both locks are
\* taken to run; bench.tar.gz and small.tar.gz are the archives.
Suite == {"bench", "small"}
SuiteRuns == {"small"}
SuiteLocks == [bench |-> {"bench"}, small |-> Suite]
SuiteFiles == [r \in Suite |-> r]
SuiteArchives == Suite

\* The benchmarks a/bench and b/bench, both archived to bench.tar.gz.
Twins == {"a", "b"}
TwinLocks == [r \in Twins |-> {r}]
TwinFiles == [r \in Twins |-> "bench"]
TwinArchives == {"bench"}
=============================================================================
