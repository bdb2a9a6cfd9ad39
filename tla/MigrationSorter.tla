---------------------------- MODULE MigrationSorter ----------------------------
(***************************************************************************)
(* MigrationSorter (src/cot/src/db/migrations/sorter.rs): turns the        *)
(* migrations of all apps into the one order in which MigrationEngine runs *)
(* them, or refuses them.  Graph::toposort is the module GraphToposort,    *)
(* apply_permutation the module ApplyPermutation, each run step by step.   *)
(***************************************************************************)
EXTENDS Naturals, Sequences, FiniteSets

CONSTANTS
  App, Name,  \* app and migration names, as numbers in their sorting order
  Model,      \* tables
  Inputs      \* the lists of migrations to sort

(* MigrationDependency, and the keys of the lookup table (MigrationLookup): *)
(* From<&MigrationDependency> maps one to the other.                        *)
Lookup == [app : App, name : Name] \cup [app : App, model : Model]

Migration == [app : App, name : Name, dependencies : Seq(Lookup), creates : Seq(Model)]

ASSUME NamesAreOrdered == App \subseteq Nat /\ Name \subseteq Nat
ASSUME InputsType == Inputs \subseteq Seq(Migration)

VARIABLES
  input,       \* the list that was passed in (history variable)
  migrations,  \* the list, sorted in place
  lookup,      \* the lookup table: key -> index in migrations
  pc,          \* the function that runs, or "sorted" or "failed"
  at,          \* the index its loop is at
  error,       \* the variant of MigrationSorterError that was returned
  vertex_edges, visited, frames, finished, root, result,  \* GraphToposort
  target, items, order, i, current, inner                 \* ApplyPermutation
graph == <<vertex_edges, visited, frames, finished, root, result>>
permutation == <<target, items, order, i, current, inner>>
vars == <<input, migrations, lookup, pc, at, error, graph, permutation>>

G == INSTANCE GraphToposort
P == INSTANCE ApplyPermutation

Init ==
  /\ input \in Inputs
  /\ migrations = input
  /\ lookup = <<>>
  /\ pc = "sort"
  /\ at = 1
  /\ error = "none"
  /\ G!InitOn(<<>>)
  /\ P!InitOn(<<>>)

Fail(e) == pc' = "failed" /\ error' = e

Permuted(list, p) == [k \in DOMAIN list |-> list[p[k]]]
Before(a, b) == a.app < b.app \/ (a.app = b.app /\ a.name < b.name)

(* Mutant: the list is left as the apps registered it.                      *)
Unsorted(list) == {[k \in DOMAIN list |-> k]}

(* sort_by on (app, name), stable.                                          *)
StableSorts(list) ==
  {p \in [DOMAIN list -> DOMAIN list] :
     \A j, k \in DOMAIN list : j < k =>
       \/ Before(list[p[j]], list[p[k]])
       \/ ~Before(list[p[k]], list[p[j]]) /\ p[j] < p[k]}

SortByName ==
  /\ pc = "sort"
  /\ \E p \in StableSorts(migrations) : migrations' = Permuted(migrations, p)
  /\ pc' = "create_lookup_table"
  /\ UNCHANGED <<input, lookup, at, error, graph, permutation>>

ByAppAndName(m) == [app |-> m.app, name |-> m.name]
ByAppAndModel(m, model) == [app |-> m.app, model |-> model]

(* One iteration of create_lookup_table.                                    *)
Enter ==
  /\ pc = "create_lookup_table"
  /\ at <= Len(migrations)
  /\ LET m == migrations[at]
         models == {ByAppAndModel(m, m.creates[k]) : k \in DOMAIN m.creates}
     IN
     \/ /\ ByAppAndName(m) \in DOMAIN lookup
        /\ Fail("DuplicateMigration")
        /\ UNCHANGED <<lookup, at>>
     \/ /\ ByAppAndName(m) \notin DOMAIN lookup
        /\ \/ models \cap DOMAIN lookup # {}
           \/ \E j, k \in DOMAIN m.creates : j # k /\ m.creates[j] = m.creates[k]
        /\ Fail("DuplicateModel")
        /\ UNCHANGED <<lookup, at>>
     \/ /\ ByAppAndName(m) \notin DOMAIN lookup
        /\ models \cap DOMAIN lookup = {}
        /\ \A j, k \in DOMAIN m.creates : m.creates[j] = m.creates[k] => j = k
        /\ lookup' = [key \in DOMAIN lookup \cup {ByAppAndName(m)} \cup models |->
                        IF key \in DOMAIN lookup THEN lookup[key] ELSE at]
        /\ at' = at + 1
        /\ UNCHANGED <<pc, error>>
  /\ UNCHANGED <<input, migrations, graph, permutation>>

(* create_lookup_table returned, and Graph::new.                            *)
NewGraph ==
  /\ pc = "create_lookup_table"
  /\ at > Len(migrations)
  /\ pc' = "add_edges"
  /\ at' = 1
  /\ vertex_edges' = [k \in DOMAIN migrations |-> <<>>]
  /\ UNCHANGED <<input, migrations, lookup, error, visited, frames, finished, root, result,
                 permutation>>

DependenciesOf(k) ==
  {migrations[k].dependencies[d] : d \in DOMAIN migrations[k].dependencies}

(* The edges out of v with those to k added, one for each dependency of k   *)
(* on v.                                                                    *)
EdgesFrom(v, k) ==
  LET deps == migrations[k].dependencies
      on == {d \in DOMAIN deps : lookup[deps[d]] = v}
  IN vertex_edges[v] \o [e \in 1..Cardinality(on) |-> k]

(* One iteration of the loop over the migrations in toposort.               *)
AddEdges ==
  /\ pc = "add_edges"
  /\ at <= Len(migrations)
  /\ \/ /\ DependenciesOf(at) \subseteq DOMAIN lookup
        /\ vertex_edges' = [v \in DOMAIN migrations |-> EdgesFrom(v, at)]
        /\ at' = at + 1
        /\ UNCHANGED <<pc, error>>
     \/ /\ ~(DependenciesOf(at) \subseteq DOMAIN lookup)
        /\ Fail("InvalidDependency")
        /\ UNCHANGED <<vertex_edges, at>>
  /\ UNCHANGED <<input, migrations, lookup, visited, frames, finished, root, result,
                 permutation>>

CallToposort ==
  /\ pc = "add_edges"
  /\ at > Len(migrations)
  /\ pc' = "toposort"
  /\ G!CallOn(vertex_edges)
  /\ UNCHANGED <<input, migrations, lookup, at, error, permutation>>

Toposort ==
  /\ pc = "toposort"
  /\ G!Next
  /\ UNCHANGED <<input, migrations, lookup, pc, at, error, permutation>>

(* Mutant: the stack of finished vertices is applied as it is.              *)
ApplyFinished ==
  /\ pc = "toposort"
  /\ result = "sorted"
  /\ pc' = "apply"
  /\ P!CallOn(finished)
  /\ UNCHANGED <<input, migrations, lookup, at, error, graph>>

(* graph.toposort()? returned, and the call of apply_permutation.           *)
CallApply ==
  /\ pc = "toposort"
  /\ result = "sorted"
  /\ pc' = "apply"
  /\ P!CallOn(G!sorted_indices)
  /\ UNCHANGED <<input, migrations, lookup, at, error, graph>>

Refuse ==
  /\ pc = "toposort"
  /\ result = "cycle"
  /\ Fail("CycleDetected")
  /\ UNCHANGED <<input, migrations, lookup, at, graph, permutation>>

Permute ==
  /\ pc = "apply"
  /\ P!Next
  /\ UNCHANGED <<input, migrations, lookup, pc, at, error, graph>>

(* apply_permutation has moved the migrations as it moved the items.        *)
Return ==
  /\ pc = "apply"
  /\ P!Done
  /\ migrations' = Permuted(migrations, items)
  /\ pc' = "sorted"
  /\ UNCHANGED <<input, lookup, at, error, graph, permutation>>

Next ==
  \/ SortByName \/ Enter \/ NewGraph \/ AddEdges
  \/ CallToposort \/ Toposort \/ Refuse
  \/ CallApply \/ Permute \/ Return

Spec == Init /\ [][Next]_vars
FairSpec == Spec /\ WF_vars(Next)

-----------------------------------------------------------------------------
(* m is what a dependency names: the migration itself, or the one that      *)
(* creates the model.                                                       *)
Provides(m, d) ==
  \/ d = ByAppAndName(m)
  \/ \E k \in DOMAIN m.creates : d = ByAppAndModel(m, m.creates[k])

(* The engine runs every migration after all those it depends on, directly, *)
(* through a model, or through another app, and sorting on the way there    *)
(* neither lost nor repeated one.                                           *)
DependenciesFirst ==
  pc = "sorted" =>
    /\ \E p \in [DOMAIN input -> DOMAIN input] :
         /\ \A j, k \in DOMAIN input : p[j] = p[k] => j = k
         /\ migrations = Permuted(input, p)
    /\ \A k \in DOMAIN migrations : \A d \in DependenciesOf(k) :
         \E j \in 1..(k - 1) : Provides(migrations[j], d)

DependsOn(m, n) ==
  \E k \in DOMAIN m.dependencies : Provides(n, m.dependencies[k])

Duplicate(kind) ==
  \E j, k \in DOMAIN input :
    \/ kind = "DuplicateMigration" /\ j # k /\ ByAppAndName(input[j]) = ByAppAndName(input[k])
    \/ /\ kind = "DuplicateModel"
       /\ input[j].app = input[k].app
       /\ \E a \in DOMAIN input[j].creates, b \in DOMAIN input[k].creates :
            <<j, a>> # <<k, b>> /\ input[j].creates[a] = input[k].creates[b]
Unresolved ==
  \E k \in DOMAIN input : \E d \in DOMAIN input[k].dependencies :
    \A j \in DOMAIN input : ~Provides(input[j], input[k].dependencies[d])
Cyclic ==
  \E loop \in SUBSET DOMAIN input :
    loop # {} /\ \A j \in loop : \E k \in loop : DependsOn(input[j], input[k])

(* Every refusal has its reason in the list that was passed in, and a list  *)
(* with one of the four reasons is never sorted.                            *)
RefusedForAReason ==
  /\ error \in {"DuplicateMigration", "DuplicateModel"} => Duplicate(error)
  /\ error = "InvalidDependency" => Unresolved
  /\ error = "CycleDetected" => Cyclic
  /\ pc = "sorted" =>
       ~Duplicate("DuplicateMigration") /\ ~Duplicate("DuplicateModel") /\ ~Unresolved /\ ~Cyclic

(* Inside the sorter, too, toposort's result is a topological order of all  *)
(* migrations (its assert_eq!).                                             *)
SortedIsTopological == G!SortedIsTopological

(* The order does not depend on the order in which the apps registered      *)
(* their migrations: independent migrations are sorted by name.             *)
IndependentByName ==
  pc = "sorted" /\ (\A k \in DOMAIN input : input[k].dependencies = <<>>) =>
    \A j, k \in DOMAIN migrations : j < k => Before(migrations[j], migrations[k])

(* Sorting ends.                                                            *)
Ends == <>(pc \in {"sorted", "failed"})
==============================================================================
