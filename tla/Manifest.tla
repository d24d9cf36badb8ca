------------------------------ MODULE Manifest ------------------------------
(***************************************************************************)
(* Provider manifests, src/core/manifest.c: loading a directory of them,   *)
(* resolving the mandatory dependencies of requested providers into a load *)
(* order (Kahn's algorithm), and ranking the alternatives of a capability  *)
(* slot.  cmd_validate of src/cli/main.c loads, and then resolves, also    *)
(* against what a load that failed has left.                               *)
(*                                                                         *)
(* One step is one turn of a loop of the code.  Manifests are numbered     *)
(* from 1 in the order readdir gave them, which is any.  Nothing keeps two *)
(* files from carrying the same name, or a manifest from listing a         *)
(* dependency twice.  A manifest is intact when its artifact has the digest *)
(* it states, if any; nothing here looks at the artifact (worker_main.c    *)
(* does, before it loads the provider).                                    *)
(***************************************************************************)
EXTENDS Integers, FiniteSets, SequencesExt

CONSTANTS
    File,          \* the manifest files a directory may hold
    Request,       \* the sequences of names that are requested
    Slot,          \* the capability slots that are ranked
    Host,          \* host_architecture
    AbiMajor,      \* OBICALL_ABI_VERSION_MAJOR
    AbiMinor,      \* OBICALL_ABI_VERSION_MINOR
    OutCap,        \* out_cap of the caller that ranks
    MaxManifests   \* OBICALL_MAX_MANIFESTS

ASSUME ManifestConstants ==
    /\ {AbiMajor, AbiMinor, OutCap} \subseteq Nat
    /\ MaxManifests \in Nat \ {0}
    /\ \A f \in File : f.problems \subseteq 1..12
    /\ \A f \in File : f.manifest.name \in Nat /\ f.manifest.score \in Int
    /\ \A f \in File : f.manifest.dependencies \in Seq(Nat)
    /\ Request \subseteq Seq(Nat)

VARIABLES
    items,      \* the manifest set
    load,       \* status of obicall_manifest_load_dir, or "LOADING"
    pc,         \* the loop the code is in, or "idle"
    names,      \* requested_names of the last resolution
    needed,     \* needed: the indices marked
    stack,      \* stack
    indegree,   \* indegree
    queue,      \* queue
    popped,     \* qi, which is order_n: the plan is what was popped so far
    status,     \* status of the last resolution
    slot,       \* capability_slot of the last ranking
    alt,        \* the loop variable of the ranking, 0 outside of it
    ranked      \* candidates, in the end out_indices

resolution == <<names, needed, stack, indegree, queue, popped, status>>
ranking == <<slot, alt, ranked>>
vars == <<items, load, pc, resolution, ranking>>

Index == 1..Len(items)
NoSlot == ""

TypeOK ==
    /\ items \in Seq({f.manifest : f \in File})
    /\ Len(items) <= MaxManifests
    /\ load \in {"LOADING", "OK", "IO", "BUFFER_TOO_SMALL", "OUT_OF_RANGE",
                 "INVALID_ARGUMENT", "UNSUPPORTED"}
    /\ pc \in {"load", "idle", "closure", "order", "rank", "sort"}
    /\ needed \subseteq Index
    /\ stack \in Seq(Index)
    /\ \A i \in DOMAIN indegree : indegree[i] \in 0..Len(items[i].dependencies)
    /\ queue \in Seq(needed)
    /\ popped \in 0..Len(queue)
    /\ status \in {"NONE", "RUNNING", "OK", "MISSING", "CYCLE"}
    /\ alt \in 0..Len(items)
    /\ ranked \in Seq(Index)

Init ==
    /\ items = << >>
    /\ load = "LOADING"
    /\ pc = "load"
    /\ names = << >> /\ needed = {} /\ stack = << >> /\ indegree = << >>
    /\ queue = << >> /\ popped = 0 /\ status = "NONE"
    /\ slot = NoSlot /\ alt = 0 /\ ranked = << >>
-----------------------------------------------------------------------------
(***************************************************************************)
(* Loading.                                                                *)
(***************************************************************************)

\* The ways obicall_manifest_parse_json and its helpers refuse a file, in the
\* order they are met, and what each returns.  The first two are met before
\* parsing: the file cannot be opened, or is longer than the buffer.
Problem == <<"IO", "BUFFER_TOO_SMALL",
             "INVALID_ARGUMENT",   \* no schema_version
             "UNSUPPORTED",        \* another schema_version
             "INVALID_ARGUMENT",   \* no name
             "UNSUPPORTED",        \* unknown language
             "INVALID_ARGUMENT",   \* no artifact_path
             "INVALID_ARGUMENT",   \* malformed artifact_sha256
             "BUFFER_TOO_SMALL",   \* config object too large
             "OUT_OF_RANGE",       \* too many dependencies
             "INVALID_ARGUMENT",   \* a dependency is not a string
             "BUFFER_TOO_SMALL">>  \* a dependency's name is too long

Parse(f) ==
    IF f.problems = {} THEN "OK" ELSE Problem[CHOOSE p \in f.problems : \A q \in f.problems : p <= q]

\* load_one_manifest_file: the set is checked for room after the file was
\* read and before it is parsed.
LoadOne(f) ==
    IF f.problems \cap {1, 2} # {} THEN Parse(f)
    ELSE IF Len(items) >= MaxManifests THEN "OUT_OF_RANGE"
    ELSE Parse(f)

\* A turn of the loop of obicall_manifest_load_dir: the first file that is
\* refused ends it, and what was loaded before stays in the set.
LoadFile(f) ==
    /\ pc = "load"
    /\ IF LoadOne(f) = "OK"
       THEN items' = Append(items, f.manifest) /\ UNCHANGED <<load, pc>>
       ELSE load' = LoadOne(f) /\ pc' = "idle" /\ UNCHANGED items
    /\ UNCHANGED <<resolution, ranking>>

\* readdir has no more entries, or there is no such directory.
EndOfDir ==
    /\ pc = "load"
    /\ load' = "OK"
    /\ pc' = "idle"
    /\ UNCHANGED <<items, resolution, ranking>>
-----------------------------------------------------------------------------
(***************************************************************************)
(* Resolution.                                                             *)
(***************************************************************************)

\* find_by_name: the first of that name, or 0.
FindByName(name) ==
    LET found == {i \in Index : items[i].name = name} IN
    IF found = {} THEN 0 ELSE CHOOSE i \in found : \A j \in found : i <= j

AllFound(wanted) == \A k \in 1..Len(wanted) : FindByName(wanted[k]) # 0

\* The elements of a finite set of numbers in increasing order.
Ascending(S) ==
    CHOOSE s \in [1..Cardinality(S) -> S] : \A a, b \in 1..Cardinality(S) : a < b => s[a] < s[b]

\* Mutant of FirstMet: what is already marked is met again.
FirstMet_Again(marked, wanted) == 1..Len(wanted)

\* The places at which a manifest is met that is not marked yet.
FirstMet(marked, wanted) ==
    {k \in 1..Len(wanted) : LET i == FindByName(wanted[k]) IN
        i \notin marked /\ \A l \in 1..(k - 1) : FindByName(wanted[l]) # i}

\* The names are looked up in turn, and what is met first is marked and pushed.
\* The first that is absent ends the call: what was marked until then does not
\* matter any more.
Mark(marked, pushed, wanted) ==
    IF AllFound(wanted)
    THEN LET new == Ascending(FirstMet(marked, wanted)) IN
         /\ needed' = marked \cup {FindByName(wanted[k]) : k \in 1..Len(wanted)}
         /\ stack' = pushed \o [n \in DOMAIN new |-> FindByName(wanted[new[n]])]
         /\ status' = "RUNNING"
    ELSE needed' = marked /\ stack' = << >> /\ status' = "MISSING"

\* Where a resolution returns to: obicall_manifest_rank_alternatives calls it too.
Caller == IF alt = 0 THEN "idle" ELSE "rank"

\* obicall_manifest_resolve up to its second loop.
Begin(wanted) ==
    /\ names' = wanted
    /\ Mark({}, << >>, wanted)
    /\ indegree' = << >> /\ queue' = << >> /\ popped' = 0

Resolve(wanted) ==
    /\ pc = "idle"
    /\ Begin(wanted)
    /\ pc' = IF AllFound(wanted) THEN "closure" ELSE "idle"
    /\ slot' = NoSlot /\ ranked' = << >>
    /\ UNCHANGED <<items, load, alt>>

\* A turn of the second loop: the dependencies of a needed manifest.
Visit ==
    /\ pc = "closure"
    /\ stack # << >>
    /\ LET deps == items[Last(stack)].dependencies IN
       /\ Mark(needed, Front(stack), deps)
       /\ pc' = IF AllFound(deps) THEN pc ELSE Caller
    /\ UNCHANGED <<items, load, names, indegree, queue, popped, ranking>>

\* Mutant of Ready: one dependency left is taken for none.
Ready_OneLeft(count, was) ==
    Ascending({i \in needed : count[i] <= 1 /\ was[i] > 1})

\* The manifests, in index order, that wait for nothing and did before.
Ready(count, was) ==
    Ascending({i \in needed : count[i] = 0 /\ was[i] > 0})

\* The indegrees, and the queue of what depends on nothing.
BeginOrder ==
    /\ pc = "closure"
    /\ stack = << >>
    /\ indegree' = [i \in Index |-> IF i \in needed THEN Len(items[i].dependencies) ELSE 0]
    /\ queue' = Ready(indegree', [i \in Index |-> MaxManifests])
    /\ pc' = "order"
    /\ UNCHANGED <<items, load, names, needed, stack, popped, status, ranking>>

\* What a manifest that is emitted takes from the others: one, however often
\* they list it.
WaitsFor(j, i) ==
    j \in needed /\ indegree[j] > 0 /\ items[i].name \in ToSet(items[j].dependencies)

\* A turn of the third loop.
Emit ==
    /\ pc = "order"
    /\ popped < Len(queue)
    /\ popped' = popped + 1
    /\ LET i == queue[popped + 1] IN
       indegree' = [j \in Index |-> IF WaitsFor(j, i) THEN indegree[j] - 1 ELSE indegree[j]]
    /\ queue' = queue \o Ready(indegree', indegree)
    /\ UNCHANGED <<items, load, pc, names, needed, stack, status, ranking>>

\* Mutant of Verdict: compares with the size of the set.
Verdict_Count == IF popped # Len(items) THEN "CYCLE" ELSE "OK"

\* order_n against needed_count.
Verdict == IF popped # Cardinality(needed) THEN "CYCLE" ELSE "OK"

EndOrder ==
    /\ pc = "order"
    /\ popped = Len(queue)
    /\ status' = Verdict
    /\ pc' = Caller
    /\ UNCHANGED <<items, load, names, needed, stack, indegree, queue, popped, ranking>>

\* order of out_plan.
Plan == SubSeq(queue, 1, popped)
-----------------------------------------------------------------------------
(***************************************************************************)
(* Ranking.                                                                *)
(***************************************************************************)

\* The conditions obicall_manifest_rank_alternatives puts before resolution.
Suits(m, s) ==
    /\ m.slot # NoSlot /\ m.slot = s
    /\ m.architecture \in {"", Host}
    /\ m.major = AbiMajor
    /\ m.minor <= AbiMinor

\* should_shift of the insertion sort.  Names compare by their rank.
Shifts(cur, key) ==
    \/ items[cur].score > items[key].score
    \/ items[cur].score = items[key].score /\ items[cur].name > items[key].name

\* Mutant of Insert: compares with the first candidate only.
Insert_AtEnds(s, n) ==
    LET at == IF Shifts(s[1], s[n]) THEN 1 ELSE n
    IN  [k \in 1..Len(s) |-> IF k < at \/ k > n THEN s[k] ELSE IF k = at THEN s[n] ELSE s[k - 1]]

\* A turn of the sort: the longest tail of the first n - 1 candidates that must
\* shift makes room for the n-th.
Insert(s, n) ==
    LET stay == {k \in 1..(n - 1) : ~Shifts(s[k], s[n])}
        at == IF stay = {} THEN 1 ELSE 1 + CHOOSE k \in stay : \A l \in stay : l <= k
    IN  [k \in 1..Len(s) |-> IF k < at \/ k > n THEN s[k] ELSE IF k = at THEN s[n] ELSE s[k - 1]]

Rank(s) ==
    /\ pc = "idle"
    /\ IF items = << >> THEN alt' = 0 /\ UNCHANGED pc ELSE alt' = 1 /\ pc' = "rank"
    /\ slot' = s /\ ranked' = << >>
    /\ status' = "NONE"
    /\ UNCHANGED <<items, load, names, needed, stack, indegree, queue, popped>>

\* A manifest of the slot is resolved, by its name.
RankResolve ==
    LET name == items[alt].name IN
    /\ pc = "rank"
    /\ status = "NONE"
    /\ Suits(items[alt], slot)
    /\ Begin(<<name>>)
    /\ pc' = "closure"
    /\ UNCHANGED <<items, load, ranking>>

\* It is a candidate or not; then the next one, or, after the last, the sort.
RankNext ==
    /\ pc = "rank"
    /\ Suits(items[alt], slot) => status # "NONE"
    /\ ranked' = IF Suits(items[alt], slot) /\ status = "OK" THEN Append(ranked, alt) ELSE ranked
    /\ status' = "NONE"
    /\ IF alt < Len(items) THEN alt' = alt + 1 /\ UNCHANGED pc ELSE alt' = 1 /\ pc' = "sort"
    /\ UNCHANGED <<items, load, names, needed, stack, indegree, queue, popped, slot>>

\* The sort has done with the first alt candidates.
Sort ==
    /\ pc = "sort"
    /\ alt < Len(ranked)
    /\ alt' = alt + 1
    /\ ranked' = Insert(ranked, alt + 1)
    /\ UNCHANGED <<items, load, pc, resolution, slot>>

\* The caller gets as many as it has room for.
EndRank ==
    /\ pc = "sort"
    /\ alt >= Len(ranked)
    /\ alt' = 0
    /\ ranked' = SubSeq(ranked, 1, IF Len(ranked) < OutCap THEN Len(ranked) ELSE OutCap)
    /\ pc' = "idle"
    /\ UNCHANGED <<items, load, resolution, slot>>

Next ==
    \/ \E f \in File : LoadFile(f)
    \/ EndOfDir
    \/ \E wanted \in Request : Resolve(wanted)
    \/ Visit
    \/ BeginOrder
    \/ Emit
    \/ EndOrder
    \/ \E s \in Slot : Rank(s)
    \/ RankResolve
    \/ RankNext
    \/ Sort
    \/ EndRank

Spec == Init /\ [][Next]_vars
-----------------------------------------------------------------------------
(***************************************************************************)
(* Properties.                                                             *)
(***************************************************************************)

\* What a resolution means: the least set that holds the manifests asked for
\* and, of each, those it depends on and that are there.
Closed(S) == \A i \in S : \A d \in ToSet(items[i].dependencies) : FindByName(d) \in S \cup {0}
Roots(wanted) == {FindByName(n) : n \in ToSet(wanted)} \ {0}
Closure(wanted) ==
    {i \in Index : \A S \in SUBSET Index : (Closed(S) /\ Roots(wanted) \subseteq S) => i \in S}

SomeMissing(wanted) ==
    ~AllFound(wanted) \/ \E i \in Closure(wanted) : ~AllFound(items[i].dependencies)

\* Manifests each of which depends on one of them.
SomeCycle(wanted) ==
    \E S \in (SUBSET Closure(wanted)) \ {{}} :
        \A i \in S : \E d \in ToSet(items[i].dependencies) : FindByName(d) \in S

ListsTwice(wanted) ==
    \E i \in Closure(wanted) :
        Cardinality(ToSet(items[i].dependencies)) # Len(items[i].dependencies)

\* "Fails with OBICALL_ERR_DEPENDENCY_CYCLE [...] or
\* OBICALL_ERR_DEPENDENCY_MISSING [...] rather than silently resolving a partial
\* graph" (manifest.h:80); the absence is reported first.
Answer(wanted) ==
    IF SomeMissing(wanted) THEN "MISSING" ELSE IF SomeCycle(wanted) THEN "CYCLE" ELSE "OK"

\* stack and queue have OBICALL_MAX_MANIFESTS entries, and no manifest enters
\* either of them twice, whatever cycles and repetitions the files hold.
WithinArrays ==
    /\ Len(stack) <= MaxManifests /\ IsInjective(stack)
    /\ Len(queue) <= MaxManifests /\ IsInjective(queue)

\* A plan that obicall_manifest_resolve returns holds exactly the manifests
\* that are needed, each once and after everything it depends on.
PlanIsLoadOrder ==
    status = "OK" =>
        /\ ToSet(Plan) = Closure(names)
        /\ \A k \in 1..Len(Plan) : \A d \in ToSet(items[Plan[k]].dependencies) :
              FindByName(d) \in {Plan[l] : l \in 1..(k - 1)}

\* A request is refused when something needed is absent or needs itself, and
\* then only.
RefusesAsDocumented ==
    status \in {"OK", "MISSING", "CYCLE"} => status = Answer(names)

\* So it is wherever no manifest that is needed lists a dependency twice.
RefusesExactly ==
    status \in {"OK", "MISSING", "CYCLE"} => ListsTwice(names) \/ status = Answer(names)

\* Whether manifest.h:88 speaks of the alternatives of the slot as the code
\* does, which compares no digest and refuses what lists a dependency twice.
Ordinary ==
    \A i \in Index : Suits(items[i], slot) => items[i].intact /\ ~ListsTwice(<<items[i].name>>)

\* A ranking holds the alternatives of the slot that suit the host and whose
\* name resolves, by score and then by name, as many as there is room for: none
\* left out ranks before one that is in.
RankingIsRight ==
    (pc = "idle" /\ slot # NoSlot /\ Ordinary) =>
        LET eligible == {i \in Index : /\ Suits(items[i], slot) /\ items[i].intact
                                       /\ Answer(<<items[i].name>>) = "OK"}
        IN  /\ ToSet(ranked) \subseteq eligible
            /\ Len(ranked) = IF Cardinality(eligible) < OutCap THEN Cardinality(eligible) ELSE OutCap
            /\ \A k \in 1..Len(ranked) :
                  \A i \in eligible \ {ranked[l] : l \in 1..k} : ~Shifts(ranked[k], i)
=============================================================================
