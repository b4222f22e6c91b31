---------------------------- MODULE AffectedGraph ----------------------------
(***************************************************************************)
(* `nanoom run': from the manifests and the changed files to the tasks     *)
(* that run, and in which order.  The changed files mark the workspaces    *)
(* that hold them, the mark spreads to dependents over internal links      *)
(* (workspace.rs, calculate_affected), rules and --filter select           *)
(* (commands/run.rs), all workspaces are put in dependency order           *)
(* (workspace.rs, topological_sort), and the selected ones are executed    *)
(* one at a time until one fails, or all of them with --continue-on-error. *)
(*                                                                         *)
(* A project is its index in discovery order, which is the order of paths. *)
(***************************************************************************)
EXTENDS Naturals, Sequences, FiniteSets, SequencesExt, Orders

CONSTANTS
    N,           \* number of workspaces discovered
    NameRank,    \* the order of their names
    MaxForeign,  \* bound: declared dependencies that resolve to the registry
    MaxIgnored,  \* bound: workspaces with an ignore rule
    NoFilter     \* no --filter given

Project == 1..N

ASSUME GraphAssumption ==
    /\ N \in Nat
    /\ NameRank \in [Project -> Nat]
    /\ \A p, q \in Project : NameRank[p] = NameRank[q] => p = q
    /\ MaxForeign \in Nat /\ MaxIgnored \in Nat
    /\ NoFilter \notin Project

VARIABLES
    declares, \* the workspace names in each manifest
    links,    \* of these, the ones that resolve to the local package
    phase,
    touched,  \* workspaces whose directory contains a changed file
    direct,   \* of these, the ones a changed file is given to
    affected, \* workspaces marked so far
    queue,    \* of these, the ones whose dependents are still to be marked
    selected, \* workspaces the command executes
    keepGoing,\* --continue-on-error
    indegree, \* unordered dependencies left, per workspace
    ready,    \* workspaces without one, in the order they got there
    order,    \* the dependency order, as far as it is known
    completed, failed, pending \* the report

repo  == <<declares, links>>
marks == <<touched, direct, affected, queue>>
args  == <<selected, keepGoing>>
sort  == <<indegree, ready, order>>
tally == <<completed, failed, pending>>
vars  == <<repo, phase, marks, args, sort, tally>>

------------------------------------------------------------------------------
(* The graph *)

Neighbours(edges, p) == edges[p] \ {p}

(* What p reaches along the edges, p included. *)
Closure(edges, p) ==
    LET within[n \in 0..N] ==
          IF n = 0 THEN {p}
          ELSE LET near == within[n - 1] IN near \cup UNION {edges[q] : q \in near}
    IN  within[N]

Acyclic(edges, p) ==
    \A q \in Closure(edges, p) :
       \A r \in Neighbours(edges, q) : q \notin Closure(edges, r)

(* build_dependents: only internal links count. *)
Dependents(p) == {q \in Project : p \in Neighbours(links, q)}

(* Mutant: the closure follows every declared name. *)
CheckoutDeclared(p) == Closure(declares, p)

(* dependency_closure_paths: the directories checked out to run p. *)
Checkout(p) == Closure(links, p)

(* Which directories contain which: prefixes form a forest, and discovery  *)
(* sorts paths, so that what a directory contains follows it without gap.  *)
Nesting ==
    {r \in SUBSET {e \in Project \X Project : e[1] < e[2]} :
       \A p, q, s \in Project :
          /\ <<p, q>> \in r /\ <<q, s>> \in r => <<p, s>> \in r
          /\ <<p, s>> \in r /\ p < q /\ q < s => <<p, q>> \in r}

Containing(inside, p) == {q \in Project : q = p \/ <<q, p>> \in inside}

(* calculate_affected gives a file to the first workspace whose directory  *)
(* contains it; p is the innermost one.                                    *)
Owner(inside, p) ==
    CHOOSE q \in Containing(inside, p) : \A r \in Containing(inside, p) : q <= r

ByName(S) == Ranked([p \in S |-> NameRank[p]])
ByPath(S) == Ranked([p \in S |-> p])

------------------------------------------------------------------------------
(* The diff, by what is asked of its files: the innermost workspace that   *)
(* contains one, and whether it is the manifest of a workspace or matches  *)
(* a global dependency.  A diff has at most two entries here (a bound).    *)
Outside == 0
File == [in : Project \cup {Outside}, is : {"plain", "manifest", "global"}]

Entry ==
    {c \in [status : {"deleted", "renamed", "copied", "modified"}, old : File, new : File] :
        c.status \in {"deleted", "modified"} => c.old = c.new}

Diffs == {{}} \cup {{c, d} : c, d \in Entry}

(* get_changed_files_with_structure: a rename changes both of its sides, a *)
(* copy only the new one.                                                  *)
Files(c) == IF c.status = "renamed" THEN {c.old, c.new} ELSE {c.new}
Changed(diff) == UNION {Files(c) : c \in diff}
Structural(diff) == UNION {Files(c) : c \in {d \in diff : d.status \in {"deleted", "renamed"}}}

(* A workspace that appears under another name or not at all, or a change  *)
(* that every workspace depends on.                                        *)
ChangesStructure(diff) == \E f \in Structural(diff) : f.is = "manifest"
ChangesGlobals(diff) == \E f \in Changed(diff) : f.is = "global"

WholesaleDiffs == {d \in Diffs : ChangesStructure(d) \/ ChangesGlobals(d)}

(* What the other diffs change: sets of innermost workspaces. *)
LocalChanges ==
    {{f.in : f \in Changed(diff)} \ {Outside} : diff \in Diffs \ WholesaleDiffs}

------------------------------------------------------------------------------
Init ==
    /\ declares \in [Project -> SUBSET Project]
    /\ \A p \in Project : p \notin declares[p]
    /\ \E foreign \in SUBSET {e \in Project \X Project : e[2] \in declares[e[1]]} :
          /\ Cardinality(foreign) <= MaxForeign
          /\ links = [p \in Project |-> {q \in declares[p] : <<p, q>> \notin foreign}]
    /\ phase = "start"
    /\ touched = {} /\ direct = {} /\ affected = {} /\ queue = {}
    /\ selected = {} /\ keepGoing = FALSE
    /\ indegree = [p \in Project |-> 0] /\ ready = << >> /\ order = << >>
    /\ completed = << >> /\ failed = {} /\ pending = {}

(* calculate_with_override takes every workspace, or has calculate_affected*)
(* mark and queue the owners of the changed files.                         *)
TakeAll ==
    /\ phase = "start"
    /\ WholesaleDiffs # {}
    /\ phase' = "all"
    /\ affected' = Project
    /\ UNCHANGED <<repo, touched, direct, queue, args, sort, tally>>

Mark ==
    /\ phase = "start"
    /\ phase' = "spread"
    /\ \E inside \in Nesting, changed \in LocalChanges :
          /\ touched' = UNION {Containing(inside, p) : p \in changed}
          /\ direct' = {Owner(inside, p) : p \in changed}
    /\ affected' = direct'
    /\ queue' = direct'
    /\ UNCHANGED <<repo, args, sort, tally>>

(* Mutant: a newly marked dependent is not queued. *)
SpreadOnce ==
    /\ phase = "spread"
    /\ \E p \in queue :
          /\ affected' = affected \cup Dependents(p)
          /\ queue' = queue \ {p}
    /\ UNCHANGED <<repo, phase, touched, direct, args, sort, tally>>

(* Mutant: dependents are queued whether or not they were marked before. *)
SpreadAgain ==
    /\ phase = "spread"
    /\ \E p \in queue :
          /\ affected' = affected \cup Dependents(p)
          /\ queue' = (queue \ {p}) \cup Dependents(p)
    /\ UNCHANGED <<repo, phase, touched, direct, args, sort, tally>>

(* The queue starts as the content of a HashSet: any of it may be next. *)
Spread ==
    /\ phase = "spread"
    /\ \E p \in queue :
          LET fresh == Dependents(p) \ affected
          IN  /\ affected' = affected \cup fresh
              /\ queue' = (queue \ {p}) \cup fresh
    /\ UNCHANGED <<repo, phase, touched, direct, args, sort, tally>>

SpreadDone ==
    /\ phase = "spread"
    /\ queue = {}
    /\ phase' = "affected"
    /\ UNCHANGED <<repo, marks, args, sort, tally>>

(* explain_affected: a breadth-first search over the declared names, from  *)
(* a workspace that no change touches to the first one that is touched.    *)
(* Mutant: what a dependency depends on is not looked at.                  *)
SearchNear(p) ==
    LET next == ByName(declares[p] \cap touched)
    IN  IF next = << >> THEN << >> ELSE <<p, next[1]>>

Look(w) ==
    LET path == Head(w.queue)
        next == ByName(declares[Last(path)] \ w.seen)
        hits == OnlyOf(next, touched)
    IN  IF w.queue = << >> \/ w.found # << >> THEN w
        ELSE [ queue |-> Tail(w.queue) \o [i \in DOMAIN next |-> Append(path, next[i])],
               seen  |-> w.seen \cup ToSet(next),
               found |-> IF hits = << >> THEN << >> ELSE Append(path, hits[1]) ]

Search(p) ==
    LET walk[n \in 0..N] ==
          IF n = 0 THEN [queue |-> <<<<p>>>>, seen |-> {p}, found |-> << >>]
          ELSE Look(walk[n - 1])
    IN  walk[N].found

(* The reason reported for an affected workspace; none is << >>. *)
Reason(p) == IF p \in touched THEN <<p>> ELSE Search(p)

(* --all or what is affected, less the ignore rules, with --filter; then   *)
(* topological_sort of all workspaces begins with those that depend on     *)
(* nothing.                                                                *)
IgnoreRules == {S \in SUBSET Project : Cardinality(S) <= MaxIgnored}

MatchingAll(filter, ignored) ==
    {p \in Project \ ignored : filter = NoFilter \/ p = filter}

MatchingAffected(filter, ignored) ==
    {p \in affected \ ignored : filter = NoFilter \/ p = filter}

(* Mutant: internal links are counted, declared names discounted. *)
InDegreeOfLinks(p) == Cardinality(Neighbours(links, p))

InDegree(p) == Cardinality(Neighbours(declares, p))

Select(all) ==
    /\ phase \in IF all THEN {"start"} ELSE {"all", "affected"}
    /\ \E filter \in Project \cup {NoFilter}, ignored \in IgnoreRules :
          LET chosen == IF all THEN MatchingAll(filter, ignored)
                              ELSE MatchingAffected(filter, ignored)
          IN  /\ selected' = chosen
              /\ phase' = IF chosen # {} THEN "sort"
                          ELSE IF all /\ filter # NoFilter THEN "rejected" ELSE "done"
    /\ IF phase' = "sort"
         THEN /\ keepGoing' \in BOOLEAN
              /\ indegree' = [p \in Project |-> InDegree(p)]
              /\ ready' = ByName({p \in Project : InDegree(p) = 0})
              /\ order' = << >>
         ELSE UNCHANGED <<keepGoing, sort>>
    /\ UNCHANGED <<repo, marks, tally>>

(* The first ready workspace is next; what waited for it alone is ready. *)
Take ==
    /\ phase = "sort"
    /\ ready # << >>
    /\ LET p    == Head(ready)
           less == {q \in Project : p \in Neighbours(declares, q)}
       IN  /\ order' = Append(order, p)
           /\ indegree' = [q \in Project |->
                             IF q \in less THEN indegree[q] - 1 ELSE indegree[q]]
           /\ ready' = Tail(ready) \o ByName({q \in less : indegree'[q] = 0})
    /\ UNCHANGED <<repo, phase, marks, args, tally>>

(* Mutant: what a cycle holds back is forgotten. *)
TakeNoRest ==
    /\ phase = "sort"
    /\ ready = << >>
    /\ phase' = "run"
    /\ UNCHANGED <<repo, marks, args, sort, tally>>

(* What a cycle holds back is appended in discovery order. *)
TakeRest ==
    /\ phase = "sort"
    /\ ready = << >>
    /\ order' = order \o ByPath(Project \ ToSet(order))
    /\ phase' = "run"
    /\ UNCHANGED <<repo, marks, args, indegree, ready, tally>>

(* Mutant: the selection is executed as it was selected. *)
RunOrderOfPaths == ByPath(selected)

(* Sorting the whole workspace before selecting keeps the order between    *)
(* projects that are connected through unselected ones.                    *)
RunOrder == OnlyOf(order, selected)
Left == OnlyOf(RunOrder, Project \ (ToSet(completed) \cup failed))

(* run_task: no runner for the task, a command that cannot be started, an  *)
(* exit status other than 0 are failures alike.                            *)
Outcomes == {"completed", "failed"}

RunTask ==
    /\ phase = "run"
    /\ Left # << >>
    /\ \E outcome \in Outcomes :
          \/ /\ outcome = "completed"
             /\ completed' = Append(completed, Head(Left))
             /\ UNCHANGED <<phase, failed, pending>>
          \/ /\ outcome = "failed"
             /\ failed' = failed \cup {Head(Left)}
             /\ IF keepGoing
                  THEN UNCHANGED <<phase, pending>>
                  ELSE phase' = "done" /\ pending' = ToSet(Tail(Left))
             /\ UNCHANGED completed
    /\ UNCHANGED <<repo, marks, args, sort>>

RunDone ==
    /\ phase = "run"
    /\ Left = << >>
    /\ phase' = "done"
    /\ UNCHANGED <<repo, marks, args, sort, tally>>

Next ==
    \/ TakeAll \/ Mark \/ Spread \/ SpreadDone
    \/ \E all \in BOOLEAN : Select(all)
    \/ Take \/ TakeRest
    \/ RunTask \/ RunDone

(* One process without waiting, whose tasks end. *)
Spec == Init /\ [][Next]_vars /\ WF_vars(Next)

------------------------------------------------------------------------------
TypeOK ==
    /\ declares \in [Project -> SUBSET Project]
    /\ links \in [Project -> SUBSET Project]
    /\ phase \in {"start", "all", "spread", "affected", "sort", "run", "done", "rejected"}
    /\ direct \subseteq touched /\ touched \subseteq Project
    /\ affected \subseteq Project /\ queue \subseteq affected
    /\ selected \subseteq Project /\ keepGoing \in BOOLEAN
    /\ indegree \in [Project -> Nat]
    /\ ready \in Seq(Project) /\ order \in Seq(Project)
    /\ completed \in Seq(Project) /\ failed \subseteq Project
    /\ pending \subseteq Project

(* What calculate_affected returns (workspace.rs:374): the workspaces that *)
(* own a change and their dependents, transitively, and nothing else.      *)
AffectedIsLeast ==
    phase = "affected" =>
       /\ direct \subseteq affected
       /\ \A p \in affected : Dependents(p) \subseteq affected
       /\ \A S \in SUBSET Project :
             direct \subseteq S /\ (\A p \in S : Dependents(p) \subseteq S)
                => affected \subseteq S

(* ADR 0011: the checkout closure and the propagation judge a link alike   *)
(* (workspace.rs:128 and 66).  A workspace is affected exactly when its    *)
(* checkout contains a workspace that owns a change.                       *)
CheckoutHoldsTheChange ==
    phase = "affected" =>
       \A p \in Project : p \in affected <=> Checkout(p) \cap direct # {}

(* Every workspace that is affected is told why: a chain of declared       *)
(* dependencies from it to a workspace that holds a change, although the   *)
(* mark spreads over internal links from the owners of the changes and     *)
(* explain_affected searches declared names up to any workspace around     *)
(* them (it drops a workspace it finds no chain for).                      *)
ReasonsAreChains ==
    phase = "affected" =>
       \A p \in affected :
          LET path == Reason(p)
          IN  /\ path # << >> /\ Head(path) = p
              /\ \A i \in DOMAIN path : path[i] \in touched <=> i = Len(path)
              /\ \A i \in 2..Len(path) : path[i] \in declares[path[i - 1]]

(* run.rs:155, "Dependencies must run before dependents": also when they   *)
(* are connected through workspaces that are not selected, and whatever    *)
(* cycles there are elsewhere.                                             *)
DependenciesFirst ==
    phase = "run" /\ Left = RunOrder =>
       \A i, j \in DOMAIN RunOrder :
          RunOrder[j] \in Closure(declares, RunOrder[i]) \ {RunOrder[i]}
          /\ Acyclic(declares, RunOrder[i])  => j < i

(* README.md:167: completed, failed and pending are what was selected,     *)
(* each workspace in one of them; cycles lose nothing and repeat nothing.  *)
(* Only a failure leaves work pending, and only the first one counts       *)
(* unless --continue-on-error is given.                                    *)
RunIsAccounted ==
    phase = "done" =>
       /\ ToSet(completed) \cup failed \cup pending = selected
       /\ Len(completed) + Cardinality(failed) + Cardinality(pending)
             = Cardinality(selected)
       /\ keepGoing => pending = {}
       /\ ~keepGoing => Cardinality(failed) <= 1 /\ (pending # {} => failed # {})

(* workspace.rs:402: marking ends on every graph, cyclic ones included     *)
(* ("Cycles are tolerated", workspace.rs:489), and so does the command.    *)
Terminates == <>(phase \in {"done", "rejected"})

(* workspace.rs:488, "Orders projects so that dependencies come before     *)
(* their dependents", for the dependencies that are workspaces of the      *)
(* repository: no cycle of internal links, no dependent before them.       *)
InternalDependenciesFirst ==
    phase = "run" /\ Left = RunOrder =>
       \A i, j \in DOMAIN RunOrder :
          RunOrder[j] \in Closure(links, RunOrder[i]) \ {RunOrder[i]}
          /\ Acyclic(links, RunOrder[i])  => j < i
==============================================================================
