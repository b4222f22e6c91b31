----------------------------- MODULE MCPlanning -----------------------------
(***************************************************************************)
(* Every history of four commits that head and base reach, and every clone *)
(* of it; three workspaces, the first of which the second needs; a group   *)
(* distributed over one to three assignments, and one that is not.         *)
(***************************************************************************)
EXTENDS Planning, TLC

CONSTANTS ci, lint

MCWorkspace == 1..3
MCGroup == {ci, lint}
MCCheckoutPaths == <<{1}, {1, 2}, {3}>>
MCRefs == <<"head", "base">>

Histories == {p \in [Commit -> SUBSET Commit] : \A c \in Commit : p[c] \subseteq 1..(c - 1)}
MCRequests ==
    {r \in [parents : Histories, base : Commit, head : Commit, mode : {"merge-base"}, max : {1, 3, 4}] :
        Reach(r.parents, {}, r.base) \cup Reach(r.parents, {}, r.head) = Commit}
    \cup {[parents |-> <<{}, {1}, {1}, {3}>>, base |-> b, head |-> 4, mode |-> "tip", max |-> 3] :
             b \in {2, 3}}

(* Comparisons whose limit is no shorter than the history.                *)
MCDeepRequests == {r \in MCRequests : r.max = C}

MCTiers == << [percent |-> 40, concurrency |-> 1],
              [percent |-> 70, concurrency |-> 2],
              [percent |-> 100, concurrency |-> 3] >>

Plain(tasks) ==
    [tasks |-> tasks, shards |-> << >>, ignored |-> {}, environment |-> Unknown, tiers |-> << >>]

(* The third workspace in two shards, at most five run jobs.               *)
Distributed ==
    ci :> [Plain({1}) EXCEPT !.shards = (<<3, 1>> :> 2), !.tiers = MCTiers]
    @@ lint :> [Plain({1}) EXCEPT !.ignored = {3}]

(* Too many shards for one matrix; an environment of its own.              *)
Sharded ==
    ci :> [Plain({1}) EXCEPT !.tiers = MCTiers, !.environment = "large"]
    @@ lint :> [Plain({1, 2}) EXCEPT !.shards = (<<2, 1>> :> 5)]

MCConfigs == {Distributed, Sharded}

Item(w, s, n) == [name |-> w, task |-> 1, shard |-> s, total |-> n]

Exact ==
    UNION { {ExactKey(Item(1, 0, 0)) :> d1 @@ ExactKey(Item(2, 0, 0)) :> d2
             @@ ExactKey(Item(3, 1, 2)) :> d3 @@ ExactKey(Item(3, 2, 2)) :> d4 :
               d1 \in {1, 4}, d2 \in {2, 4}} : d3 \in {2, 4}, d4 \in {1, 4}}

Fallback == {<< >>, FallbackKey(Item(1, 0, 0)) :> 3 @@ FallbackKey(Item(3, 1, 2)) :> 2}

PrepareAlone ==
    <<"preparation", {1}, {1}>> :> 3 @@ <<"preparation", {1, 2}, {2}>> :> 9
    @@ <<"preparation", {3}, {3}>> :> 3

Prepare ==
    { << >>, AnyPreparation :> 2, PrepareAlone,
      PrepareAlone @@ <<"preparation", {1, 2}, {1, 2}>> :> 2
                   @@ <<"preparation", {1, 2, 3}, {1, 2, 3}>> :> 2 }

Less(exact) == {[k \in DOMAIN exact \ {d} |-> exact[k]] : d \in DOMAIN exact}

Tables == {e @@ f @@ p : e \in Exact \cup UNION {Less(x) : x \in Exact}, f \in Fallback, p \in Prepare}

MCEmpty == {<<Nil, Nil>>}

MCStored ==
    {<<Nil, Nil>>} \cup {<<t, Nil>> : t \in Tables}
    \cup {<<FallbackKey(Item(2, 0, 0)) :> 7 @@ p, t>> : p \in Prepare, t \in {e @@ (AnyPreparation :> 4) : e \in Exact}}
=============================================================================
