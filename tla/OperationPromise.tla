-------------------------- MODULE OperationPromise --------------------------
(***************************************************************************)
(* What a confirmed operation promises the person who confirmed it,        *)
(* whatever happens to sudo, the helper, the time limit and sysview: it    *)
(* has an effect at most once, "done" is said only of what was done,       *)
(* "failed" only of what was not done and never will be, and of a call     *)
(* that ran out of time nothing is claimed.                                *)
(***************************************************************************)
CONSTANT Runs     \* one per operation under way

VARIABLES
    effect,       \* "none" or "done": whether the operation changed the system
    word          \* what the person was told of it

vars == <<effect, word>>

Init ==
    /\ effect = [r \in Runs |-> "none"]
    /\ word = [r \in Runs |-> "nothing"]

\* The operation takes effect, once, and not after it was said to have failed.
Do(r) ==
    /\ effect[r] = "none"
    /\ word[r] \in {"nothing", "unknown"}
    /\ effect' = [effect EXCEPT ![r] = "done"]
    /\ UNCHANGED word

Tell(r) ==
    /\ word[r] = "nothing"
    /\ \E w \in {"ok", "failed", "unknown"} :
          /\ w = "ok" => effect[r] = "done"
          /\ w = "failed" => effect[r] = "none"
          /\ word' = [word EXCEPT ![r] = w]
    /\ UNCHANGED effect

\* The operation is over and its place is taken by a later one.
Finish(r) ==
    /\ effect' = [effect EXCEPT ![r] = "none"]
    /\ word' = [word EXCEPT ![r] = "nothing"]

Next == \E r \in Runs : Do(r) \/ Tell(r) \/ Finish(r)

Spec == Init /\ [][Next]_vars
=============================================================================
