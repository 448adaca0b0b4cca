--------------------------- MODULE MCGraphEngine ---------------------------
(* Instances of GraphEngine for TLC. *)
EXTENDS GraphEngine, TLC

CONSTANTS a, b, c, d

NoRoutes == [n \in Nodes |-> {}]

\* a, then b and c side by side, then d.
Diamond ==
    [entry |-> a, edges |-> <<<<a, b>>, <<a, c>>, <<b, d>>, <<c, d>>, <<d, End>>>>,
     routes |-> NoRoutes, mode |-> "all", durability |-> "sync",
     before |-> {}, after |-> {}, asking |-> {}, failing |-> {},
     channels |-> Nodes, storeFails |-> FALSE, runs |-> 3]

\* a, then b with c and d side by side behind them, in the default mode.
Forks ==
    [Diamond EXCEPT !.mode = "any", !.edges = <<<<a, b>>, <<a, c>>, <<b, d>>, <<c, End>>, <<d, End>>>>]

\* a, b and c in turn; c goes back to a or on to d.
Loop ==
    [Diamond EXCEPT !.mode = "any", !.edges = <<<<a, b>>, <<b, c>>, <<d, End>>>>,
                    !.routes = [NoRoutes EXCEPT ![c] = {a, d}]]

Sound ==
    {[Diamond EXCEPT !.asking = {d}, !.failing = {b}],
     [Diamond EXCEPT !.asking = {a, d}, !.durability = "exit"],
     [Diamond EXCEPT !.failing = {b}, !.durability = "async", !.runs = 2],
     [Loop EXCEPT !.durability = "async", !.storeFails = TRUE, !.runs = 2],
     [Loop EXCEPT !.durability = "exit", !.storeFails = TRUE],
     [Diamond EXCEPT !.failing = {d}, !.channels = {}],
     [Loop EXCEPT !.asking = {b}, !.failing = {c}],
     [Loop EXCEPT !.after = {b}, !.storeFails = TRUE],
     [Loop EXCEPT !.before = {d}, !.runs = 2]}

InterruptsBefore == {[Loop EXCEPT !.before = {b}]}
TwoBranches      == {Forks}
PausedFanOut     == {[Diamond EXCEPT !.asking = {b}]}
PausedBranch     == {[Forks EXCEPT !.asking = {b}]}
ExitAfter        == {[Diamond EXCEPT !.after = {a}, !.durability = "exit"]}
Plain            == {Diamond}
=============================================================================
