--------------------------------- MODULE MCMcp ---------------------------------
(***************************************************************************)
(* The MCP server on a small economy: a chain with a loop back, a dead end  *)
(* and a goal, where two worlds have the same hash.                         *)
(***************************************************************************)
EXTENDS McpServer

MCWorlds == {"a", "b", "c", "d"}

MCKernel ==
  [a |-> [x |-> "b", y |-> "c"], b |-> [x |-> "d", y |-> "a"],
   c |-> [x |-> "none", y |-> "b"], d |-> [x |-> "none", y |-> "none"]]

MCTraces == {<<>>, <<"x">>, <<"x", "x">>, <<"x", "y">>, <<"y", "x">>}

MCHash(w) == IF w \in {"c", "d"} THEN "h_cd" ELSE IF w = "a" THEN "h_a" ELSE "h_b"

Request(initial, goals, candidates, limit, chunk) ==
  [initial |-> initial, goals |-> goals, candidates |-> [w \in MCWorlds |-> candidates],
   outcome |-> MCKernel, maxExpansions |-> limit, chunkSize |-> chunk]

MCProblems ==
  {Request("a", {"d"}, <<"x", "y">>, limit, chunk) : limit \in 1 .. 2, chunk \in 1 .. 2}
  \cup {Request("a", {}, <<"y", "x", "y">>, limit, chunk) : limit \in 2 .. 5, chunk \in 1 .. 3}
  \cup {Request("a", {"d"}, <<"y">>, 4, 2), Request("c", {"d"}, <<"y", "x">>, 3, 3),
        Request("a", {"a"}, <<"x">>, 1, 1), Request("b", {"d"}, <<>>, 1, 1),
        Request("a", {}, <<"x">>, 0, 1), Request("a", {}, <<"x">>, 2, 0),
        Request("a", {}, <<"x">>, 2, 4)}
=============================================================================
