---------------------------- MODULE MCHTTPExchange ----------------------------
(* One request of BKHTTPClient, of one of three kinds, or two requests of    *)
(* other programs at a time, whose bytes may reach the wrong task.           *)
EXTENDS HTTPExchange

CONSTANTS own, endless, corrupt, post, get

MCRequest == {own, endless, corrupt, post, get}
MCStranger == {post, get}
MCPosts == {own, corrupt, post}
MCEndless == {endless}
MCCorrupt == {corrupt}
MCParts ==
  [r \in MCRequest |-> IF r \in MCPosts THEN <<<<r, "head">>, <<r, "body">>>> ELSE <<<<r, "head">>>>]

MCMade == {r \in Request : link[r].at # "none" \/ ~Does(r, "task", "none")}
MCTogether == MCMade \subseteq MCStranger \/ Cardinality(MCMade) = 1
=============================================================================
