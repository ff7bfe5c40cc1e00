---------------------------- MODULE MCForwardWatch ----------------------------
(* ForwardWatch on small instances, with the contents worth telling apart. *)
EXTENDS ForwardWatch, TLC

CONSTANTS s1, s2, unknown, o1, o2, o3, r1, r2

MCSessions == {s1, s2, unknown}
MCReliable == {s1, s2}
MCObjects == {o1, o2, o3}
Symmetry == Permutations(MCObjects)

One(kind, parse, s, t) ==
    [kind |-> kind, parse |-> parse, records |-> <<[session |-> s, meaningful |-> TRUE, time |-> t]>>,
     doc |-> NoSession, chunks |-> IF parse = "ok" THEN <<[time |-> t, session |-> s]>> ELSE <<>>]

\* A conversation that is old unless the daemon is enabled in the first tick,
\* and its continuation: the newest record is current, the first is not.
Early == One("claude", "ok", s1, 1)
Straddle == [One("claude", "ok", s1, 2) EXCEPT !.records = <<[@[1] EXCEPT !.time = 1], @[1]>>]
\* Events that name their session only in the chunks.
Events == One("antigravity", "ok", s1, 2)
Half == One("claude", "partial", s2, 2)
Undated == [One("codex", "badtime", unknown, 2) EXCEPT !.chunks = <<>>]

MCPaths == {1, 2}
OneRoot == [p \in MCPaths |-> 1]
TwoRoots == [p \in MCPaths |-> p]
NoNames == [p \in MCPaths |-> NoSession]
FirstNamed == [p \in MCPaths |-> IF p = 1 THEN s1 ELSE NoSession]
Mixture == {Early, Events, Undated}
Continued == {Early, Straddle, Events, Half, Undated}
=============================================================================
