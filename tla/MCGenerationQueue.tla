--------------------------- MODULE MCGenerationQueue ---------------------------
(* Instances of GenerationQueue for TLC.                                    *)
EXTENDS GenerationQueue, TLC

CONSTANTS r1, r2, r3, a1, a2, run1, run2, yes, yesToo, no, bad, dYes, dNo, dBad

\* Two runs: r3 belongs to the second, every other request to the first.
MCRunOf == [r \in Requests |-> IF r = r3 THEN run2 ELSE run1]

\* yes and yesToo are the same JSON value written differently.
MCDigest == [c \in Candidates |->
    CASE c \in {yes, yesToo} -> dYes [] c = no -> dNo [] c = bad -> dBad]

\* bad does not satisfy the schema.
MCFits == [c \in Candidates |-> c # bad]

\* Agents are interchangeable.
AgentSymmetry == Permutations(Agents)
===============================================================================
