---------------------------- MODULE MCDriftGate ----------------------------
(* DriftGate on a small machine: two grants, of two rules or of one; an    *)
(* .env file of two lines; an exposed socket known by its port only and a  *)
(* local one known by the name of its process.                             *)
EXTENDS DriftGate

CONSTANTS g1, g2, p1, p2

Two == {p1, p2}
One == {p1}
Symmetry == Permutations(Two)

Ollama == [kind |-> "model_server", product |-> "Ollama"]
Chroma == [kind |-> "vector_db", product |-> "Chroma"]
MCCatalogue == <<Ollama, Chroma>>
MCSignature == [ollama |-> Ollama]
MCPortHint == [p \in {8000} |-> Chroma]

MCGrants == {g1, g2}
OneOfThem == {g1}
MCSockets == {Socket("any4", 8000, 1, "python", Says(Chroma, "high")),
              Socket("loop4", 11434, 2, "ollama", Says(Ollama, "high"))}

(* One service on both stacks.                                             *)
MCStacks == {Socket("loop4", 11434, 2, "ollama", Says(Ollama, "high")),
             Socket("loop6", 11434, 2, "ollama", Says(Ollama, "high"))}

MCStart == {[grants |-> {g1}, secret |-> 1, sockets |-> MCSockets]}
MCStartStacks == {[grants |-> {}, secret |-> 0, sockets |-> MCStacks]}
=============================================================================
