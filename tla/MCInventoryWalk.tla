-------------------------- MODULE MCInventoryWalk --------------------------
(* InventoryWalk with three products and seven sockets on three ports.     *)
EXTENDS InventoryWalk

Ollama == [kind |-> "model_server", product |-> "Ollama"]
Chroma == [kind |-> "vector_db", product |-> "Chroma"]
Mcp == [kind |-> "mcp_server", product |-> "MCP server (HTTP transport)"]

MCCatalogue == <<Mcp, Ollama, Chroma>>
MCSignature == [ollama |-> Ollama]
MCPortHint == [p \in {8000} |-> Chroma]

(* A named model server on both stacks, behind a gateway that answers like *)
(* a vector database on another port of the same process; an unnamed       *)
(* service of another user; a service nobody knows.                        *)
Named4 == Socket("any4", 11434, 1, "ollama", Says(Ollama, "high"))
Named6 == Socket("any6", 11434, 1, "ollama", Says(Ollama, "high"))
NamedToo == Socket("loop4", 8000, 1, "ollama", Says(Chroma, "medium"))
Unnamed == Socket("loop4", 8000, 0, "?", Says(Chroma, "high"))
Python == Socket("any4", 9000, 2, "python", Says(Chroma, "medium"))
Private == Socket("loop6", 8000, 3, "node", Silent)
Network == Socket("lan", 9000, 2, "python", Says(Chroma, "medium"))

MCMachines ==
  {{Named4, Named6, NamedToo}, {Named6, Unnamed, Python}, {Unnamed, Python, Network}}
MCOthers == {Unnamed, Private}

(* Chroma answers /mcp, too, with an error that is not a 404.              *)
MCWeaker ==
  [a \in Hearable |-> IF a = Says(Chroma, "high") THEN {Says(Mcp, "medium")} ELSE {}]

(* The private service is bound to ::1 only, next to one on 127.0.0.1.     *)
MCTwoLoopbacks == {{Private, Unnamed}}
MCTwoStacks == {{Named4, Named6}}
MCTwoNetworks == {{Python, Network}}
=============================================================================
