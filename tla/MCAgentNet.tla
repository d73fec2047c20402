----------------------------- MODULE MCAgentNet -----------------------------
(***************************************************************************)
(* Every net of up to three edges over two agents and a function (repeated *)
(* edges, loops and cycles included) and some with more nodes: a diamond,  *)
(* two branches that accept different models as in docs/language.md, two   *)
(* fan-ins, and a cycle and an undefined name behind an entry.             *)
(***************************************************************************)
EXTENDS AgentNet

E(x, y) == <<x, y>>
Diamond == <<E("a", "b"), E("a", "f"), E("b", "c"), E("f", "c")>>
Branches == <<E("f", "a"), E("f", "c"), E("a", "b"), E("c", "d")>>
FanIns == <<E("b", "d"), E("f", "d"), E("f", "c"), E("d", "c"), E("b", "c")>>
Behind == <<E("f", "b"), E("b", "c"), E("c", "b"), E("f", "u"), E("u", "d")>>

MCNode == {"a", "b", "c", "d", "f", "u"}
Small == UNION {[1..k -> {"a", "c", "f"} \X {"a", "c", "f"}] : k \in 0..3}
MCFlows == Small \union {Diamond, Branches, FanIns, Behind}
MCKind == [x \in MCNode |-> CASE x = "f" -> "other"
                              [] x = "u" -> "undefined"
                              [] OTHER -> "agent"]
MCModel == {"M", "P"}
MCAccept == [x \in MCNode |-> IF x = "c" THEN "P" ELSE "M"]
MCProduce == [x \in MCNode |-> IF x \in {"a", "d"} THEN "P" ELSE "M"]
MCRetries == [x \in MCNode |-> IF x \in {"a", "d"} THEN 1 ELSE 0]
=============================================================================
