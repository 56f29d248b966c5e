------------------------- MODULE MCExceptionEngine -------------------------
(* Six addresses: ordinary code, the stub, a hooked address, and three     *)
(* that serve as handlers and as the special rfi sites.                    *)
EXTENDS ExceptionEngine

MCAddr == {"task", "stub", "hook", "rettask", "icd", "zero"}
MCStubAddr == {"stub"}
MCHookAddr == {"hook"}
MCCellAddr == {"zero"}
MCEntry == [k \in Kind |-> CASE k = "DEC" -> "rettask"
                              [] k = "EXT" -> "icd"
                              [] OTHER -> "stub"]
MCFollowing == [a \in MCAddr |-> IF a = "rettask" THEN "hook" ELSE "task"]
=============================================================================
