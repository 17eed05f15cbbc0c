----------------------------- MODULE MCAtParser ------------------------------
(* Bounds for AtParser: lines that are short, just fit, are just too long  *)
(* and are too long by far, with each end, and a write of three bytes.     *)
EXTENDS AtParser, FiniteSets

CONSTANTS MaxItems, Lens, MaxData

Commands == {c \in [len : Lens, end : {"lf", "cr", "crlf"}, data : {0, MaxData}] :
               c.data > 0 => c.len = 2}

MCScripts == UNION {[1 .. n -> Commands] : n \in 1 .. MaxItems}
=============================================================================
