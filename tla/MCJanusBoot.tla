----------------------------- MODULE MCJanusBoot -----------------------------
(* Instance of JanusBoot: a program of two instructions after the boot.       *)
EXTENDS JanusBoot

\* Two page tables, and registers that begin empty, with bits in every part,
\* or full.
MCPml4 == {14, 20}
MCRoots == {MCPml4, {13}}
MCLeftovers == {{}, {3, 8, 20, 40}, 0..63}

MCCr0Values == {{"PE"}, {"PE", "PG"}, {}}
MCCr4Values == SUBSET {"PAE"}
MCEferValues == SUBSET EFER
=============================================================================
