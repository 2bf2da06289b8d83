------------------------------ MODULE MCJanusCpu ------------------------------
(* Instance of JanusCpu: the guest writes every value of CR0, CR4 and EFER   *)
(* made of the bits that state.c looks at.                                   *)
EXTENDS JanusCpu

MCCr0Values == SUBSET {"PE", "PG"}
MCCr4Values == SUBSET {"PAE"}
MCEferValues == SUBSET EFER
=============================================================================
