--------------------------- MODULE MCRackdollBoot ---------------------------
(***************************************************************************)
(* Instance of RackdollBoot: up to three tags of six kinds, two slots of   *)
(* tasks, each of which writes a word in rbx.  The words of main's frame,  *)
(* of setup_tss() and of run_tasks() are those of the kernel as it is      *)
(* built.                                                                  *)
(***************************************************************************)
EXTENDS RackdollBoot

Module(start, size, header) ==
  [start |-> start, size |-> size, header |-> header, header_addr |-> 1000 + header]
ModuleTag(size, m) == [type |-> MB2_TAG_MODULE, size |-> size, module |-> m]

MCTags == {ModuleTag(17, Module(64, 40, 0)), ModuleTag(20, Module(128, 44, 16)),
           ModuleTag(16, Module(192, 32, -1)), ModuleTag(23, Module(256, 36, -1)),
           [type |-> 1, size |-> 9], [type |-> 0, size |-> 8]}

MCWords == {<<"word", 1>>}

MCNoHeader == -1
=============================================================================
