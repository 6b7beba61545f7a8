-------------------------- MODULE MCEmulatorMemory --------------------------
(***************************************************************************)
(* Three modules, of which two import one another and two define the same  *)
(* function; a heap of four words, and memory that ends before the locals. *)
(***************************************************************************)
EXTENDS EmulatorMemory

Fun(name, n) == [name |-> name, locals |-> n]
Mod(name, imports, fs) == [name |-> name, imports |-> imports, functions |-> fs]

ModuleA == Mod("a", {"a", "b"}, << Fun("f", 2), Fun("g", 0) >>)
ModuleB == Mod("b", {"a"}, << Fun("h", 1) >>)
ModuleC == Mod("c", {"a", "c"}, << Fun("k", 1), Fun("f", 1), Fun("h", 1) >>)

MCPrograms == {<< ModuleA, ModuleB >>, << ModuleB >>, << ModuleC, ModuleA >>}
OneModule == {<< ModuleA >>}

=============================================================================
