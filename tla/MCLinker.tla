------------------------------ MODULE MCLinker ------------------------------
(***************************************************************************)
(* Programs of small modules out of ten, added in every order, any number  *)
(* of which are refused and may be added again.                            *)
(***************************************************************************)
EXTENDS Linker

U32 == [size |-> 4, align |-> 4]
\* struct #[repr(packed(4))] of five bytes: a size that is no multiple of the alignment.
Packed == [size |-> 5, align |-> 4]
MCType == {U32, Packed}
MCSymbol == {"g", "k", "HEAP_BASE", "HEAP_TOP", "HEAP_END"}
MCModuleName == {"a", "b", "c", "d", "e", "std::mem"}
MCFunctionName == {"f", "h"}
MCMaxAddr == 70000
MCData == 0 .. MCMaxAddr

Id(module, function) == [module |-> module, function |-> function]
Sig(ext) == [ty |-> "u32", ext |-> ext]
Import(module, function, ext) == [id |-> Id(module, function), sig |-> Sig(ext)]
Seg(offset, size, init) == [offset |-> offset, size |-> size, init |-> init, readonly |-> FALSE]
Glob(symbol, ty, linkage, init) ==
    [name |-> Plainly(symbol), ty |-> ty, linkage |-> linkage, init |-> init, live |-> TRUE]
Some(n) == [init |-> "Some", data |-> n]
Fun(name, public, ext, imports, refs) ==
    [name |-> name, public |-> public, sig |-> Sig(ext), imports |-> imports, refs |-> refs]
Mod(name, segs, globs, functions) ==
    [name |-> name, segments |-> segs, globals |-> globs, functions |-> functions]

\* Calls b; its g is renamed when b came first.  h is private.
ModuleA ==
    Mod("a", << Seg(65536, 8, "x") >>,
        << Glob("g", Packed, "Internal", NoInit), Glob("k", U32, "External", NoInit) >>,
        << Fun("f", TRUE, "None", {Import("b", "f", "Zext"), Import("a", "h", "None"),
                                   Import("a", "f", "None")}, {"g"}),
           Fun("h", FALSE, "None", {}, {}) >>)
\* Calls c.
ModuleB ==
    Mod("b", << >>,
        << Glob("g", U32, "Internal", Some(7)), Glob("k", U32, "External", Some(1)) >>,
        << Fun("f", TRUE, "Zext", {Import("c", "f", "None")}, {"g", "k"}) >>)
\* Another b, that calls back to a.
ModuleBack ==
    Mod("b", << >>, << Glob("k", U32, "External", NoInit) >>,
        << Fun("f", TRUE, "Zext", {Import("a", "f", "None")}, {"k"}) >>)
\* Shares a segment with a; calls the standard library.
ModuleC ==
    Mod("c", << Seg(65536, 8, "x"), Seg(65552, 0, "x") >>, << >>,
        << Fun("f", TRUE, "None", {Import("std::mem", "h", "None")}, {"k", "HEAP_BASE"}) >>)
\* Its g is a's; k is not its own.
ModuleD ==
    Mod("d", << >>, << Glob("g", Packed, "Internal", NoInit) >>,
        << Fun("f", FALSE, "None", {}, {"g", "k"}) >>)
\* Calls a's private function.
ModulePrying ==
    Mod("d", << >>, << >>, << Fun("f", TRUE, "None", {Import("a", "h", "None")}, {}) >>)
\* Takes b's f for another, and wants one that b lacks; overlaps with a and c.
ModuleWrong ==
    Mod("e", << Seg(65540, 8, "x") >>, << >>,
        << Fun("f", TRUE, "None", {Import("b", "f", "Sext"), Import("b", "h", "None")}, {}) >>)
\* Calls what its own module lacks; its k and its bytes are not those of the others, and
\* where its k is refused, its g is there.
ModuleLacking ==
    Mod("e", << Seg(65536, 8, "y") >>,
        << Glob("g", U32, "Internal", NoInit), Glob("k", U32, "Odr", NoInit) >>,
        << Fun("f", TRUE, "None", {Import("e", "h", "None")}, {}) >>)
\* Has a cycle of its own; its globals and its calls are there when it is refused.
ModuleCycle ==
    Mod("e", << >>, << Glob("k", U32, "External", Some(1)) >>,
        << Fun("f", TRUE, "None", {Import("e", "h", "None"), Import("b", "f", "Zext")}, {"k"}),
           Fun("h", TRUE, "None", {Import("e", "f", "None")}, {}) >>)
\* Reaches the end of memory.
ModuleEnd ==
    Mod("e", << Seg(69980, 8, "x") >>, << Glob("HEAP_TOP", U32, "External", NoInit) >>,
        << Fun("f", TRUE, "None", {}, {}) >>)

MCModules == {ModuleA, ModuleB, ModuleBack, ModuleC, ModuleD, ModulePrying, ModuleWrong,
              ModuleLacking, ModuleCycle, ModuleEnd}
MCEntrypoints == {Id("a", "f"), Id("d", "f")}

\* The programs that show what a reader of the docs would not expect.
OneModule == {Mod("c", << >>, << >>, << Fun("f", TRUE, "None", {}, {"HEAP_BASE"}) >>)}
TwoModules ==
    {Mod(n, << >>, << Glob("g", U32, "Internal", NoInit) >>,
         << Fun("f", TRUE, "None", {}, {"g"}) >>) : n \in {"a", "b"}}
NoEntrypoint == {}

=============================================================================
