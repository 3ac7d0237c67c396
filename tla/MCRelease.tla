----------------------------- MODULE MCRelease -----------------------------
(***************************************************************************)
(* Builds for TLC: a good one for each flavor, and some that are wrong in  *)
(* one way each.                                                           *)
(***************************************************************************)
EXTENDS Release

MCLto == "thin"
MCMajor == 22
MCFlavor == {v2, v3}
MCFpuObject == {"fpu.o"}
MCLtoExcluded == {"entry.o"}
MCReviewed == {<<"raid6", "symbol", "xor">>, <<"vmlinux", "section", ".altinstr_replacement">>}

Command(target, lang, place, flags) ==
  [target |-> target, lang |-> lang, place |-> place, flags |-> flags]

Good == {
  Command("fork.o",  "C", "kernel",  <<"base", "nosimd", "nolto", "lto", "unit">>),
  Command("fpu.o",   "C", "kernel",  <<"base", "nosimd", "simd", "fpu", "nolto", "lto", "unit">>),
  Command("entry.o", "C", "kernel",  <<"base", "nosimd", "nolto">>),
  Command("memcpy.o", "S", "kernel", <<>>),
  Command("head.o",  "C", "special", <<"nosimd">>),
  Command("modpost", "C", "host",    <<>>),
  Command("core.o", "rust", "kernel", <<"base", "nosimd">>)}

Instruction(artifact, section, symbol, base, suffix) ==
  [artifact |-> artifact, section |-> section, symbol |-> symbol, base |-> base,
   suffix |-> suffix, vector |-> TRUE]

GoodCode == {
  Instruction("raid6", ".text", "xor", "xor", ""),
  Instruction("vmlinux", ".altinstr_replacement", "nearest", "nearest", ""),
  Instruction("vmlinux", ".text", "fpu.llvm", "fpu", "thin"),
  Instruction("vmlinux", ".data", "table", "table", "")}

Entry(tree, to, path) == [tree |-> tree, of |-> "own", to |-> to, path |-> path]

Target(t) == IF t \in DOMAIN LinkTo THEN LinkTo[t] ELSE ""

GoodPackage(p) ==
  [version |-> "own", digest |-> "own", arch |-> IF p[1] = "common" THEN "all" ELSE "amd64",
   conflicts |-> FALSE, depends |-> ExpectedRelations(p), related |-> {},
   provides |-> ExpectedProvides(p), scripts |-> RequiredScripts(p[1]), bound |-> "own",
   onRemoval |-> p[1] = "binary",
   payload |-> {Entry(t, Target(t), <<t, p[2]>>) : t \in Trees(p[1])}, vmlinux |-> FALSE,
   doc |-> IF p[1] \in {"base", "common"} THEN {}
           ELSE {Named(IF p[1] = "kbuild" THEN "common" ELSE "base", p[2])},
   compilers |-> IF p[1] = "headers" THEN {MCMajor} ELSE {}]

GoodBuild(f) ==
  [commands |-> Good, code |-> GoodCode, fpuSymbols |-> {"fpu"},
   config  |-> [policy |-> "reviewed", salt |-> "own", major |-> MCMajor, lto |-> MCLto],
   shipped |-> [policy |-> "reviewed", salt |-> "own", major |-> MCMajor, lto |-> MCLto],
   keys |-> {}, tools |-> {MCMajor}, headerTools |-> {MCMajor},
   modules |-> {[name |-> "raid6", release |-> "own", links |-> 1]}, targets |-> {"raid6"},
   packages |-> [p \in Packages(f) |-> GoodPackage(p)],
   recorded |-> [version |-> "own", packages |-> Packages(f), majors |-> {MCMajor}],
   source |-> "reconstructed", selftest |-> TRUE, boot |-> TRUE]

With(b, c) == [b EXCEPT !.commands = @ \cup {c}]

\* The ways a build of v3 can be wrong.  Each is seen by one gate.
FlawedBuild == {
  "other_cpu", "simd_last", "rust_simd", "early_base", "no_lto", "vectors", "full_suffix",
  "unused", "config", "key", "old_module", "wrong_pair", "no_hook", "no_boot",
  "bad_selftest", "shared", "other_source", "collision", "stray_link"}

Flawed(b) ==
  \* a file whose Makefile puts an older CPU last
  CASE b = "other_cpu" -> With(GoodBuild(v3), Command("crypto.o", "C", "kernel",
                     <<"base", "cpu", "nosimd", "nolto", "lto", "unit">>))
  \* a file that turns SIMD on again and is not reviewed
    [] b = "simd_last" -> With(GoodBuild(v3), Command("crypto.o", "C", "kernel",
                     <<"base", "nosimd", "simd", "nolto", "lto", "unit">>))
    [] b = "rust_simd" -> With(GoodBuild(v3), Command("drm.o", "rust", "kernel",
                     <<"base", "nosimd", "simd">>))
  \* the boot code of a kernel for newer CPUs runs on an older one
    [] b = "early_base" -> With(GoodBuild(v3),
                     Command("efi.o", "C", "special", <<"base", "nosimd">>))
    [] b = "no_lto" -> With(GoodBuild(v3), Command("crypto.o", "C", "kernel",
                     <<"base", "nosimd", "nolto">>))
  \* the compiler made vector code of a function nobody reviewed
    [] b = "vectors" -> [GoodBuild(v3) EXCEPT !.code =
                      @ \cup {Instruction("ext4", ".text", "sum", "sum", "")}]
    [] b = "full_suffix" -> [GoodBuild(v3) EXCEPT !.code =
                      @ \cup {Instruction("raid6", ".text", "mul.1", "mul", "full")}]
    [] b = "unused" -> [GoodBuild(v3) EXCEPT !.code = {i \in @ : i.artifact = "vmlinux"}]
    [] b = "config" -> [GoodBuild(v3) EXCEPT !.shipped.lto = "none"]
    [] b = "key" -> [GoodBuild(v3) EXCEPT !.keys = {"signing_key.pem"}]
    [] b = "old_module" -> [GoodBuild(v3) EXCEPT !.modules =
                      @ \cup {[name |-> "old", release |-> "other", links |-> 1]},
                      !.targets = @ \cup {"old"}]
  \* the image of v3 depends on the modules of v2
    [] b = "wrong_pair" -> [GoodBuild(v3) EXCEPT !.packages[<<"image", v3>>].depends =
                      {[d EXCEPT !.to = IF @ = <<"modules", v3>> THEN <<"modules", v2>> ELSE @] :
                         d \in @}]
    [] b = "no_hook" -> [GoodBuild(v3) EXCEPT !.packages[<<"binary", v3>>].onRemoval = FALSE]
    [] b = "no_boot" -> [GoodBuild(v3) EXCEPT !.boot = FALSE]
    [] b = "bad_selftest" -> [GoodBuild(v3) EXCEPT !.selftest = FALSE]
  \* What only the audit of both flavors sees: the shared Kbuild package differs,
    [] b = "shared" -> [GoodBuild(v3) EXCEPT !.packages[<<"kbuild", "all">>].payload =
                      @ \cup {Entry("kbuild", "", <<"extra", "all">>)}]
  \* the source package differs,
    [] b = "other_source" -> [GoodBuild(v3) EXCEPT !.source = "patched"]
  \* a path is in a package of v2 too,
    [] b = "collision" -> [GoodBuild(v3) EXCEPT !.packages[<<"binary", v3>>].payload =
                      @ \cup {Entry("vmlinuz", "", <<"vmlinuz", v2>>)}]
  \* the source link leads to the tree of another package,
    [] b = "stray_link" -> [GoodBuild(v3) EXCEPT !.packages[<<"base", v3>>].payload =
                      @ \cup {[tree |-> "config", of |-> "other", to |-> "headers",
                               path |-> <<"link", v3>>]}]

MCBuild == {"good_v2", "good_v3"} \cup FlawedBuild

MCWhat == [b \in MCBuild |-> CASE b = "good_v2" -> GoodBuild(v2)
                               [] b = "good_v3" -> GoodBuild(v3)
                               [] OTHER         -> Flawed(b)]

\* The first commit may yield every build; the last one only what its gates let through
\* if it may be released.
MCYields == [c \in 1..MaxCommit |->
  [f \in MCFlavor |->
     IF f = v2 THEN {"good_v2"}
     ELSE IF c < MaxCommit THEN MCBuild \ {"good_v2"}
     ELSE MCBuild \ {"good_v2", "shared", "other_source", "collision", "stray_link"}]]
=============================================================================
