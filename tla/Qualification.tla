--------------------------- MODULE Qualification ---------------------------
(***************************************************************************)
(* What one flavor's build is, as far as the gates between the compiler    *)
(* and the repository look at it: the audit of the Kbuild commands, the    *)
(* SIMD audit of the final code, the attestation of the packages, the      *)
(* audit of the packages a guest boots, and the audit of both flavors      *)
(* together.  Everything here is a predicate; Release says when each one   *)
(* is asked.                                                               *)
(*                                                                         *)
(* A package is <<role, owner>>: the owner is a flavor, or "all" for the   *)
(* two packages both flavors share.  A version, a kernel release or a      *)
(* digest is "own" when it is the one of the build's publication identity. *)
(* A path is known by the tree it lies in.                                 *)
(***************************************************************************)
EXTENDS Naturals, FiniteSets, Sequences

CONSTANTS
  Flavor,        \* v2, v3
  Build,         \* what a build job can come to
  Lto,           \* the LTO mode: none, thin or full
  FpuObject,     \* objects that are reviewed to use the FPU
  LtoExcluded,   \* objects that are reviewed to be compiled without LTO
  Reviewed,      \* SIMD allowlist: <<artifact, kind, selector>>
  Major          \* the LLVM major version

ASSUME QualificationAssumption == Lto \in {"none", "thin", "full"}

-----------------------------------------------------------------------------
(* The commands that Kbuild ran.  Tokens: "base", the flavor's baseline    *)
(* CPU; "cpu", that of another flavor; "nosimd", "simd", "fpu" (the        *)
(* kernel's marker), "nolto", "lto" and "unit" (-fsplit-lto-unit).         *)

\* What a compile command is: rustc builds for the kernel's own target or for the host.
IsCommand(c) ==
  /\ c.lang \in {"C", "S", "rust"} /\ c.place \in {"kernel", "special", "host"}
  /\ c.lang = "rust" => c.place # "special"
  /\ c.flags \in Seq(STRING)

At(c, t) == {i \in DOMAIN c.flags : c.flags[i] = t}

Has(c, t) == At(c, t) # {}

\* Slip: that a flag is there is taken for that it counts.
FinalAfterAny(c, t, u) == Has(c, t)

\* The last t comes after every u.
FinalAfter(c, t, u) == \E i \in At(c, t) : \A j \in At(c, u) : j < i

\* One -march, the expected one, and no SIMD after it.
Baseline(c) == Cardinality(At(c, "base")) = 1 /\ ~Has(c, "cpu")

RustUnit(c) ==
  Baseline(c) /\ FinalAfter(c, "nosimd", "base")
    /\ (Has(c, "simd") => FinalAfter(c, "nosimd", "simd"))

ExcludedUnit(c) == Lto # "none" /\ c.target \in LtoExcluded

LtoUnit(c) ==
  IF Lto = "none" \/ ExcludedUnit(c)
  THEN ~Has(c, "lto") /\ (ExcludedUnit(c) => Cardinality(At(c, "nolto")) = 1)
  ELSE /\ Cardinality(At(c, "lto")) = 1
       /\ Cardinality(At(c, "nolto")) = 1 /\ FinalAfter(c, "lto", "nolto")
       /\ Has(c, "unit") <=> Lto = "thin"

UsesFpu(c) == Has(c, "simd") \/ Has(c, "fpu")

NormalUnit(c) ==
  /\ Baseline(c) /\ LtoUnit(c)
  /\ FinalAfter(c, "nosimd", "base")
  /\ UsesFpu(c) => Has(c, "simd") /\ Has(c, "fpu") /\ c.target \in FpuObject

NoBaseline(c) == ~Has(c, "base") /\ ~Has(c, "cpu")

\* Boot, real mode and EFI stub code keeps its own baseline.
SpecialUnit(c) == NoBaseline(c) /\ Has(c, "nosimd") /\ ~Has(c, "simd")

CommandIsRight(c) ==
  /\ c.place = "host"                        => NoBaseline(c)
  /\ c.place = "special" /\ c.lang = "S"     => NoBaseline(c)
  /\ c.place = "special" /\ c.lang = "C"     => SpecialUnit(c)
  /\ c.place = "kernel" /\ c.lang = "rust"   => RustUnit(c)
  /\ c.place = "kernel" /\ c.lang = "C"      => NormalUnit(c)

NormalC(b) == {c \in b.commands : c.lang = "C" /\ c.place = "kernel"}

\* audit: every command is right, and every reviewed exception is used.
KbuildAudit(b) ==
  /\ \A c \in b.commands : CommandIsRight(c)
  /\ FpuObject \subseteq {c.target : c \in {d \in NormalC(b) : UsesFpu(d)}}
  /\ Lto # "none" => LtoExcluded \subseteq {c.target : c \in NormalC(b)}
  /\ NormalC(b) # {}

-----------------------------------------------------------------------------
(* The SIMD audit.  An instruction has an artifact (vmlinux or a module),  *)
(* a section and a symbol; an LTO build may append a suffix to a symbol.   *)

DerivedKeys(b) == {<<"vmlinux", "symbol", s>> : s \in b.fpuSymbols}

\* The linker marks vmlinux's .data executable; what is decoded there is no code.
Code(b) == {i \in b.code : ~(i.artifact = "vmlinux" /\ i.section = ".data")}

ScanKey(i) ==
  IF i.artifact = "vmlinux" /\ i.section \in {".altinstr_aux", ".altinstr_replacement"}
  THEN <<i.artifact, "section", i.section>>
  ELSE <<i.artifact, "symbol", i.symbol>>

\* ThinLTO's suffix names a reviewed symbol; full LTO's only a derived one.
ReviewedKeys(b, i) ==
  LET k == ScanKey(i)
      base == <<k[1], k[2], i.base>>
  IN  IF k \in Reviewed \cup DerivedKeys(b) THEN {k}
      ELSE IF k[2] # "symbol" THEN {}
      ELSE IF i.suffix = "thin" THEN {base} \cap (Reviewed \cup DerivedKeys(b))
      ELSE IF i.suffix = "full" THEN {base} \cap DerivedKeys(b)
      ELSE {}

Observed(b) == {i \in Code(b) : i.vector}

SimdAudit(b) ==
  /\ Reviewed \cap DerivedKeys(b) = {} /\ b.fpuSymbols # {}
  /\ \A i \in Observed(b) : ReviewedKeys(b, i) # {}
  /\ Reviewed \subseteq UNION {ReviewedKeys(b, i) : i \in Observed(b)}

-----------------------------------------------------------------------------
(* Packages.                                                               *)

Dependency(role) ==
  CASE role \in {"binary", "modules", "base-meta"} -> {"base"}
    [] role = "image"        -> {"base", "binary", "modules"}
    [] role = "headers"      -> {"base", "common", "kbuild"}
    [] role = "image-meta"   -> {"base-meta", "image"}
    [] role = "headers-meta" -> {"base-meta", "headers"}
    [] OTHER                 -> {}

SharedRole == {"common", "kbuild"}

Role == {"base", "binary", "modules", "image", "headers",
         "base-meta", "image-meta", "headers-meta"} \cup SharedRole

Named(role, f) == <<role, IF role \in SharedRole THEN "all" ELSE f>>

Packages(f) == {Named(role, f) : role \in Role}

\* The relations between product packages: exact, but for Kbuild, whose name holds
\* the build identity.
ExpectedRelations(p) ==
  {[to |-> Named(d, p[2]), exact |-> d # "kbuild"] : d \in Dependency(p[1])}

ExpectedProvides(p) == IF p[1] = "image-meta" THEN {"latest-modules"} ELSE {}

RelationsAreExact(b, p) ==
  /\ b.packages[p].depends = ExpectedRelations(p)
  /\ b.packages[p].related = {}
  /\ b.packages[p].provides = ExpectedProvides(p)

RequiredScripts(role) ==
  CASE role = "binary"  -> {"postrm"}
    [] role = "modules" -> {"postinst", "prerm"}
    [] role = "headers" -> {"postinst"}
    [] role \in {"image", "image-meta", "headers-meta"} ->
         {"preinst", "postinst", "prerm", "postrm"}
    [] OTHER -> {}

\* The removal hooks run once, from the package that owns the image file.
ScriptsAreRight(b, p) ==
  /\ b.packages[p].scripts = RequiredScripts(p[1])
  /\ b.packages[p].scripts # {} => b.packages[p].bound = "own"
  /\ b.packages[p].onRemoval = (p[1] = "binary")

\* The trees a package may fill.  Every one but the module index must be there.
Trees(role) ==
  CASE role = "base"    -> {"config", "system-map", "index"}
    [] role = "binary"  -> {"vmlinuz"}
    [] role = "modules" -> {"kernel"}
    [] role = "headers" -> {"headers", "build", "source"}
    [] role = "common"  -> {"common", "common-scripts"}
    [] role = "kbuild"  -> {"kbuild", "src-kbuild"}
    [] OTHER            -> {}

LinkTo == [t \in {"build", "source", "common-scripts", "src-kbuild"} |->
             CASE t = "build" -> "headers" [] t = "source" -> "common" [] OTHER -> "kbuild"]

Entries(b, p) == b.packages[p].payload

RequiredPayload(b, p) ==
  \A t \in Trees(p[1]) \ {"index"} :
    \E e \in Entries(b, p) :
      e.tree = t /\ e.of = "own" /\ (t \in DOMAIN LinkTo => e.to = LinkTo[t])

AllowedPayload(b, p) == \A e \in Entries(b, p) : e.tree \in Trees(p[1]) /\ e.of = "own"

\* Only headers with BTF ship vmlinux, and only without LTO is there BTF.
BtfIsRight(b) ==
  \A p \in DOMAIN b.packages : b.packages[p].vmlinux = (p[1] = "headers" /\ Lto = "none")

PayloadLayout(b, P) ==
  /\ \A p \in P : RequiredPayload(b, p) /\ AllowedPayload(b, p)
  /\ BtfIsRight(b)

\* A package's documentation holds a copyright file, or is a link to that of another
\* package.  Every chain of links ends at a file.
Copyrighted(b) ==
  LET P == DOMAIN b.packages
      linked[n \in 0..Cardinality(P)] ==
        IF n = 0 THEN P ELSE UNION {b.packages[p].doc : p \in linked[n - 1]}
  IN  /\ \A p \in P : b.packages[p].doc \subseteq P
      /\ linked[Cardinality(P)] = {}

Collides(b, p, q) ==
  \E d \in Entries(b, p), e \in Entries(b, q) : p # q /\ d.path = e.path

NoCollisions(b) == \A p, q \in DOMAIN b.packages : ~Collides(b, p, q)

\* One package: identity, architecture, and the digest the attestation recorded.
PackageIsOwn(b, p) ==
  /\ b.packages[p].version = "own" /\ b.packages[p].digest = "own"
  /\ b.packages[p].arch = IF p[1] = "common" THEN "all" ELSE "amd64"
  /\ ~b.packages[p].conflicts

-----------------------------------------------------------------------------
(* The attestation of one flavor.                                          *)

\* The final configuration is the reviewed one, and is what the package ships.
ConfigIsReviewed(b) ==
  b.config = [policy |-> "reviewed", salt |-> "own", major |-> Major, lto |-> Lto]
    /\ b.shipped = b.config

\* The captured build tree is complete and holds no signing key.
NoSigningKey(b) == b.keys = {} /\ b.targets # {}

\* Every tool that a command names is LLVM's, of one major version.
OneToolchain(b) == b.tools = {Major}

\* Every shipped module is of this release, and no two have one name.
ModulesAreOwn(b) ==
  /\ b.modules # {}
  /\ \A m \in b.modules : m.release = "own"
  /\ \A m, n \in b.modules : m.name = n.name => m = n

\* It was built in this tree and linked, once, by lld.
ModulesAreLinked(b) == \A m \in b.modules : m.name \in b.targets /\ m.links = 1

\* Only the headers ask for a compiler: the one the kernel was built with.
CompilerDependencies(b) ==
  \A p \in DOMAIN b.packages :
    b.packages[p].compilers = IF p[1] = "headers" THEN {Major} ELSE {}

\* validate_kernelvariables: it is also the one their Makefile names.
HeaderTools(b) == b.headerTools = {Major}

\* The headers let a module be built.
HeadersWork(b, f) ==
  /\ \A role \in {"headers", "common", "kbuild"} : RequiredPayload(b, Named(role, f))
  /\ HeaderTools(b)

\* .buildinfo and .changes name the packages, the version and one LLVM.
BuildRecorded(b, f) ==
  b.recorded = [version |-> "own", packages |-> Packages(f), majors |-> {Major}]

Attest(b, f) ==
  /\ ConfigIsReviewed(b) /\ NoSigningKey(b)
  /\ DOMAIN b.packages = Packages(f)
  /\ \A p \in Packages(f) : b.packages[p].version = "own"
  /\ HeadersWork(b, f) /\ CompilerDependencies(b)
  /\ ModulesAreOwn(b) /\ BtfIsRight(b)
  /\ OneToolchain(b) /\ ModulesAreLinked(b)
  /\ BuildRecorded(b, f)

\* audit_one_flavor: the packages a guest installs with dpkg.
VmInputAudit(b, f) ==
  /\ DOMAIN b.packages = Packages(f)
  /\ \A p \in Packages(f) : PackageIsOwn(b, p) /\ ScriptsAreRight(b, p) /\ RelationsAreExact(b, p)
  /\ NoCollisions(b)

\* The selftests were built for this kernel; the guest booted it and ran them.
Tested(b) == b.selftest /\ b.boot

\* A build is accepted when every gate has passed.
Gates(b, f) ==
  Attest(b, f) /\ KbuildAudit(b) /\ SimdAudit(b) /\ VmInputAudit(b, f) /\ Tested(b)

-----------------------------------------------------------------------------
(* Both flavors.                                                           *)

\* compare_source_reports: the same source package, but for the upload metadata.
SameSource(a, b) == a.source = b.source

\* The source package was unpacked and packed again, and is the one of the bundle.
SourceAccepted(b) == b.source = "reconstructed"

\* A shared package is byte for byte the same in both flavors.
SameShared(a, b) ==
  \A role \in SharedRole : a.packages[<<role, "all">>] = b.packages[<<role, "all">>]

\* The packages of the distribution: v2's, and v3's but for the shared copies.
Union(a, b) ==
  [packages |-> [p \in DOMAIN a.packages \cup DOMAIN b.packages |->
                   IF p \in DOMAIN a.packages THEN a.packages[p] ELSE b.packages[p]]]

MatrixAudit(a, f, b, g) ==
  /\ SourceAccepted(a) /\ SourceAccepted(b) /\ SameSource(a, b) /\ SameShared(a, b)
  /\ LET both == Union(a, b)
         P    == Packages(f) \cup Packages(g)
     IN  /\ DOMAIN both.packages = P
         /\ \A p \in P :
              PackageIsOwn(both, p) /\ ScriptsAreRight(both, p) /\ RelationsAreExact(both, p)
         /\ NoCollisions(both) /\ PayloadLayout(both, P) /\ Copyrighted(both)
=============================================================================
