----------------------------- MODULE BuildScript -----------------------------
(***************************************************************************)
(* Builds of the C library (src/build.rs), one after the other in the same *)
(* OUT_DIR: CMake's archives collect in OUT_DIR/lib and stay there when    *)
(* the TPM checkout changes, their layout tells which of them to link, and *)
(* each is copied to OUT_DIR with its symbols renamed by one list made of  *)
(* them all.  A build may fail or be interrupted at every step.            *)
(*                                                                         *)
(* Cargo gives every set of features an OUT_DIR of its own.  An archive is *)
(* known by the layout whose build made it; of the archives that all       *)
(* layouts have, that mark one, and that only one has, there is one each.  *)
(* CMake, nm and objcopy are external; CMake's build of the older checkout *)
(* against SymCrypt, which that one does not know, fails.                  *)
(***************************************************************************)
EXTENDS Integers, Sequences, SequencesExt

CONSTANTS
  MaxBuilds,   \* bound: how many builds are made
  NoArchive

Checkouts == {"v184", "azure"}
Layouts == Checkouts \cup {"symcrypt"}

ASSUME BuildAssumption == MaxBuilds \in Nat /\ NoArchive \notin Layouts

\* TPM_184_ARCHIVES, AZURE_TPM_ARCHIVES and TPM_ARCHIVES, in link order
ArchivesOf(layout) ==
  CASE layout = "v184" -> <<"Tpm_CoreLib", "TpmBigNum", "Math_Ossl">>
    [] layout = "azure" -> <<"Tpm_CoreLib", "Math_TpmBigNum", "BnMath_Ossl">>
    [] layout = "symcrypt" -> <<"Tpm_CoreLib", "SymCrypt_Common">>

Archives == UNION {ToSet(ArchivesOf(y)) : y \in Layouts}

VARIABLES
  features,    \* the Cargo features of these builds, and the OpenSSL found
  checkout,    \* the TPM checkout
  lib,         \* OUT_DIR/lib: the layout whose build made each archive
  prebuilt,    \* the directory TCG_TPM_LIB_DIR names: at most one
  bstage,      \* where the build script is
  builds,      \* how many builds were started
  libraries,   \* the archives to namespace, in order
  copied,      \* how many of them are
  copies,      \* OUT_DIR: what each copy was made of, and by which build
  linked       \* the archives Cargo was told to link, or <<>>

bldvars == <<features, checkout, lib, prebuilt, bstage, builds, libraries,
             copied, copies, linked>>
setting == <<features, checkout, prebuilt>>

\* A prebuilt directory has the archives of one layout, or of both checkouts.
PrebuiltDirs ==
  {[a \in Archives |->
      IF a \in ToSet(ArchivesOf(y)) THEN y ELSE NoArchive] : y \in Layouts}
  \cup
  {[a \in Archives |->
      IF a \in ToSet(ArchivesOf("v184")) THEN "v184"
      ELSE IF a \in ToSet(ArchivesOf("azure")) THEN "azure" ELSE NoArchive]}

BldInit ==
  /\ features \in [openssl : BOOLEAN, symcrypt : BOOLEAN, vendored : BOOLEAN,
                  openssl35 : BOOLEAN]
  /\ checkout \in Checkouts
  /\ lib = [a \in Archives |-> NoArchive]
  /\ prebuilt = {}
  /\ bstage = "idle"
  /\ builds = 0
  /\ libraries = <<>>
  /\ copied = 0
  /\ copies = [a \in Archives |-> [of |-> NoArchive, build |-> 0]]
  /\ linked = <<>>

-----------------------------------------------------------------------------
(* What happens between builds                                             *)

SwitchCheckout ==
  /\ bstage = "idle"
  /\ checkout' \in Checkouts \ {checkout}
  /\ UNCHANGED <<features, lib, prebuilt, bstage, builds, libraries, copied,
                 copies, linked>>

SetLibDir ==
  /\ bstage = "idle"
  /\ prebuilt' \in {{}} \cup {{d} : d \in PrebuiltDirs}
  /\ UNCHANGED <<features, checkout, lib, bstage, builds, libraries, copied,
                 copies, linked>>

-----------------------------------------------------------------------------
(* main                                                                    *)

\* Backend::from_env; {} is an error.
Backend ==
  IF features.openssl /\ ~features.symcrypt THEN {"OpenSsl"}
  ELSE IF features.symcrypt /\ ~features.openssl /\ ~features.vendored
       THEN {"SymCrypt"}
  ELSE {}

\* The layout CMake builds; {} where configuring fails (openssl::configure,
\* validate_version).
BuiltLayout ==
  IF Backend = {"OpenSsl"} /\ features.openssl35 THEN {checkout}
  ELSE IF Backend = {"SymCrypt"} /\ checkout = "azure" THEN {"symcrypt"}
  ELSE {}

LibDir == IF prebuilt = {} THEN lib ELSE CHOOSE d \in prebuilt : TRUE
IsFile(dir, a) == dir[a] # NoArchive

\* openssl::tpm_archives; {} is an error.
OpenSslArchives(dir) ==
  IF IsFile(dir, "TpmBigNum") /\ ~IsFile(dir, "Math_TpmBigNum")
  THEN {ArchivesOf("v184")}
  ELSE IF ~IsFile(dir, "TpmBigNum") /\ IsFile(dir, "Math_TpmBigNum")
  THEN {ArchivesOf("azure")}
  ELSE {}

\* Backend::tpm_archives
TpmArchives(dir) ==
  UNION {IF b = "OpenSsl" THEN OpenSslArchives(dir)
         ELSE {ArchivesOf("symcrypt")} : b \in Backend}

StartBuild ==
  /\ bstage = "idle" /\ builds < MaxBuilds
  /\ builds' = builds + 1
  /\ linked' = <<>>
  /\ bstage' = IF Backend = {} THEN "idle"
               ELSE IF prebuilt = {} THEN "compile" ELSE "collect"
  /\ UNCHANGED <<setting, lib, libraries, copied, copies>>

\* tpm::compile: CMake makes one archive after the other, in any order; those
\* of this checkout that are there already are up to date.
CompileArchive ==
  /\ bstage = "compile"
  /\ \E y \in BuiltLayout : \E a \in ToSet(ArchivesOf(y)) :
       /\ lib[a] # y
       /\ lib' = [lib EXCEPT ![a] = y]
  /\ UNCHANGED <<setting, bstage, builds, libraries, copied, copies, linked>>

Compiled ==
  /\ bstage = "compile"
  /\ \E y \in BuiltLayout : \A a \in ToSet(ArchivesOf(y)) : lib[a] = y
  /\ bstage' = "collect"
  /\ UNCHANGED <<setting, lib, builds, libraries, copied, copies, linked>>

\* tpm_archives, source_archives, and renames: nm reads every archive.
Collect ==
  /\ bstage = "collect"
  /\ \E list \in TpmArchives(LibDir) :
       /\ \A a \in ToSet(list) : IsFile(LibDir, a)
       /\ libraries' = list
  /\ copied' = 0
  /\ bstage' = "copy"
  /\ UNCHANGED <<setting, lib, builds, copies, linked>>

\* An objcopy that is skipped where its copy is there.
NamespaceMissing(a) ==
  copies' = IF copies[a].of # NoArchive THEN copies
            ELSE [copies EXCEPT ![a] = [of |-> LibDir[a], build |-> builds]]

\* objcopy with the list of this build
Namespace(a) ==
  copies' = [copies EXCEPT ![a] = [of |-> LibDir[a], build |-> builds]]

NamespaceLibrary ==
  /\ bstage = "copy" /\ copied < Len(libraries)
  /\ Namespace(libraries[copied + 1])
  /\ copied' = copied + 1
  /\ UNCHANGED <<setting, lib, bstage, builds, libraries, linked>>

\* main returns Ok, and Cargo links what it was told to.
BuildSucceeds ==
  /\ bstage = "copy" /\ copied = Len(libraries)
  /\ linked' = libraries
  /\ bstage' = "idle"
  /\ UNCHANGED <<setting, lib, builds, libraries, copied, copies>>

\* An error, a panic or a signal, at any step
BuildFails ==
  /\ bstage # "idle"
  /\ bstage' = "idle"
  /\ UNCHANGED <<setting, lib, builds, libraries, copied, copies, linked>>

BldNext ==
  \/ SwitchCheckout \/ SetLibDir
  \/ StartBuild \/ CompileArchive \/ Compiled \/ Collect \/ NamespaceLibrary
  \/ BuildSucceeds \/ BuildFails

BldSpec == BldInit /\ [][BldNext]_bldvars

-----------------------------------------------------------------------------
(* Properties                                                              *)

\* Whatever earlier builds left in OUT_DIR and wherever they stopped, a build
\* that succeeds links the archives of one layout, whole, made together, never
\* one of another checkout that was lying there, and all renamed by one list: a
\* symbol that one defines and another uses has one name.  (build.rs:9-41,
\* 260-276, 415-450)
LinksOneLayout ==
  linked # <<>> =>
    /\ \E y \in Layouts :
         /\ linked = ArchivesOf(y)
         /\ \A i \in 1 .. Len(linked) : copies[linked[i]].of = y
    /\ \A i, j \in 1 .. Len(linked) :
         copies[linked[i]].build = copies[linked[j]].build
=============================================================================
