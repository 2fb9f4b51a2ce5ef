----------------------------- MODULE BuildNames -----------------------------
(***************************************************************************)
(* The names src/build.rs makes: which symbols of the TPM archives get the *)
(* crate's prefix (symbols::renames), so that a binary can link another    *)
(* copy of the library.                                                    *)
(*                                                                         *)
(* nm and the linker are external: nm --extern-only names the symbols an   *)
(* archive defines and those it leaves undefined, and the linker matches   *)
(* names.                                                                  *)
(***************************************************************************)
EXTENDS Integers, Sequences, SequencesExt

CONSTANTS
  PlatformNames,   \* the callbacks Rust exports; they start with "_plat"
  SymCryptNames,   \* symbols that start with "SymCrypt"
  LinkerNames,     \* symbols that are no C identifier
  ArchiveSets,     \* what the TPM archives define and leave undefined
  NoInput

ASSUME NamesAssumption ==
  /\ PlatformNames \cap (SymCryptNames \cup LinkerNames) = {}
  /\ NoInput \notin ArchiveSets

VARIABLE archives   \* the archives namespace_libraries is called with

NamInit == archives = NoInput

NamNext ==
  \/ archives = NoInput /\ archives' \in ArchiveSets
  \/ archives' = NoInput

NamSpec == NamInit /\ [][NamNext]_archives

-----------------------------------------------------------------------------
(* Symbols                                                                 *)

Defined(as) == UNION {as[i].defs : i \in DOMAIN as}
Undefined(as) == UNION {as[i].undefs : i \in DOMAIN as}

\* is_c_identifier, and not of the ABI of SymCrypt
Kept(s) == s \notin SymCryptNames \cup LinkerNames

\* renames: the symbols that get the prefix.
Renames(as) ==
  {s \in Defined(as) \cup (Undefined(as) \cap PlatformNames) : Kept(s)}

\* A list for each archive, of its own symbols.
OwnList(as, i) == Renames(<<as[i]>>)

\* namespace_libraries: every archive is renamed by the list made of them all.
ListFor(as, i) == Renames(as)

\* The name of a symbol in archive i after objcopy --redefine-syms
NameIn(as, i, s) ==
  <<IF s \in ListFor(as, i) THEN "ms_tcg_tpm_185_" ELSE "", s>>
RustName(s) == <<"ms_tcg_tpm_185_", s>>
PlainName(s) == <<"", s>>

-----------------------------------------------------------------------------
(* Properties                                                              *)

\* After the renaming each reference still finds what it found before: another
\* archive's definition, the callback Rust exports with the prefix, or a
\* library that knows nothing of the prefix; and a binary that links these
\* archives with a plain copy of the library has no symbol twice, but those
\* that SymCrypt and the linker know by name.  (build.rs:415-478)
ReferencesResolve ==
  archives # NoInput =>
    \A i \in DOMAIN archives :
      /\ \A s \in archives[i].undefs :
           IF s \in Defined(archives)
           THEN \E j \in DOMAIN archives :
                  /\ s \in archives[j].defs
                  /\ NameIn(archives, j, s) = NameIn(archives, i, s)
           ELSE NameIn(archives, i, s) =
                  IF s \in PlatformNames THEN RustName(s) ELSE PlainName(s)
      /\ \A s \in archives[i].defs :
           (NameIn(archives, i, s) = PlainName(s))
             <=> s \in SymCryptNames \cup LinkerNames
=============================================================================
