----------------------------- MODULE PartsProofs -----------------------------
(***************************************************************************)
(* Proofs about the small components.  Command: for every length of a      *)
(* request and every size its header may announce, also lengths above      *)
(* 4 GiB.  BuildScript: for any number of builds, in any order of checkouts *)
(* and prebuilt directories, interrupted anywhere.  Pcr: for every number, *)
(* algorithm, locality and buffer the library passes.  BuildNames: for any *)
(* names the three archives define, as long as nobody else defines one of  *)
(* the platform's.                                                         *)
(***************************************************************************)
EXTENDS Command, Pcr, BuildScript, BuildNames, TLAPS

-----------------------------------------------------------------------------
(* Command                                                                 *)

LocalityValues == 0 .. 4 \cup 32 .. 255

\* On the way in: the library is handed the bytes the header announces, and
\* sees the locality that was assigned.
WayIn ==
  /\ locality = assigned /\ assigned \in LocalityValues
  /\ seenlocality \in LocalityValues
  /\ cmdstage \in {"library", "back"} =>
       /\ request.len \in Nat /\ request.header \in Nat
       /\ handed = request.header /\ handed <= request.len
  /\ cmdstage = "back" => seenlocality = assigned

\* On the way out: an answer in the slice fits, and a size that was returned is
\* that of an answer in the slice.
WayOut ==
  /\ cmdstage \in {"idle", "library", "back", "panicked"}
  /\ cmdresult \in Nat \cup {-1}
  /\ roomfor \in Nat /\ answer.size \in Nat
  /\ cmdstage = "back" /\ answer.at = "response" =>
       /\ response = [of |-> "library", size |-> answer.size]
       /\ answer.size <= roomfor
  /\ cmdstage = "idle" /\ cmdresult >= 0 =>
       /\ response = [of |-> "library", size |-> cmdresult]
       /\ cmdresult <= roomfor

CmdInv == WayIn /\ WayOut

\* A header that fits its request in 32 bits fits it in full.
LEMMA HeaderIsWithin ==
  ASSUME NEW n \in Nat, NEW h \in Nat, h <= n % CmdU32Mod
  PROVE  h <= n /\ Min({n, h}) = h
<1>1. n % CmdU32Mod <= n /\ n % CmdU32Mod \in Nat
  BY CommandAssumption
<1>2. h <= n
  BY <1>1
<1>3. Min({n, h}) = h
  BY <1>2 DEF Min
<1> QED  BY <1>2, <1>3

LEMMA CmdInvInit == CmdInit => CmdInv
BY DEF CmdInit, CmdInv, WayIn, WayOut, LocalityValues, NoAnswer

LEMMA CmdInvNext ==
  ASSUME CmdInv, [CmdNext]_cmdvars
  PROVE  CmdInv'
<1>1. CASE SetLocalityByte
  <2>1. PICK b \in LocalityBytes : \E l \in LocalityOf(b) :
          locality' = LocalityByte(l) /\ assigned' = b
    BY <1>1 DEF SetLocalityByte
  <2>2. b \in 0 .. 255
    BY CommandAssumption
  <2>3. locality' = b /\ assigned' = b /\ b \in LocalityValues
    BY <2>1, <2>2 DEF LocalityOf, LocalityByte, LocalityValues
  <2> QED  BY <1>1, <2>3 DEF SetLocalityByte, CmdInv, WayIn, WayOut
<1>2. CASE Refuse
  <2>1. roomfor' \in Nat
    BY <1>2, CommandAssumption DEF Refuse
  <2> QED  BY <1>2, <2>1 DEF Refuse, CmdInv, WayIn, WayOut
<1>3. CASE Enter
  <2>1. PICK n \in RequestLens, h \in HeaderSizes, m \in ResponseLens :
          /\ HeaderFits([len |-> n, header |-> h])
          /\ request' = [len |-> n, header |-> h]
          /\ handed' = Min({n, h})
          /\ roomfor' = m
    BY <1>3 DEF Enter
  <2>2. n \in Nat /\ h \in Nat /\ m \in Nat
    BY CommandAssumption
  <2>3. handed' = h /\ h <= n
    BY <2>1, <2>2, HeaderIsWithin DEF HeaderFits
  <2> QED  BY <1>3, <2>1, <2>2, <2>3 DEF Enter, CmdInv, WayIn, WayOut
<1>4. CASE LibraryAnswers
  <2>1. PICK at \in {"response", "static", "request", "null"},
             n \in AnswerSizes :
          /\ at = "response" => n <= roomfor
          /\ answer' = [at |-> at, size |-> n]
          /\ response' = IF at = "response" THEN [of |-> "library", size |-> n]
                         ELSE response
    BY <1>4 DEF LibraryAnswers
  <2>2. n \in Nat
    BY CommandAssumption
  <2> QED  BY <1>4, <2>1, <2>2 DEF LibraryAnswers, CmdInv, WayIn, WayOut
<1>5. CASE ExecuteReturns
  BY <1>5 DEF ExecuteReturns, TakeAnswer, CmdInv, WayIn, WayOut
<1>6. CASE PanicCaught
  BY <1>6 DEF PanicCaught, CmdInv, WayIn, WayOut
<1>7. CASE UNCHANGED cmdvars
  BY <1>7 DEF cmdvars, CmdInv, WayIn, WayOut
<1> QED  BY <1>1, <1>2, <1>3, <1>4, <1>5, <1>6, <1>7 DEF CmdNext

\* Where a command is, and what the library was handed and the caller given
\* by then (execute_command).
THEOREM CommandInvariant == CmdSpec => []CmdInv
<1>1. CmdInv /\ [CmdNext]_cmdvars => CmdInv'
  BY CmdInvNext
<1> QED  BY <1>1, CmdInvInit, PTL DEF CmdSpec

\* The library is handed the bytes the header announces, no more than the
\* caller gave, and the locality the host assigned (execute_command_unchecked
\* and locality.rs).
THEOREM Handed == CmdSpec => []HandedWhatHostGave
<1>1. CmdInv => HandedWhatHostGave
  BY DEF CmdInv, WayIn, LocalityValues, HandedWhatHostGave
<1> QED  BY <1>1, CommandInvariant, PTL

\* A size that is returned is that of an answer in the caller's slice
\* (execute_command_unchecked).
THEOREM Answered == CmdSpec => []AnswerIsInSlice
<1>1. CmdInv => AnswerIsInSlice
  BY DEF CmdInv, WayOut, AnswerIsInSlice
<1> QED  BY <1>1, CommandInvariant, PTL

-----------------------------------------------------------------------------
(* BuildScript                                                             *)

\* A directory that has the archives of one layout, all made by its build.
Whole(dir, y) == \A a \in ToSet(ArchivesOf(y)) : dir[a] = y

\* What the copies of a list of archives were made of, and when.
Copied(list, n, y, b) ==
  \A i \in 1 .. n : copies[list[i]].of = y /\ copies[list[i]].build = b

\* What a build has established when it reaches a stage.
BldStages ==
  /\ bstage \in {"idle", "compile", "collect", "copy"}
  /\ prebuilt = {} \/ \E d \in PrebuiltDirs : prebuilt = {d}
  /\ bstage = "collect" /\ prebuilt = {} =>
       \E y \in BuiltLayout : Whole(lib, y)
  /\ bstage = "copy" =>
       \E y \in Layouts :
         /\ libraries = ArchivesOf(y) /\ Whole(LibDir, y)
         /\ copied \in 0 .. Len(libraries)
         /\ Copied(libraries, copied, y, builds)

\* What was linked is of one layout and of one build.
BldLinked ==
  linked # <<>> =>
    /\ bstage = "idle"
    /\ \E y \in Layouts :
         /\ linked = ArchivesOf(y)
         /\ \E b : Copied(linked, Len(linked), y, b)

BldTypes ==
  /\ checkout \in Checkouts
  /\ DOMAIN copies = Archives

BldInv == BldTypes /\ BldStages /\ BldLinked

\* The lists as sets.
LEMMA ListsAsSets ==
  /\ ToSet(ArchivesOf("v184")) = {"Tpm_CoreLib", "TpmBigNum", "Math_Ossl"}
  /\ ToSet(ArchivesOf("azure"))
       = {"Tpm_CoreLib", "Math_TpmBigNum", "BnMath_Ossl"}
  /\ ToSet(ArchivesOf("symcrypt")) = {"Tpm_CoreLib", "SymCrypt_Common"}
<1>1. ToSet(<<"Tpm_CoreLib", "TpmBigNum", "Math_Ossl">>)
        = {"Tpm_CoreLib", "TpmBigNum", "Math_Ossl"}
  BY DEF ToSet
<1>2. ToSet(<<"Tpm_CoreLib", "Math_TpmBigNum", "BnMath_Ossl">>)
        = {"Tpm_CoreLib", "Math_TpmBigNum", "BnMath_Ossl"}
  BY DEF ToSet
<1>3. ToSet(<<"Tpm_CoreLib", "SymCrypt_Common">>)
        = {"Tpm_CoreLib", "SymCrypt_Common"}
  BY DEF ToSet
<1> QED  BY <1>1, <1>2, <1>3 DEF ArchivesOf

LEMMA ListIsSequence ==
  ASSUME NEW y \in Layouts
  PROVE  /\ Len(ArchivesOf(y)) \in Nat
         /\ DOMAIN ArchivesOf(y) = 1 .. Len(ArchivesOf(y))
<1>1. \A a, b, c : Len(<<a, b, c>>) = 3 /\ DOMAIN <<a, b, c>> = 1 .. 3
  OBVIOUS
<1>2. \A a, b : Len(<<a, b>>) = 2 /\ DOMAIN <<a, b>> = 1 .. 2
  OBVIOUS
<1>3. CASE y \in Checkouts
  <2>1. Len(ArchivesOf(y)) = 3 /\ DOMAIN ArchivesOf(y) = 1 .. 3
    BY <1>1, <1>3 DEF ArchivesOf, Checkouts
  <2> QED  BY <2>1
<1>4. CASE y = "symcrypt"
  <2>1. Len(ArchivesOf(y)) = 2 /\ DOMAIN ArchivesOf(y) = 1 .. 2
    BY <1>2, <1>4 DEF ArchivesOf
  <2> QED  BY <2>1
<1> QED  BY <1>3, <1>4 DEF Layouts

LEMMA ArchivesAre ==
  Archives = {"Tpm_CoreLib", "TpmBigNum", "Math_Ossl", "Math_TpmBigNum",
              "BnMath_Ossl", "SymCrypt_Common"}
<1>1. Archives = ToSet(ArchivesOf("v184")) \cup ToSet(ArchivesOf("azure"))
                   \cup ToSet(ArchivesOf("symcrypt"))
  BY DEF Archives, Layouts, Checkouts
<1> QED  BY <1>1, ListsAsSets

\* The layout is recognized: a directory that has all archives of a list that
\* was chosen by what is in it has those of one build, if it is whole,
LEMMA WholeIsRecognized ==
  ASSUME NEW y \in BuiltLayout, NEW dir, Whole(dir, y), checkout \in Checkouts,
         NEW list \in TpmArchives(dir)
  PROVE  y \in Layouts /\ list = ArchivesOf(y)
<1>1. \/ Backend = {"OpenSsl"} /\ y \in Checkouts
      \/ Backend = {"SymCrypt"} /\ y = "symcrypt"
  <2>1. CASE Backend = {"OpenSsl"} /\ features.openssl35
    BY <2>1 DEF BuiltLayout
  <2>2. CASE Backend = {"SymCrypt"} /\ checkout = "azure"
    BY <2>2 DEF BuiltLayout
  <2> QED  BY <2>1, <2>2 DEF BuiltLayout
<1>4. y \in Layouts
  BY <1>1 DEF Layouts
<1>2. CASE Backend = {"OpenSsl"} /\ y \in Checkouts
  <2>1. list \in OpenSslArchives(dir)
    BY <1>2 DEF TpmArchives
  <2>2. CASE y = "v184"
    <3>1. IsFile(dir, "TpmBigNum")
      BY <2>2, ListsAsSets, BuildAssumption
      DEF Whole, IsFile, Layouts, Checkouts
    <3> QED  BY <1>4, <2>1, <2>2, <3>1 DEF OpenSslArchives
  <2>3. CASE y = "azure"
    <3>1. IsFile(dir, "Math_TpmBigNum")
      BY <2>3, ListsAsSets, BuildAssumption
      DEF Whole, IsFile, Layouts, Checkouts
    <3> QED  BY <1>4, <2>1, <2>3, <3>1 DEF OpenSslArchives
  <2> QED  BY <1>2, <2>2, <2>3 DEF Checkouts
<1>3. CASE Backend = {"SymCrypt"} /\ y = "symcrypt"
  <2>1. list \in {ArchivesOf("symcrypt")}
    BY <1>3 DEF TpmArchives
  <2> QED  BY <1>3, <1>4, <2>1
<1> QED  BY <1>1, <1>2, <1>3

\* and so has a prebuilt one.
LEMMA PrebuiltIsRecognized ==
  ASSUME NEW dir \in PrebuiltDirs, NEW list \in TpmArchives(dir),
         \A a \in ToSet(list) : IsFile(dir, a)
  PROVE  \E y \in Layouts : list = ArchivesOf(y) /\ Whole(dir, y)
<1>1. list \in OpenSslArchives(dir) \/ list = ArchivesOf("symcrypt")
  BY DEF TpmArchives
<1>2. ASSUME NEW y \in Layouts,
             dir = [a \in Archives |->
                      IF a \in ToSet(ArchivesOf(y)) THEN y ELSE NoArchive]
      PROVE  list = ArchivesOf(y) /\ Whole(dir, y)
  <2>1. \A a \in Archives : IsFile(dir, a) <=> a \in ToSet(ArchivesOf(y))
    BY <1>2, BuildAssumption DEF IsFile
  <2>2. Whole(dir, y)
    BY <1>2 DEF Whole, Archives
  <2>3. CASE y = "v184"
    <3>1. IsFile(dir, "TpmBigNum") /\ ~IsFile(dir, "Math_TpmBigNum")
          /\ ~IsFile(dir, "SymCrypt_Common")
      BY <2>1, <2>3, ListsAsSets, ArchivesAre
    <3>2. list # ArchivesOf("symcrypt")
      BY <3>1, ListsAsSets
    <3>3. list = ArchivesOf(y)
      BY <1>1, <2>3, <3>1, <3>2 DEF OpenSslArchives
    <3> QED  BY <2>2, <3>3
  <2>4. CASE y = "azure"
    <3>1. ~IsFile(dir, "TpmBigNum") /\ IsFile(dir, "Math_TpmBigNum")
          /\ ~IsFile(dir, "SymCrypt_Common")
      BY <2>1, <2>4, ListsAsSets, ArchivesAre
    <3>2. list # ArchivesOf("symcrypt")
      BY <3>1, ListsAsSets
    <3>3. list = ArchivesOf(y)
      BY <1>1, <2>4, <3>1, <3>2 DEF OpenSslArchives
    <3> QED  BY <2>2, <3>3
  <2>5. CASE y = "symcrypt"
    <3>1. ~IsFile(dir, "TpmBigNum") /\ ~IsFile(dir, "Math_TpmBigNum")
      BY <2>1, <2>5, ListsAsSets, ArchivesAre
    <3> QED  BY <1>1, <2>2, <2>5, <3>1 DEF OpenSslArchives
  <2> QED  BY <2>3, <2>4, <2>5 DEF Layouts, Checkouts
<1>3. CASE dir = [a \in Archives |->
                    IF a \in ToSet(ArchivesOf("v184")) THEN "v184"
                    ELSE IF a \in ToSet(ArchivesOf("azure")) THEN "azure"
                    ELSE NoArchive]
  <2>1. IsFile(dir, "TpmBigNum") /\ IsFile(dir, "Math_TpmBigNum")
        /\ ~IsFile(dir, "SymCrypt_Common")
    BY <1>3, ListsAsSets, ArchivesAre, BuildAssumption
    DEF IsFile, Layouts, Checkouts
  <2>2. list = ArchivesOf("symcrypt")
    BY <1>1, <2>1 DEF OpenSslArchives
  <2> QED  BY <2>1, <2>2, ListsAsSets
<1> QED  BY <1>2, <1>3 DEF PrebuiltDirs

LEMMA BldInvInit == BldInit => BldInv
BY DEF BldInit, BldInv, BldTypes, BldStages, BldLinked

LEMMA CollectInv == BldInv /\ Collect => BldInv'
<1> SUFFICES ASSUME BldInv, Collect PROVE BldInv'
  OBVIOUS
<1>1. PICK list \in TpmArchives(LibDir) :
        /\ \A a \in ToSet(list) : IsFile(LibDir, a)
        /\ libraries' = list
  BY DEF Collect
<1>2. /\ copied' = 0 /\ bstage' = "copy" /\ bstage = "collect"
      /\ UNCHANGED <<features, checkout, prebuilt, lib, builds, copies, linked>>
  BY DEF Collect, setting
<1>3. \E y \in Layouts : list = ArchivesOf(y) /\ Whole(LibDir, y)
  <2>1. CASE prebuilt = {}
    <3>1. LibDir = lib
      BY <2>1 DEF LibDir
    <3>2. PICK y \in BuiltLayout : Whole(lib, y)
      BY <1>2, <2>1 DEF BldInv, BldStages
    <3>3. y \in Layouts /\ list = ArchivesOf(y)
      BY <3>1, <3>2, WholeIsRecognized DEF BldInv, BldTypes
    <3> QED  BY <3>1, <3>2, <3>3
  <2>2. CASE prebuilt # {}
    <3>1. PICK d \in PrebuiltDirs : prebuilt = {d}
      BY <2>2 DEF BldInv, BldStages
    <3>2. LibDir = d
      BY <3>1 DEF LibDir
    <3> QED  BY <1>1, <3>2, PrebuiltIsRecognized
  <2> QED  BY <2>1, <2>2
<1>4. PICK y \in Layouts : list = ArchivesOf(y) /\ Whole(LibDir, y)
  BY <1>3
<1>5. LibDir' = LibDir
  BY <1>2 DEF LibDir
<1>6. Len(libraries') \in Nat
  BY <1>1, <1>4, ListIsSequence
<1>7. copied' \in 0 .. Len(libraries') /\ Whole(LibDir', y)
      /\ Copied(libraries, copied, y, builds)'
  BY <1>2, <1>4, <1>5, <1>6 DEF Copied, Whole
<1>8. BldStages'
  BY <1>1, <1>2, <1>4, <1>7 DEF BldInv, BldStages
<1>9. linked' = <<>>
  BY <1>2 DEF BldInv, BldLinked
<1> QED  BY <1>2, <1>8, <1>9 DEF BldInv, BldTypes, BldLinked

LEMMA NamespaceInv == BldInv /\ NamespaceLibrary => BldInv'
<1> SUFFICES ASSUME BldInv, NamespaceLibrary PROVE BldInv'
  OBVIOUS
<1>1. /\ bstage = "copy" /\ bstage' = "copy" /\ copied < Len(libraries)
      /\ copied' = copied + 1
      /\ copies' = [copies EXCEPT ![libraries[copied + 1]] =
                      [of |-> LibDir[libraries[copied + 1]], build |-> builds]]
      /\ UNCHANGED <<features, checkout, prebuilt, lib, builds, libraries,
                     linked>>
  BY DEF NamespaceLibrary, Namespace, setting
<1>2. PICK y \in Layouts :
        /\ libraries = ArchivesOf(y) /\ Whole(LibDir, y)
        /\ copied \in 0 .. Len(libraries)
        /\ Copied(libraries, copied, y, builds)
  BY <1>1 DEF BldInv, BldStages
<1>3. Len(libraries) \in Nat /\ DOMAIN libraries = 1 .. Len(libraries)
  BY <1>2, ListIsSequence
<1>4. ASSUME NEW i \in 1 .. Len(libraries)
      PROVE  libraries[i] \in ToSet(ArchivesOf(y)) /\ libraries[i] \in Archives
  BY <1>2, <1>3 DEF ToSet, Archives
<1>5. LibDir[libraries[copied + 1]] = y /\ libraries[copied + 1] \in Archives
  BY <1>1, <1>2, <1>3, <1>4 DEF Whole
<1>6. ASSUME NEW i \in 1 .. copied + 1
      PROVE  /\ copies'[libraries[i]].of = y
             /\ copies'[libraries[i]].build = builds
  <2>1. i \in 1 .. Len(libraries)
    BY <1>1, <1>2, <1>3
  <2>2. libraries[i] \in DOMAIN copies
    BY <1>4, <2>1 DEF BldInv, BldTypes
  <2>3. CASE libraries[i] = libraries[copied + 1]
    BY <1>1, <1>5, <2>2, <2>3
  <2>4. CASE libraries[i] # libraries[copied + 1]
    <3>1. i \in 1 .. copied
      BY <1>2, <1>3, <2>4
    <3>2. copies'[libraries[i]] = copies[libraries[i]]
      BY <1>1, <2>2, <2>4
    <3> QED  BY <1>2, <3>1, <3>2 DEF Copied
  <2> QED  BY <2>3, <2>4
<1>7. LibDir' = LibDir
  BY <1>1 DEF LibDir
<1>8. copied' \in 0 .. Len(libraries') /\ Whole(LibDir', y)
      /\ Copied(libraries, copied, y, builds)'
  BY <1>1, <1>2, <1>3, <1>6, <1>7 DEF Copied, Whole
<1>9. BldStages'
  BY <1>1, <1>2, <1>8 DEF BldInv, BldStages
<1>10. DOMAIN copies' = Archives
  BY <1>1 DEF BldInv, BldTypes
<1>11. linked' = <<>>
  BY <1>1 DEF BldInv, BldLinked
<1> QED  BY <1>1, <1>9, <1>10, <1>11 DEF BldInv, BldTypes, BldLinked

LEMMA BldInvNext ==
  ASSUME BldInv, [BldNext]_bldvars
  PROVE  BldInv'
<1> USE DEF BldInv, BldTypes, BldStages, BldLinked, setting
<1>1. CASE SwitchCheckout
  BY <1>1 DEF SwitchCheckout, Copied
<1>2. CASE SetLibDir
  BY <1>2 DEF SetLibDir, Copied
<1>3. CASE StartBuild
  BY <1>3 DEF StartBuild
<1>4. CASE CompileArchive
  <2>1. linked = <<>> /\ UNCHANGED <<setting, bstage, builds, libraries, copied,
                                     copies, linked>> /\ bstage = "compile"
    BY <1>4 DEF CompileArchive
  <2> QED  BY <2>1
<1>5. CASE Compiled
  <2>1. \E y \in BuiltLayout : Whole(lib, y)
    BY <1>5 DEF Compiled, Whole
  <2>2. lib' = lib /\ BuiltLayout' = BuiltLayout
    BY <1>5 DEF Compiled, BuiltLayout, Backend
  <2>3. \E y \in BuiltLayout' : Whole(lib', y)
    BY <2>1, <2>2
  <2> QED  BY <1>5, <2>3 DEF Compiled, Whole
<1>6. CASE BuildSucceeds
  <2>1. PICK y \in Layouts :
          /\ libraries = ArchivesOf(y)
          /\ Copied(libraries, Len(libraries), y, builds)
    BY <1>6 DEF BuildSucceeds
  <2>2. linked' = ArchivesOf(y) /\ Copied(linked, Len(linked), y, builds)'
    BY <1>6, <2>1 DEF BuildSucceeds, Copied
  <2>3. bstage' = "idle" /\ UNCHANGED <<checkout, prebuilt, copies>>
    BY <1>6 DEF BuildSucceeds
  <2>4. \E b : \A i \in 1 .. Len(linked') :
          copies'[linked'[i]].of = y /\ copies'[linked'[i]].build = b
    BY <2>2 DEF Copied
  <2> QED  BY <2>2, <2>3, <2>4 DEF Copied
<1>7. CASE BuildFails
  BY <1>7 DEF BuildFails
<1>8. CASE UNCHANGED bldvars
  <2>1. LibDir' = LibDir /\ BuiltLayout' = BuiltLayout
    BY <1>8 DEF bldvars, LibDir, BuiltLayout, Backend
  <2> QED  BY <1>8, <2>1 DEF bldvars, Copied, Whole
<1> QED  BY <1>1, <1>2, <1>3, <1>4, <1>5, <1>6, <1>7, <1>8, CollectInv,
  NamespaceInv DEF BldNext

\* What lies in OUT_DIR, however many builds ran over each other and wherever
\* they stopped (build.rs, main).
THEOREM BuildInvariant == BldSpec => []BldInv
<1>1. BldInv /\ [BldNext]_bldvars => BldInv'
  BY BldInvNext
<1> QED  BY <1>1, BldInvInit, PTL DEF BldSpec

\* A build that succeeds links the archives of one layout, renamed by one list
\* (tpm_archives, source_archives, the objcopy loop of build.rs).
THEOREM OneLayout == BldSpec => []LinksOneLayout
<1>1. ASSUME BldInv, linked # <<>>
      PROVE  /\ \E y \in Layouts :
                  /\ linked = ArchivesOf(y)
                  /\ \A i \in 1 .. Len(linked) : copies[linked[i]].of = y
             /\ \A i, j \in 1 .. Len(linked) :
                  copies[linked[i]].build = copies[linked[j]].build
  <2>1. PICK y \in Layouts :
          linked = ArchivesOf(y) /\ \E b : Copied(linked, Len(linked), y, b)
    BY <1>1 DEF BldInv, BldLinked
  <2>2. PICK b : Copied(linked, Len(linked), y, b)
    BY <2>1
  <2> QED  BY <2>1, <2>2 DEF Copied
<1>2. BldInv => LinksOneLayout
  BY <1>1 DEF LinksOneLayout
<1> QED  BY <1>2, BuildInvariant, PTL

-----------------------------------------------------------------------------
(* BuildNames                                                              *)

NamInv == archives = NoInput \/ archives \in ArchiveSets

\* The script renames the archives it is given and no others
\* (namespace_libraries).
THEOREM NamesInvariant == NamSpec => []NamInv
<1>1. NamInit => NamInv
  BY DEF NamInit, NamInv
<1>2. NamInv /\ [NamNext]_archives => NamInv'
  BY DEF NamInv, NamNext
<1> QED  BY <1>1, <1>2, PTL DEF NamSpec

\* A symbol gets the prefix in every archive or in none.
LEMMA SameName ==
  ASSUME NEW as, NEW i, NEW j, NEW s
  PROVE  NameIn(as, i, s) = NameIn(as, j, s)
BY DEF NameIn, ListFor

\* A symbol gets the prefix exactly if it is in the list.
LEMMA PlainIfNotListed ==
  ASSUME NEW as, NEW i, NEW s
  PROVE  /\ s \in Renames(as) => NameIn(as, i, s) = RustName(s)
         /\ s \notin Renames(as) => NameIn(as, i, s) = PlainName(s)
         /\ RustName(s) # PlainName(s)
BY DEF NameIn, ListFor, RustName, PlainName

\* What the archives do not define is a callback of the platform or stays as it
\* is; what they define is prefixed unless SymCrypt or the linker knows it.
LEMMA ListedNames ==
  ASSUME NEW as \in ArchiveSets, NEW i \in DOMAIN as
  PROVE  /\ \A s \in as[i].undefs \ Defined(as) :
               s \in Renames(as) <=> s \in PlatformNames
         /\ \A s \in as[i].defs :
               s \in Renames(as) <=> s \notin SymCryptNames \cup LinkerNames
<1>1. \A s \in as[i].undefs : s \in Undefined(as)
  BY DEF Undefined
<1>2. \A s \in as[i].defs : s \in Defined(as)
  BY DEF Defined
<1>3. \A s \in PlatformNames : Kept(s)
  BY NamesAssumption DEF Kept
<1> QED  BY <1>1, <1>2, <1>3 DEF Renames, Kept

\* However many archives there are and whatever they define and leave undefined:
\* renamed by the list made of them all, each reference finds what it found
\* before, and only what SymCrypt and the linker know keeps its name
\* (symbols::renames and namespace_libraries, build.rs:415-478).
THEOREM NamesResolve == NamSpec => []ReferencesResolve
<1>1. ASSUME NamInv PROVE ReferencesResolve
  <2> SUFFICES ASSUME archives \in ArchiveSets, NEW i \in DOMAIN archives
      PROVE
        /\ \A s \in archives[i].undefs :
             IF s \in Defined(archives)
             THEN \E j \in DOMAIN archives :
                    /\ s \in archives[j].defs
                    /\ NameIn(archives, j, s) = NameIn(archives, i, s)
             ELSE NameIn(archives, i, s) =
                    IF s \in PlatformNames THEN RustName(s) ELSE PlainName(s)
        /\ \A s \in archives[i].defs :
             (NameIn(archives, i, s) = PlainName(s))
               <=> s \in SymCryptNames \cup LinkerNames
    BY <1>1 DEF NamInv, ReferencesResolve
  <2>1. ASSUME NEW s \in archives[i].undefs, s \in Defined(archives)
        PROVE  \E j \in DOMAIN archives :
                 /\ s \in archives[j].defs
                 /\ NameIn(archives, j, s) = NameIn(archives, i, s)
    BY <2>1, SameName DEF Defined
  <2>2. ASSUME NEW s \in archives[i].undefs, s \notin Defined(archives)
        PROVE  NameIn(archives, i, s) =
                 IF s \in PlatformNames THEN RustName(s) ELSE PlainName(s)
    BY <2>2, ListedNames, PlainIfNotListed
  <2>3. ASSUME NEW s \in archives[i].defs
        PROVE  (NameIn(archives, i, s) = PlainName(s))
                 <=> s \in SymCryptNames \cup LinkerNames
    BY <2>3, ListedNames, PlainIfNotListed
  <2> QED  BY <2>1, <2>2, <2>3
<1> QED  BY <1>1, NamesInvariant, PTL

-----------------------------------------------------------------------------
(* Pcr                                                                     *)

\* What the last query returned, and what it left in the library's buffer.
PcrInv ==
  /\ pcrcall.rc \in {"none", "TPM_RC_SUCCESS", "TPM_RC_FAILURE", "TPM_RC_PCR"}
  /\ pcrcall.number \in Nat /\ pcrcall.size \in Nat
  /\ pcrcall.rc = "TPM_RC_SUCCESS" =>
       /\ pcrcall.number \in 0 .. NUM_PCRS - 1
       /\ pcrlength \in DigestSize(pcrcall.alg)
       /\ pcrlength <= pcrcall.size
       /\ pcrbuffer = InitialValue(pcrcall.number, pcrlength, pcrcall.locality)
  /\ pcrcall.rc # "TPM_RC_SUCCESS" => pcrbuffer = <<>>
  /\ pcrcall.rc = "TPM_RC_PCR" => DigestSize(pcrcall.alg) = {} /\ pcrlength = 0
  /\ pcrcall.rc = "TPM_RC_FAILURE" =>
       \/ pcrcall.number >= NUM_PCRS \/ pcrcall.null
       \/ \E n \in DigestSize(pcrcall.alg) : ~(pcrcall.size >= n)

\* What the last query returned and wrote, as its refusals order it
\* (plat_pcr_get_initial_value_for_pcr).
THEOREM PcrInvariant == PcrSpec => []PcrInv
<1>1. PcrInit => PcrInv
  BY DEF PcrInit, PcrInv, NoQuery
<1>2. ASSUME PcrInv, GetInitialValueForPcr PROVE PcrInv'
  <2>1. PICK p \in PcrNumbers, alg \in Algs, l \in Localities,
             size \in BufferSizes, null \in BOOLEAN :
          LET Answer(rc) ==
                pcrcall' = [number |-> p, alg |-> alg, locality |-> l,
                            size |-> size, null |-> null, rc |-> rc]
          IN \/ /\ p >= NUM_PCRS \/ null
                /\ Answer("TPM_RC_FAILURE")
                /\ pcrbuffer' = <<>> /\ UNCHANGED pcrlength
             \/ /\ p < NUM_PCRS /\ ~null
                /\ DigestSize(alg) = {}
                /\ Answer("TPM_RC_PCR")
                /\ pcrbuffer' = <<>> /\ pcrlength' = 0
             \/ /\ p < NUM_PCRS /\ ~null
                /\ \E n \in DigestSize(alg) :
                     \/ /\ ~RoomFor(size, n)
                        /\ Answer("TPM_RC_FAILURE")
                        /\ pcrbuffer' = <<>> /\ UNCHANGED pcrlength
                     \/ /\ RoomFor(size, n)
                        /\ Answer("TPM_RC_SUCCESS")
                        /\ pcrbuffer' = InitialValue(p, n, l)
                        /\ pcrlength' = n
    BY <1>2 DEF GetInitialValueForPcr
  <2> DEFINE Replied(rc) ==
        pcrcall' = [number |-> p, alg |-> alg, locality |-> l,
                    size |-> size, null |-> null, rc |-> rc]
  <2>2. p \in Nat /\ size \in Nat
    BY PcrAssumption
  <2>3. CASE Replied("TPM_RC_FAILURE")
    <3>1. /\ pcrbuffer' = <<>>
          /\ p >= NUM_PCRS \/ null \/ \E n \in DigestSize(alg) : ~(size >= n)
      BY <2>1, <2>3 DEF RoomFor
    <3> QED  BY <2>2, <2>3, <3>1 DEF PcrInv
  <2>4. CASE Replied("TPM_RC_PCR")
    <3>1. pcrbuffer' = <<>> /\ DigestSize(alg) = {} /\ pcrlength' = 0
      BY <2>1, <2>4
    <3> QED  BY <2>2, <2>4, <3>1 DEF PcrInv
  <2>5. CASE Replied("TPM_RC_SUCCESS")
    <3>1. /\ p < NUM_PCRS /\ pcrlength' \in DigestSize(alg)
          /\ size >= pcrlength' /\ pcrbuffer' = InitialValue(p, pcrlength', l)
      BY <2>1, <2>5 DEF RoomFor
    <3>2. p \in 0 .. NUM_PCRS - 1 /\ pcrlength' \in Nat
      BY <2>2, <3>1 DEF NUM_PCRS, DigestSize
    <3>3. pcrlength' <= size
      BY <2>2, <3>1, <3>2
    <3> QED  BY <2>2, <2>5, <3>1, <3>2, <3>3 DEF PcrInv
  <2> QED  BY <2>1, <2>3, <2>4, <2>5
<1>3. PcrInv /\ [PcrNext]_pcrvars => PcrInv'
  BY <1>2 DEF PcrNext, pcrvars, PcrInv
<1> QED  BY <1>1, <1>3, PTL DEF PcrSpec

\* The table, read once: which PCRs locality 4 resets, and locality 0 extends.
LEMMA TableIs ==
  ASSUME NEW p \in 0 .. NUM_PCRS - 1
  PROVE  /\ InitializationAttributes(p) = AttributesOf(p)
         /\ Allows(AttributesOf(p).extend_locality, LOCALITY_0)
              <=> p \notin 17 .. 22
         /\ AttributesOf(p).state_save <=> p \in 0 .. 15
         /\ p \in 0 .. 15 => AttributesOf(p).reset_locality = 0
         /\ DefaultByte(p) = IF p \in 17 .. 22 THEN 255 ELSE 0
<1>1. InitializationAttributes(p) = AttributesOf(p)
  BY DEF InitializationAttributes, NUM_PCRS
<1> DEFINE Row(save, reset, extend) ==
      /\ AttributesOf(p).state_save = save
      /\ AttributesOf(p).reset_locality = reset
      /\ AttributesOf(p).extend_locality = extend
<1>2. /\ p \in 0 .. 15 => Row(TRUE, 0, 31)
      /\ p \in {16, 23} => Row(FALSE, 15, 31)
      /\ p \in 17 .. 18 => Row(FALSE, 16, 28)
      /\ p = 19 => Row(FALSE, 16, 12)
      /\ p = 20 => Row(FALSE, 20, 14)
      /\ p \in 21 .. 22 => Row(FALSE, 20, 4)
  BY DEF AttributesOf, Attr
<1>3. /\ ~Allows(0, LOCALITY_4) /\ ~Allows(15, LOCALITY_4)
      /\ Allows(16, LOCALITY_4) /\ Allows(20, LOCALITY_4)
      /\ Allows(31, LOCALITY_0)
      /\ \A mask \in {4, 12, 14, 28} : ~Allows(mask, LOCALITY_0)
  BY DEF Allows, LOCALITY_4, LOCALITY_0
<1>4. \/ p \in 0 .. 15 \/ p \in {16, 23}
      \/ p \in 17 .. 18 \/ p = 19 \/ p = 20 \/ p \in 21 .. 22
  BY DEF NUM_PCRS
<1>5. CASE p \in 0 .. 15
  BY <1>1, <1>2, <1>3, <1>5 DEF DefaultByte
<1>6. CASE p \in {16, 23}
  BY <1>1, <1>2, <1>3, <1>6 DEF DefaultByte
<1>7. CASE p \in 17 .. 18 \/ p = 19
  BY <1>1, <1>2, <1>3, <1>7 DEF DefaultByte
<1>8. CASE p = 20 \/ p \in 21 .. 22
  BY <1>1, <1>2, <1>3, <1>8 DEF DefaultByte
<1> QED  BY <1>4, <1>5, <1>6, <1>7, <1>8

\* A value is its default byte throughout, but for the last byte of PCR 0.
LEMMA ValueIs ==
  ASSUME NEW p, NEW n \in Nat, n > 1, NEW l
  PROVE  /\ Len(InitialValue(p, n, l)) = n
         /\ {InitialValue(p, n, l)[i] : i \in 1 .. n - 1} = {DefaultByte(p)}
         /\ InitialValue(p, n, l)[n] = IF p = HCRTM_PCR THEN l
                                       ELSE DefaultByte(p)
<1> DEFINE v == InitialValue(p, n, l)
<1>1. \A i \in 1 .. n : v[i] = IF p = HCRTM_PCR /\ i = n THEN l
                              ELSE DefaultByte(p)
  BY DEF InitialValue
<1>2. Len(v) = n
  BY DEF InitialValue
<1> HIDE DEF v
<1>3. \A i \in 1 .. n - 1 : v[i] = DefaultByte(p)
  BY <1>1
<1>4. 1 \in 1 .. n - 1 /\ n \in 1 .. n
  OBVIOUS
<1> QED  BY <1>1, <1>2, <1>3, <1>4 DEF v

\* For every number, algorithm, locality and size the library asks with: a PCR
\* starts with what its attributes say, in a buffer that holds it
\* (plat_pcr_get_initial_value_for_pcr against INIT_ATTRIBUTES).
THEOREM PcrsStartRight == PcrSpec => []PcrStartsAsItsAttributesSay
<1>1. ASSUME PcrInv PROVE PcrStartsAsItsAttributesSay
  <2>1. ASSUME pcrcall.rc = "TPM_RC_SUCCESS"
        PROVE
          LET a == InitializationAttributes(pcrcall.number)
              body == {pcrbuffer[i] : i \in 1 .. Len(pcrbuffer) - 1}
              last == pcrbuffer[Len(pcrbuffer)]
          IN  /\ Len(pcrbuffer) = pcrlength /\ pcrlength <= pcrcall.size
              /\ body \in {{0}, {255}}
              /\ a.state_save => a.reset_locality = 0 /\ body = {0}
              /\ body = {255} <=> ~Allows(a.extend_locality, LOCALITY_0)
              /\ IF pcrcall.number = HCRTM_PCR THEN last = pcrcall.locality
                 ELSE last \in body
    <3> DEFINE p == pcrcall.number
               n == pcrlength
               body == {pcrbuffer[i] : i \in 1 .. Len(pcrbuffer) - 1}
    <3>1. p \in 0 .. NUM_PCRS - 1 /\ n <= pcrcall.size
      BY <1>1, <2>1 DEF PcrInv
    <3>2. n \in {20, 32, 48, 64}
      BY <1>1, <2>1 DEF PcrInv, DigestSize
    <3>3. pcrbuffer = InitialValue(p, n, pcrcall.locality)
      BY <1>1, <2>1 DEF PcrInv
    <3> HIDE DEF p, n
    <3>4. /\ Len(pcrbuffer) = n /\ body = {DefaultByte(p)}
          /\ pcrbuffer[n] = IF p = HCRTM_PCR THEN pcrcall.locality
                            ELSE DefaultByte(p)
      <4>1. n \in Nat /\ n > 1
        BY <3>2
      <4>2. /\ Len(InitialValue(p, n, pcrcall.locality)) = n
            /\ {InitialValue(p, n, pcrcall.locality)[i] : i \in 1 .. n - 1}
                 = {DefaultByte(p)}
            /\ InitialValue(p, n, pcrcall.locality)[n]
                 = IF p = HCRTM_PCR THEN pcrcall.locality ELSE DefaultByte(p)
        BY <4>1, ValueIs
      <4>3. body = {pcrbuffer[i] : i \in 1 .. n - 1}
        BY <3>3, <4>2
      <4> QED  BY <3>3, <4>2, <4>3
    <3> HIDE DEF body
    <3>5. body = {255} <=> p \in 17 .. 22
      BY <3>1, <3>4, TableIs
    <3>6. /\ body \in {{0}, {255}}
          /\ AttributesOf(p).state_save =>
               AttributesOf(p).reset_locality = 0 /\ body = {0}
      BY <3>1, <3>4, TableIs
    <3>7. IF p = HCRTM_PCR THEN pcrbuffer[n] = pcrcall.locality
          ELSE pcrbuffer[n] \in body
      BY <3>4
    <3>8. InitializationAttributes(p) = AttributesOf(p)
      BY <3>1, TableIs
    <3>9. body = {255} <=> ~Allows(AttributesOf(p).extend_locality, LOCALITY_0)
      BY <3>1, <3>5, TableIs
    <3> QED
      BY <3>1, <3>4, <3>6, <3>7, <3>8, <3>9, Zenon DEF p, n, body
  <2>2. ASSUME pcrcall.alg \in DEFAULT_ACTIVE_PCR_BANKS,
               pcrcall.number < NUM_PCRS, ~pcrcall.null, pcrcall.size >= 64
        PROVE  pcrcall.rc \in {"none", "TPM_RC_SUCCESS"}
    <3>1. DigestSize(pcrcall.alg) \in {{32}, {48}}
      BY <2>2 DEF DEFAULT_ACTIVE_PCR_BANKS, DigestSize
    <3>2. pcrcall.rc # "TPM_RC_PCR"
      BY <1>1, <3>1 DEF PcrInv
    <3>3. \A n \in DigestSize(pcrcall.alg) : pcrcall.size >= n
      BY <1>1, <2>2, <3>1 DEF PcrInv
    <3>4. pcrcall.rc # "TPM_RC_FAILURE"
      BY <1>1, <2>2, <3>3 DEF PcrInv, NUM_PCRS
    <3> QED  BY <1>1, <3>2, <3>4 DEF PcrInv
  <2> QED  BY <1>1, <2>1, <2>2 DEF PcrInv, PcrStartsAsItsAttributesSay
<1> QED  BY <1>1, PcrInvariant, PTL
=============================================================================
