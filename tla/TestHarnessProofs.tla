------------------------- MODULE TestHarnessProofs -------------------------
(***************************************************************************)
(* Proofs about TestHarness for a region of every size, for every way in   *)
(* which the operating system cuts a write into pieces and every place     *)
(* where the process dies.  The invariant says byte by byte what is in the *)
(* file, and that it never outgrows the region.                            *)
(***************************************************************************)
EXTENDS TestHarness, SequenceTheorems, TLAPS

Longer(a, b) == IF a >= b THEN a ELSE b

Types ==
  /\ phase \in Phases
  /\ region \in Images /\ attempt \in Images
  /\ file # NoFile => file \in Seq(Bytes)
  /\ before \in Seq(Bytes)
  /\ done \in 0 .. Size
  /\ clean \in BOOLEAN /\ ever \in BOOLEAN

\* The file has done bytes of the image of the last commit, and after them what
\* it had before.
Mixed ==
  IF file = NoFile THEN before = <<>> /\ done = 0 /\ phase = "off"
  ELSE /\ Len(file) = Longer(done, Len(before))
       /\ \A i \in 1 .. Len(file) :
            file[i] = IF i <= done THEN attempt[i] ELSE before[i]

\* The file is never longer than the region, and has its length once a commit
\* has returned Ok.
Lengths ==
  /\ Len(before) <= Size
  /\ phase = "created" => file = <<>>
  /\ ever => file # NoFile /\ Len(file) = Size

\* Where a commit stands.
Commits ==
  /\ phase = "commit" => pos = done /\ done < Size /\ ~clean
  /\ clean => done = Size /\ ever

HarnessInv == Types /\ Mixed /\ Lengths /\ Commits

-----------------------------------------------------------------------------
(* Sequences of bytes.                                                     *)

LEMMA SubSeqIs ==
  ASSUME NEW s \in Seq(Bytes), NEW m \in Nat \ {0}, NEW n \in Nat,
         n <= Len(s), m <= n + 1
  PROVE  /\ SubSeq(s, m, n) \in Seq(Bytes)
         /\ Len(SubSeq(s, m, n)) = n - m + 1
         /\ \A i \in 1 .. n - m + 1 : SubSeq(s, m, n)[i] = s[m + i - 1]
OBVIOUS

LEMMA ConcatIs ==
  ASSUME NEW s \in Seq(Bytes), NEW t \in Seq(Bytes)
  PROVE  /\ s \o t \in Seq(Bytes)
         /\ Len(s \o t) = Len(s) + Len(t)
         /\ \A i \in 1 .. Len(s) : (s \o t)[i] = s[i]
         /\ \A i \in 1 .. Len(t) : (s \o t)[Len(s) + i] = t[i]
OBVIOUS

\* The tail of a sequence from beyond its end is empty.
LEMMA TailIs ==
  ASSUME NEW s \in Seq(Bytes), NEW k \in Nat
  PROVE  /\ SubSeq(s, k + 1, Len(s)) \in Seq(Bytes)
         /\ Len(SubSeq(s, k + 1, Len(s))) = Longer(k, Len(s)) - k
         /\ \A i \in 1 .. Longer(k, Len(s)) - k :
              SubSeq(s, k + 1, Len(s))[i] = s[k + i]
<1>1. CASE k <= Len(s)
  BY <1>1 DEF Longer
<1>2. CASE k > Len(s)
  BY <1>2 DEF Longer
<1> QED  BY <1>1, <1>2

\* The file after a write, byte by byte.
LEMMA OverwriteIs ==
  ASSUME NEW f \in Seq(Bytes), NEW p \in 0 .. Len(f), NEW d \in Seq(Bytes)
  PROVE  /\ Overwrite(f, p, d) \in Seq(Bytes)
         /\ Len(Overwrite(f, p, d)) = Longer(p + Len(d), Len(f))
         /\ \A i \in 1 .. Longer(p + Len(d), Len(f)) :
              Overwrite(f, p, d)[i] = IF i <= p THEN f[i]
                                      ELSE IF i <= p + Len(d) THEN d[i - p]
                                      ELSE f[i]
<1> DEFINE q == p + Len(d)
           head == SubSeq(f, 1, p)
           tail == SubSeq(f, q + 1, Len(f))
           w == head \o d
           o == w \o tail
<1>1. /\ p \in Nat /\ Len(d) \in Nat /\ Len(f) \in Nat /\ p <= Len(f)
      /\ q \in Nat /\ q = p + Len(d) /\ Overwrite(f, p, d) = o
  BY DEF Overwrite
<1> HIDE DEF q
<1>2. /\ head \in Seq(Bytes) /\ Len(head) = p
      /\ \A i \in 1 .. p : head[i] = f[i]
  BY <1>1, SubSeqIs
<1>3. /\ tail \in Seq(Bytes) /\ Len(tail) = Longer(q, Len(f)) - q
      /\ \A i \in 1 .. Longer(q, Len(f)) - q : tail[i] = f[q + i]
  BY <1>1, TailIs
<1> HIDE DEF head, tail
<1>4. /\ w \in Seq(Bytes) /\ Len(w) = q
      /\ \A i \in 1 .. p : w[i] = f[i]
      /\ \A i \in 1 .. Len(d) : w[p + i] = d[i]
  BY <1>1, <1>2, ConcatIs
<1> HIDE DEF w
<1>5. /\ o \in Seq(Bytes) /\ Len(o) = q + Len(tail)
      /\ \A i \in 1 .. q : o[i] = w[i]
      /\ \A i \in 1 .. Len(tail) : o[q + i] = tail[i]
  BY <1>3, <1>4, ConcatIs
<1> HIDE DEF o
<1>6. Len(o) = Longer(q, Len(f)) /\ Longer(q, Len(f)) \in Nat
  <2>1. Longer(q, Len(f)) \in Nat
    BY <1>1 DEF Longer
  <2>2. Len(o) = q + (Longer(q, Len(f)) - q)
    BY <1>3, <1>5
  <2> QED  BY <1>1, <2>1, <2>2
<1>7. ASSUME NEW i \in 1 .. Longer(q, Len(f))
      PROVE  o[i] = IF i <= p THEN f[i] ELSE IF i <= q THEN d[i - p] ELSE f[i]
  <2>1. CASE i <= p
    BY <1>1, <1>4, <1>5, <2>1
  <2>2. CASE p < i /\ i <= q
    <3>1. i - p \in 1 .. Len(d) /\ p + (i - p) = i /\ i \in 1 .. q
      BY <1>1, <2>2
    <3>2. w[p + (i - p)] = d[i - p]
      BY <1>4, <3>1
    <3>3. o[i] = d[i - p]
      BY <1>5, <3>1, <3>2
    <3> QED  BY <1>1, <2>2, <3>3
  <2>3. CASE q < i
    <3>1. i - q \in 1 .. Longer(q, Len(f)) - q /\ q + (i - q) = i
      BY <1>1, <1>6, <2>3
    <3>2. o[q + (i - q)] = tail[i - q] /\ tail[i - q] = f[q + (i - q)]
      BY <1>3, <1>5, <3>1
    <3>3. o[i] = f[i] /\ ~(i <= p) /\ ~(i <= q)
      BY <1>1, <2>3, <3>1, <3>2
    <3> QED  BY <3>3
  <2> QED  BY <1>1, <2>1, <2>2, <2>3
<1> QED  BY <1>1, <1>5, <1>6, <1>7

LEMMA ShortIsFile ==
  ASSUME NEW s \in Seq(Bytes), Len(s) <= Size
  PROVE  s # NoFile
<1>1. Len(s) \in 0 .. 2 * Size /\ s \in [1 .. Len(s) -> Bytes]
  BY HarnessAssumption
<1>2. s \in Files
  BY <1>1 DEF Files
<1> QED  BY <1>2, NoFileAssumption

LEMMA ImageIs ==
  ASSUME NEW s \in Images
  PROVE  s \in Seq(Bytes) /\ Len(s) = Size
BY HarnessAssumption DEF Images

-----------------------------------------------------------------------------
(* The steps.                                                              *)

LEMMA HarnessInit == Init => HarnessInv
<1> SUFFICES ASSUME Init PROVE HarnessInv
  OBVIOUS
<1>1. BlankRegion \in Images
  BY HarnessAssumption DEF BlankRegion, Images
<1>2. before \in Seq(Bytes) /\ Len(before) = 0
  BY DEF Init
<1>3. Types
  <2>1. phase \in Phases /\ done \in 0 .. Size
    BY HarnessAssumption DEF Init, Phases
  <2>2. region = BlankRegion /\ attempt = BlankRegion /\ file = NoFile
        /\ clean = FALSE /\ ever = FALSE
    BY DEF Init
  <2> QED  BY <1>1, <1>2, <2>1, <2>2 DEF Types
<1>4. Mixed /\ Commits
  BY DEF Init, Mixed, Commits
<1>5. Lengths
  BY <1>2, HarnessAssumption DEF Init, Lengths
<1> QED  BY <1>3, <1>4, <1>5 DEF HarnessInv

\* What stays of the invariant when only the program moves.
LEMMA MainStep ==
  ASSUME HarnessInv, UNCHANGED <<file, commitVars>>, file # NoFile,
         phase' \in Phases, region' \in Images,
         phase' \notin {"created", "commit"}
  PROVE  HarnessInv'
BY DEF HarnessInv, Types, Mixed, Lengths, Commits, commitVars

LEMMA CommitStartInv == HarnessInv /\ CommitStart => HarnessInv'
<1> SUFFICES ASSUME HarnessInv, CommitStart PROVE HarnessInv'
  OBVIOUS
<1>1. file # NoFile /\ file \in Seq(Bytes) /\ Len(file) \in Nat
  BY DEF HarnessInv, Types, Mixed, CommitStart
<1>2. Len(file) <= Size
  BY <1>1, HarnessAssumption
  DEF HarnessInv, Types, Mixed, Lengths, Longer
<1>3. UNCHANGED <<file, region, ever>> /\ before' = file /\ attempt' = region
      /\ done' = 0 /\ clean' = FALSE /\ phase' = "commit" /\ pos' = 0
  BY DEF CommitStart, Rewind
<1>4. Types'
  <2>1. Types
    BY DEF HarnessInv
  <2>2. done' \in 0 .. Size /\ phase' \in Phases
    BY <1>3, HarnessAssumption DEF Phases
  <2> QED  BY <1>1, <1>3, <2>1, <2>2 DEF Types
<1>5. Mixed'
  BY <1>1, <1>3 DEF Mixed, Longer
<1>6. Lengths' /\ Commits'
  BY <1>1, <1>2, <1>3, HarnessAssumption DEF HarnessInv, Lengths, Commits
<1> QED  BY <1>4, <1>5, <1>6 DEF HarnessInv

LEMMA WriteInv == HarnessInv /\ Write => HarnessInv'
<1> SUFFICES ASSUME HarnessInv, Write PROVE HarnessInv'
  OBVIOUS
<1>1. PICK n \in 1 .. Size - done :
        /\ file' = Overwrite(file, pos, SubSeq(attempt, done + 1, done + n))
        /\ pos' = pos + n
        /\ done' = done + n
  BY DEF Write
<1> DEFINE d == SubSeq(attempt, done + 1, done + n)
<1>2. /\ file # NoFile /\ file \in Seq(Bytes) /\ before \in Seq(Bytes)
      /\ attempt \in Images /\ done \in Nat /\ pos = done /\ ~clean
      /\ Size \in Nat /\ n \in Nat /\ n >= 1 /\ done + n <= Size
      /\ Len(before) \in Nat /\ Len(before) <= Size
  BY HarnessAssumption
  DEF HarnessInv, Types, Mixed, Lengths, Commits, Write
<1>3. /\ Len(file) = Longer(done, Len(before))
      /\ \A i \in 1 .. Len(file) :
           file[i] = IF i <= done THEN attempt[i] ELSE before[i]
  BY <1>2 DEF HarnessInv, Mixed
<1>4. /\ d \in Seq(Bytes) /\ Len(d) = n
      /\ \A j \in 1 .. n : d[j] = attempt[done + j]
  <2>1. attempt \in Seq(Bytes) /\ Len(attempt) = Size
    BY <1>2, ImageIs
  <2>2. /\ Len(d) = done + n - (done + 1) + 1 /\ d \in Seq(Bytes)
        /\ \A j \in 1 .. done + n - (done + 1) + 1 :
             d[j] = attempt[done + 1 + j - 1]
    BY <1>2, <2>1, SubSeqIs
  <2> HIDE DEF d
  <2>3. done + n - (done + 1) + 1 = n
    BY <1>2
  <2>4. ASSUME NEW j \in 1 .. n
        PROVE  d[j] = attempt[done + j]
    <3>1. done + 1 + j - 1 = done + j
      BY <1>2
    <3> QED  BY <2>2, <2>3, <3>1
  <2> QED  BY <2>2, <2>3, <2>4
<1>5. file' = Overwrite(file, done, d)
  BY <1>1, <1>2
<1> HIDE DEF d
<1>6. done \in 0 .. Len(file)
  BY <1>2, <1>3 DEF Longer
<1>7. /\ file' \in Seq(Bytes)
      /\ Len(file') = Longer(done + n, Len(file))
      /\ \A i \in 1 .. Longer(done + n, Len(file)) :
           file'[i] = IF i <= done THEN file[i]
                      ELSE IF i <= done + n THEN d[i - done] ELSE file[i]
  <2>1. done + Len(d) = done + n
    BY <1>4
  <2>2. /\ file' \in Seq(Bytes)
        /\ Len(file') = Longer(done + Len(d), Len(file))
        /\ \A i \in 1 .. Longer(done + Len(d), Len(file)) :
             file'[i] = IF i <= done THEN file[i]
                        ELSE IF i <= done + Len(d) THEN d[i - done]
                        ELSE file[i]
    <3> DEFINE o == Overwrite(file, done, d)
    <3>1. /\ o \in Seq(Bytes)
          /\ Len(o) = Longer(done + Len(d), Len(file))
          /\ \A i \in 1 .. Longer(done + Len(d), Len(file)) :
               o[i] = IF i <= done THEN file[i]
                      ELSE IF i <= done + Len(d) THEN d[i - done]
                      ELSE file[i]
      <4>1. file \in Seq(Bytes) /\ d \in Seq(Bytes)
        BY <1>2, <1>4
      <4> QED  BY <4>1, <1>6, OverwriteIs
    <3> QED  BY <1>5, <3>1
  <2> QED  BY <2>1, <2>2
<1>8. Longer(done + n, Len(file)) = Longer(done', Len(before))
  BY <1>1, <1>2, <1>3 DEF Longer
<1>9. ASSUME NEW i \in 1 .. Longer(done', Len(before))
      PROVE  file'[i] = IF i <= done' THEN attempt[i] ELSE before[i]
  <2>1. i \in Nat /\ i >= 1
    BY <1>1, <1>2 DEF Longer
  <2>2. CASE i <= done
    <3>1. file'[i] = file[i]
      BY <1>7, <1>8, <2>2
    <3>2. i \in 1 .. Len(file)
      BY <1>2, <1>6, <2>1, <2>2
    <3> QED  BY <1>1, <1>2, <1>3, <2>1, <2>2, <3>1, <3>2
  <2>3. CASE done < i /\ i <= done + n
    <3>1. i - done \in 1 .. n /\ done + (i - done) = i /\ ~(i <= done)
      BY <1>2, <2>1, <2>3
    <3>2. file'[i] = d[i - done]
      BY <1>7, <1>8, <2>3, <3>1
    <3>3. d[i - done] = attempt[done + (i - done)]
      BY <1>4, <3>1
    <3> QED  BY <1>1, <2>3, <3>1, <3>2, <3>3
  <2>4. CASE done + n < i
    <3>1. ~(i <= done) /\ ~(i <= done + n)
      BY <1>2, <2>1, <2>4
    <3>2. file'[i] = file[i]
      BY <1>7, <1>8, <3>1
    <3>3. i \in 1 .. Len(file)
      BY <1>1, <1>2, <1>3, <2>1, <2>4 DEF Longer
    <3> QED  BY <1>1, <1>3, <3>1, <3>2, <3>3
  <2> QED  BY <1>2, <2>1, <2>2, <2>3, <2>4
<1>10. Len(file') <= Size /\ file' # NoFile
  <2>1. Len(file') <= Size
    BY <1>1, <1>2, <1>7, <1>8 DEF Longer
  <2> QED  BY <1>7, <2>1, ShortIsFile
<1>11. /\ clean' = (done' = Size) /\ ever' = (ever \/ clean')
       /\ phase' = (IF clean' THEN "lib" ELSE "commit")
       /\ UNCHANGED <<region, before, attempt>>
  BY DEF Write
<1>12. Mixed'
  BY <1>7, <1>8, <1>9, <1>10, <1>11 DEF Mixed
<1>13. ever' => Len(file') = Size
  <2>1. CASE clean'
    BY <1>1, <1>2, <1>7, <1>8, <1>11, <2>1 DEF Longer
  <2>2. CASE ever
    <3>1. Len(file) = Size
      BY <2>2 DEF HarnessInv, Lengths
    <3> QED  BY <1>2, <1>7, <3>1 DEF Longer
  <2> QED  BY <1>11, <2>1, <2>2
<1>14. Lengths'
  BY <1>2, <1>10, <1>11, <1>13 DEF Lengths
<1>15. Commits'
  <2>1. CASE done' = Size
    BY <1>11, <2>1 DEF Commits
  <2>2. CASE done' # Size
    <3>1. ~clean' /\ phase' = "commit"
      BY <1>11, <2>2
    <3>2. pos' = done' /\ done' < Size
      BY <1>1, <1>2, <2>2
    <3> QED  BY <3>1, <3>2 DEF Commits
  <2> QED  BY <2>1, <2>2
<1>16. Types'
  BY <1>1, <1>2, <1>7, <1>11 DEF HarnessInv, Types, Phases
<1> QED  BY <1>12, <1>14, <1>15, <1>16 DEF HarnessInv

LEMMA HarnessNext ==
  ASSUME HarnessInv, [Next]_vars
  PROVE  HarnessInv'
<1>1. CASE CreateFile
  <2>1. /\ file = NoFile /\ file' = <<>> /\ phase' = "created" /\ phase = "off"
        /\ UNCHANGED <<region, done, before, attempt, clean, ever>>
    BY <1>1 DEF CreateFile, commitVars
  <2>2. before = <<>> /\ done = 0 /\ ~ever /\ Len(<<>>) = 0
    BY <2>1 DEF HarnessInv, Mixed, Lengths
  <2>3. <<>> \in Seq(Bytes) /\ <<>> # NoFile
    <3>1. <<>> \in Seq(Bytes) /\ Len(<<>>) <= Size
      BY HarnessAssumption
    <3> QED  BY <3>1, ShortIsFile
  <2>4. Types'
    BY <2>1, <2>3 DEF HarnessInv, Types, Phases
  <2>5. Mixed'
    BY <2>1, <2>2, <2>3 DEF Mixed, Longer
  <2> QED  BY <2>1, <2>2, <2>4, <2>5
    DEF HarnessInv, Lengths, Commits
<1>2. CASE OpenFile
  BY <1>2, MainStep DEF OpenFile, Phases, HarnessInv, Types
<1>3. CASE InitializeCold
  <2>1. BlankRegion \in Images
    BY HarnessAssumption DEF BlankRegion, Images
  <2>2. file # NoFile
    BY <1>3 DEF InitializeCold, HarnessInv, Mixed
  <2> QED  BY <1>3, <2>1, <2>2, MainStep DEF InitializeCold, Phases
<1>4. CASE InitializeFromFile
  <2>1. file # NoFile
    BY <1>4 DEF InitializeFromFile, HarnessInv, Mixed
  <2>2. file \in Images
    BY <1>4, <2>1 DEF InitializeFromFile, HarnessInv, Types, Images
  <2> QED  BY <1>4, <2>1, <2>2, MainStep DEF InitializeFromFile, Phases
<1>5. CASE InitializeRefused
  <2>1. file # NoFile
    BY <1>5 DEF InitializeRefused, HarnessInv, Mixed
  <2> QED  BY <1>5, <2>1, MainStep
    DEF InitializeRefused, Phases, HarnessInv, Types
<1>6. CASE LibraryWrites
  <2>1. region' \in Images
    BY <1>6 DEF LibraryWrites, HarnessInv, Types, Images
  <2>2. file # NoFile
    BY <1>6 DEF LibraryWrites, HarnessInv, Mixed
  <2> QED  BY <1>6, <2>1, <2>2, MainStep DEF LibraryWrites, Phases
<1>7. CASE Stop
  <2>1. file # NoFile
    BY <1>7 DEF Stop, HarnessInv, Mixed
  <2> QED  BY <1>7, <2>1, MainStep DEF Stop, Phases, HarnessInv, Types
<1>8. CASE CommitFails
  <2>1. file # NoFile
    BY <1>8 DEF CommitFails, HarnessInv, Mixed
  <2> QED  BY <1>8, <2>1, MainStep DEF CommitFails, Phases, HarnessInv, Types
<1>9. CASE UNCHANGED vars
  BY <1>9 DEF vars, commitVars, HarnessInv, Types, Mixed, Lengths, Commits
<1> QED  BY <1>1, <1>2, <1>3, <1>4, <1>5, <1>6, <1>7, <1>8, <1>9,
  CommitStartInv, WriteInv DEF Next

-----------------------------------------------------------------------------
\* The invariant: what is in the file, byte by byte, at every moment
\* (commit_nv_state).
THEOREM HarnessInvariant == Spec => []HarnessInv
<1>1. HarnessInv /\ [Next]_vars => HarnessInv'
  BY HarnessNext
<1> QED  BY <1>1, HarnessInit, PTL DEF Spec

\* A torn commit mixes two images at one place, and adds or moves no byte
\* (commit_nv_state).
THEOREM Splice == Spec => []FileIsSplice
<1>1. ASSUME HarnessInv, file # NoFile
      PROVE  \E k \in 0 .. Size :
        file = SubSeq(attempt, 1, k) \o SubSeq(before, k + 1, Len(before))
  <2> DEFINE head == SubSeq(attempt, 1, done)
             tail == SubSeq(before, done + 1, Len(before))
  <2>1. /\ file \in Seq(Bytes) /\ before \in Seq(Bytes)
        /\ attempt \in Seq(Bytes) /\ Len(attempt) = Size
        /\ done \in 0 .. Size /\ done \in Nat /\ Len(before) \in Nat
        /\ Size \in Nat
    BY <1>1, ImageIs, HarnessAssumption DEF HarnessInv, Types
  <2>2. /\ Len(file) = Longer(done, Len(before))
        /\ \A i \in 1 .. Len(file) :
             file[i] = IF i <= done THEN attempt[i] ELSE before[i]
    BY <1>1 DEF HarnessInv, Mixed
  <2>3. /\ head \in Seq(Bytes) /\ Len(head) = done
        /\ \A i \in 1 .. done : head[i] = attempt[i]
    BY <2>1, SubSeqIs
  <2>4. /\ tail \in Seq(Bytes) /\ Len(tail) = Longer(done, Len(before)) - done
        /\ \A i \in 1 .. Longer(done, Len(before)) - done :
             tail[i] = before[done + i]
    BY <2>1, TailIs
  <2> HIDE DEF head, tail
  <2>5. /\ head \o tail \in Seq(Bytes)
        /\ Len(head \o tail) = done + Len(tail)
        /\ \A i \in 1 .. done : (head \o tail)[i] = head[i]
        /\ \A i \in 1 .. Len(tail) : (head \o tail)[done + i] = tail[i]
    BY <2>3, <2>4, ConcatIs
  <2>6. Longer(done, Len(before)) \in Nat
        /\ Len(file) = done + (Longer(done, Len(before)) - done)
    BY <2>1, <2>2 DEF Longer
  <2>7. Len(file) = Len(head \o tail)
    BY <2>4, <2>5, <2>6
  <2>8. ASSUME NEW i \in 1 .. Len(file)
        PROVE  file[i] = (head \o tail)[i]
    <3>1. i \in Nat /\ i >= 1 /\ i <= Longer(done, Len(before))
      BY <2>2, <2>6
    <3>2. CASE i <= done
      BY <2>1, <2>2, <2>3, <2>5, <3>1, <3>2
    <3>3. CASE done < i
      <4>1. i - done \in 1 .. Len(tail) /\ done + (i - done) = i
            /\ ~(i <= done)
        BY <2>1, <2>4, <2>6, <3>1, <3>3
      <4>2. tail[i - done] = before[done + (i - done)]
        BY <2>4, <4>1
      <4>3. (head \o tail)[done + (i - done)] = tail[i - done]
        BY <2>5, <4>1
      <4> QED  BY <2>2, <4>1, <4>2, <4>3
    <3>4. i <= done \/ done < i
      BY <2>1, <3>1
    <3> QED  BY <3>2, <3>3, <3>4
  <2>9. file = head \o tail
    BY <2>1, <2>5, <2>7, <2>8, SeqEqual
  <2> QED  BY <2>1, <2>9 DEF head, tail
<1>2. HarnessInv => FileIsSplice
  BY <1>1 DEF FileIsSplice
<1> QED  BY <1>2, HarnessInvariant, PTL

\* What a commit wrote, when it returned Ok, is what the next start loads
\* (commit_nv_state and main).
THEOREM LoadsCommitted == Spec => CommittedIsLoaded
<1>1. ASSUME HarnessInv, InitializeFromFile, clean
      PROVE  region' = attempt
  <2>1. file # NoFile /\ region' = file
    BY <1>1 DEF InitializeFromFile, HarnessInv, Mixed
  <2>2. /\ file \in Seq(Bytes) /\ attempt \in Seq(Bytes)
        /\ Len(attempt) = Size /\ done = Size /\ Len(file) = Size
    BY <1>1, <2>1, ImageIs
    DEF InitializeFromFile, HarnessInv, Types, Commits
  <2>3. \A i \in 1 .. Len(file) : file[i] = attempt[i]
    BY <2>1, <2>2, HarnessAssumption, <1>1 DEF HarnessInv, Mixed
  <2> QED  BY <2>1, <2>2, <2>3, SeqEqual
<1>2. HarnessInv /\ [Next]_vars
        => [InitializeFromFile /\ clean => region' = attempt]_vars
  BY <1>1
<1> QED  BY <1>2, HarnessInvariant, PTL DEF Spec, CommittedIsLoaded

\* No commit that a crash cuts off makes a later start fail, once one commit
\* has returned Ok (commit_nv_state and main).
THEOREM AlwaysStarts == Spec => CommittedOnceAlwaysStarts
<1>1. HarnessInv /\ [Next]_vars => [ever => ~InitializeRefused]_vars
  BY DEF HarnessInv, Lengths, InitializeRefused
<1> QED  BY <1>1, HarnessInvariant, PTL DEF Spec, CommittedOnceAlwaysStarts

-----------------------------------------------------------------------------
\* The bytes that one write stores, and the file after it.
LEMMA WriteStores ==
  ASSUME HarnessInv, Write
  PROVE  \E n \in 1 .. Size - done :
           /\ done' = done + n /\ done \in Nat
           /\ file \in Seq(Bytes) /\ file' \in Seq(Bytes)
           /\ Len(file') = Longer(done + n, Len(file))
<1>1. /\ phase = "commit" /\ pos = done /\ done \in Nat /\ done < Size
      /\ Size \in Nat /\ attempt \in Seq(Bytes) /\ Len(attempt) = Size
  BY HarnessAssumption, ImageIs DEF Write, HarnessInv, Types, Commits
<1>2. PICK n \in 1 .. Size - done :
        /\ file' = Overwrite(file, pos, SubSeq(attempt, done + 1, done + n))
        /\ done' = done + n
  BY DEF Write
<1> DEFINE d == SubSeq(attempt, done + 1, done + n)
<1>3. file \in Seq(Bytes) /\ done <= Len(file)
  BY <1>1 DEF HarnessInv, Types, Mixed, Longer
<1>4. d \in Seq(Bytes) /\ Len(d) = n
  <2>1. /\ done + 1 \in Nat \ {0} /\ done + n \in Nat
        /\ done + n <= Len(attempt) /\ done + 1 <= done + n + 1
    BY <1>1, <1>2
  <2>2. d \in Seq(Bytes) /\ Len(d) = done + n - (done + 1) + 1
    BY <1>1, <2>1, SubSeqIs
  <2> QED
    BY <1>1, <1>2, <2>2
<1>5. file' = Overwrite(file, done, d)
  BY <1>1, <1>2
<1> HIDE DEF d
<1>6. done \in 0 .. Len(file)
  BY <1>1, <1>3
<1>7. file' \in Seq(Bytes) /\ Len(file') = Longer(done + Len(d), Len(file))
  BY <1>3, <1>4, <1>5, <1>6, OverwriteIs
<1> QED
  BY <1>1, <1>2, <1>3, <1>4, <1>7

\* While it lasts, every step of commit_nv_state stores more of the image, of
\* which there are Size bytes: why CommitReturns needs no more than that the
\* operating system answers.  (main.rs:25-30)
CommitAdvances ==
  [][phase = "commit" /\ phase' = "commit"
       => done < done' /\ done' <= Size]_vars

\* No start, commit, failure or crash takes a byte off the file: a file that is
\* refused is too short for good, until a commit reaches its end.  (main.rs)
FileNeverShrinks ==
  [][file # NoFile => file' # NoFile /\ Len(file) <= Len(file')]_vars

\* A commit takes at most Size writes, however the operating system cuts them.
THEOREM CommitTerminates == Spec => CommitAdvances
<1>1. ASSUME HarnessInv, Next, phase = "commit", phase' = "commit"
      PROVE  done < done' /\ done' <= Size
  <2>1. Write
    BY <1>1
       DEF Next, CreateFile, OpenFile, InitializeCold, InitializeFromFile,
           InitializeRefused, LibraryWrites, Stop, CommitStart, CommitFails
  <2> QED
    BY <1>1, <2>1, WriteStores, HarnessAssumption
<1>2. HarnessInv /\ [Next]_vars
        => [phase = "commit" /\ phase' = "commit"
              => done < done' /\ done' <= Size]_vars
  BY <1>1
<1> QED  BY <1>2, HarnessInvariant, PTL DEF Spec, CommitAdvances

\* What is in the file may be torn, but nothing is cut off it.
THEOREM NeverShrinks == Spec => FileNeverShrinks
<1>1. ASSUME HarnessInv, HarnessInv', Next, file # NoFile
      PROVE  file' # NoFile /\ Len(file) <= Len(file')
  <2>1. CASE Write
    <3>1. PICK n \in 1 .. Size - done :
            /\ done \in Nat /\ Len(file') = Longer(done + n, Len(file))
            /\ file \in Seq(Bytes)
      BY <1>1, <2>1, WriteStores
    <3>2. Len(file) <= Len(file')
      BY <3>1, HarnessAssumption DEF Longer
    <3>3. file' # NoFile
      BY <1>1, <2>1 DEF Write, HarnessInv, Mixed, Types, Commits
    <3> QED
      BY <3>2, <3>3
  <2>2. CASE ~Write
    <3>1. file' = file
      BY <1>1, <2>2
         DEF Next, CreateFile, OpenFile, InitializeCold, InitializeFromFile,
             InitializeRefused, LibraryWrites, Stop, CommitStart, CommitFails
    <3>2. Len(file) \in Nat
      BY <1>1 DEF HarnessInv, Types
    <3> QED
      BY <1>1, <3>1, <3>2
  <2> QED
    BY <2>1, <2>2
<1>2. HarnessInv /\ HarnessInv' /\ [Next]_vars
        => [file # NoFile => file' # NoFile /\ Len(file) <= Len(file')]_vars
  BY <1>1
<1> QED  BY <1>2, HarnessInvariant, PTL DEF Spec, FileNeverShrinks
=============================================================================
