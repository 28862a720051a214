-------------------------- MODULE Components_proofs --------------------------
(***************************************************************************)
(* Theorems about components and media: the tables are well formed, every  *)
(* media row with a file has one, and no version loses an edit.            *)
(***************************************************************************)
EXTENDS Components, WellFoundedInduction, TLAPS

\* The tables are functions on what they are keyed by.
Shape ==
    /\ ComponentsTypeOK
    /\ DOMAIN versions = ComponentIds
    /\ DOMAIN calls = Callers

\* A media row with a file has it, a whole one where storage overwrites.
MediaHaveFiles ==
    \A m \in DOMAIN media : media[m].has_file =>
        IF overwrites THEN files[PathOf(m)] = "whole" ELSE files[PathOf(m)] # "none"

\* What a call has read is still there, unless its package is not.
CallOK(call) ==
    /\ call.component \in ComponentIds
    /\ call.last \in Nat /\ call.number \in 1 .. MaxVersion
    /\ DOMAIN call.delta \subseteq Paths
    /\ call.forced = 0 => call.number = call.last + 1
    /\ PackageOf[call.component] \in packages =>
          /\ call.component \in components
          /\ call.last = 0 \/ call.last \in DOMAIN versions[call.component]

CallsOK == \A k \in Callers : calls[k] # NoCall => CallOK(calls[k])

Inv == Shape /\ MediaHaveFiles /\ CallsOK

-----------------------------------------------------------------------------
(* Files                                                                   *)

\* What happens to files never makes one worse.
Better(fs, gs) ==
    /\ gs \in [Packages \X Contents -> {"none", "partial", "whole"}]
    /\ \A x \in Packages \X Contents :
          /\ fs[x] # "none" => gs[x] # "none"
          /\ fs[x] = "whole" => gs[x] = "whole"

\* Writing files makes them better, and leaves a whole one at every path if
\* storage overwrites, something at least if it does not.
LEMMA WriteFilesBetter ==
    ASSUME NEW fs \in [Packages \X Contents -> {"none", "partial", "whole"}],
           NEW ms
    PROVE  /\ Better(fs, WriteFiles(fs, ms))
           /\ \A m \in ms : PathOf(m) \in Packages \X Contents =>
                 IF overwrites THEN WriteFiles(fs, ms)[PathOf(m)] = "whole"
                               ELSE WriteFiles(fs, ms)[PathOf(m)] # "none"
  BY DEF WriteFiles, Better

\* Nor does a write that is cut short make any file worse.
LEMMA CutShortBetter ==
    ASSUME NEW fs \in [Packages \X Contents -> {"none", "partial", "whole"}], NEW m
    PROVE  Better(fs, CutShort(fs, m))
  BY DEF CutShort, Better

\* Rows keep their files when files only get better.
LEMMA KeptFiles ==
    ASSUME Shape, MediaHaveFiles, Better(files, files'),
           overwrites' = overwrites,
           \A m \in DOMAIN media' : m \in DOMAIN media /\ media'[m] = media[m]
    PROVE  MediaHaveFiles'
<1>1. ASSUME NEW m \in DOMAIN media', media'[m].has_file
      PROVE  IF overwrites' THEN files'[PathOf(m)] = "whole" ELSE files'[PathOf(m)] # "none"
  <2>1. PathOf(m) \in Packages \X Contents
    BY DEF Shape, ComponentsTypeOK, PathOf, MediaKey
  <2>2. media[m].has_file /\ m \in DOMAIN media
    BY <1>1
  <2>. QED  BY <2>1, <2>2, <1>1 DEF MediaHaveFiles, Better
<1>. QED  BY <1>1 DEF MediaHaveFiles, PathOf

-----------------------------------------------------------------------------
(* Versions                                                                *)

\* The media of a version that is saved are typed, have rows, and have files.
LEMMA SaveVersionKeeps ==
    ASSUME Shape, MediaHaveFiles,
           NEW c \in ComponentIds, NEW n \in 1 .. MaxVersion, NEW given,
           DOMAIN given \subseteq Paths,
           PackageOf[c] \in packages, Acceptable(c, given),
           SaveVersion(c, n, given),
           c \in components', components' \subseteq components \cup {c},
           components \subseteq components',
           UNCHANGED <<packages, overwrites>>, DOMAIN calls' = Callers
    PROVE  Shape' /\ MediaHaveFiles'
<1>1. /\ DOMAIN media' = DOMAIN media \cup NewMedia(c, given)
      /\ \A m \in DOMAIN media : media'[m] = media[m]
      /\ \A m \in NewMedia(c, given) : media'[m] = AsFile
      /\ files' = WriteFiles(files, NewMedia(c, given))
      /\ DOMAIN versions' = ComponentIds
      /\ \A d \in ComponentIds \ {c} : versions'[d] = versions[d]
      /\ DOMAIN versions'[c] = DOMAIN versions[c] \cup {n}
      /\ \A x \in DOMAIN versions[c] \ {n} : versions'[c][x] = versions[c][x]
      /\ versions'[c][n] = [path \in DOMAIN given |-> KeyFor(c, path, given[path])]
  BY DEF SaveVersion, Shape, NewMedia
<1>2. \A m \in NewMedia(c, given) : m \in MediaKey /\ m.package \in packages
  BY ComponentsAssumption DEF NewMedia, KeyFor, IsBytes, Key, MediaKey, Types
<1>3. \A path \in DOMAIN given : KeyFor(c, path, given[path]) \in DOMAIN media'
  BY <1>1 DEF Acceptable, NewMedia, KeyFor
<1>4. files \in [Packages \X Contents -> {"none", "partial", "whole"}]
  BY DEF Shape, ComponentsTypeOK
<1>5. Better(files, files')
  BY <1>1, <1>4, WriteFilesBetter
<1>6. Shape'
  <2>1. components' \subseteq {d \in ComponentIds : PackageOf[d] \in packages'}
    BY DEF Shape, ComponentsTypeOK
  <2>2. DOMAIN media' \subseteq {m \in MediaKey : m.package \in packages'}
    BY <1>1, <1>2 DEF Shape, ComponentsTypeOK
  <2>3. \A m \in DOMAIN media' : media'[m] \in Stored /\ (media'[m].text \/ media'[m].has_file)
    <3>1. AsFile \in Stored /\ AsFile.has_file
      BY DEF AsFile, Stored
    <3>2. \A m \in DOMAIN media : media[m] \in Stored /\ (media[m].text \/ media[m].has_file)
      BY DEF Shape, ComponentsTypeOK
    <3>. QED  BY <1>1, <3>1, <3>2
  <2>4. ASSUME NEW d \in ComponentIds, NEW x \in DOMAIN versions'[d]
        PROVE  /\ d \in components' /\ x \in 1 .. MaxVersion
               /\ \A path \in DOMAIN versions'[d][x] :
                    path \in Paths \ BadPaths /\ versions'[d][x][path] \in DOMAIN media'
    <3>1. CASE d = c /\ x = n
      BY <1>1, <1>3, <3>1 DEF Acceptable
    <3>2. CASE ~ (d = c /\ x = n)
      <4>1. x \in DOMAIN versions[d] /\ versions'[d][x] = versions[d][x]
        BY <1>1, <3>2, <2>4
      <4>. QED  BY <4>1, <1>1 DEF Shape, ComponentsTypeOK
    <3>. QED  BY <3>1, <3>2
  <2>. QED  BY <2>1, <2>2, <2>3, <2>4, <1>1, <1>5 DEF Shape, ComponentsTypeOK, Better
<1>7. ASSUME NEW m \in DOMAIN media', media'[m].has_file
      PROVE  IF overwrites' THEN files'[PathOf(m)] = "whole" ELSE files'[PathOf(m)] # "none"
  <2>1. m \in MediaKey /\ PathOf(m) \in Packages \X Contents
    BY <1>6 DEF Shape, ComponentsTypeOK, PathOf, MediaKey
  <2>2. CASE m \in NewMedia(c, given)
    <3>1. /\ overwrites' = overwrites
          /\ files' = WriteFiles(files, NewMedia(c, given))
      BY <1>1
    <3>2. IF overwrites THEN WriteFiles(files, NewMedia(c, given))[PathOf(m)] = "whole"
                        ELSE WriteFiles(files, NewMedia(c, given))[PathOf(m)] # "none"
      BY <1>4, <2>1, <2>2, WriteFilesBetter
    <3>. QED  BY <3>1, <3>2
  <2>3. CASE m \in DOMAIN media
    <3>1. media[m].has_file
      BY <1>1, <1>7, <2>3
    <3>2. IF overwrites THEN files[PathOf(m)] = "whole" ELSE files[PathOf(m)] # "none"
      BY <3>1, <2>3 DEF MediaHaveFiles
    <3>. QED  BY <3>2, <2>1, <1>5 DEF Better
  <2>. QED  BY <1>1, <2>2, <2>3
<1>. QED  BY <1>6, <1>7 DEF MediaHaveFiles, PathOf

-----------------------------------------------------------------------------
(* Each operation keeps the invariant.                                     *)

LEMMA InitInv == Init => Inv
<1>1. ASSUME Init PROVE Shape
  BY <1>1 DEF Init, Shape, ComponentsTypeOK
<1>. QED  BY <1>1 DEF Init, Inv, MediaHaveFiles, CallsOK

\* Calls in progress do not mind new components, media and versions.
LEMMA CallsKept ==
    ASSUME CallsOK, components \subseteq components',
           \A c \in ComponentIds : DOMAIN versions[c] \subseteq DOMAIN versions'[c],
           packages' = packages,
           \A k \in Callers : calls'[k] \in {calls[k], NoCall}
    PROVE  CallsOK'
<1>1. ASSUME NEW k \in Callers, calls'[k] # NoCall PROVE CallOK(calls[k])'
  <2>1. calls'[k] = calls[k] /\ CallOK(calls[k])
    BY <1>1 DEF CallsOK
  <2>. QED  BY <2>1 DEF CallOK
<1>. QED  BY <1>1 DEF CallsOK

\* A new media row and its file, or a file that is left behind.
LEMMA MediaInv ==
    ASSUME Inv, NEW p \in Packages, NEW type \in Types, NEW content \in Contents,
           NEW flag \in BOOLEAN,
           \/ GetOrCreateTextMedia(p, type, content, flag)
           \/ GetOrCreateFileMedia(p, type, content)
           \/ MediaInterrupted(p, type, content, flag)
    PROVE  Inv'
<1>. DEFINE m == Key(p, type, content)
<1>. USE DEF Inv
<1>0. /\ m \in MediaKey /\ m.package = p /\ p \in packages
      /\ UNCHANGED <<packages, components, versions, overwrites, calls>>
      /\ PathOf(m) \in Packages \X Contents
  BY DEF Key, MediaKey, PathOf, GetOrCreateTextMedia, GetOrCreateFileMedia, MediaInterrupted
<1>1. files \in [Packages \X Contents -> {"none", "partial", "whole"}]
  BY DEF Shape, ComponentsTypeOK
<1>2. CallsOK'
  BY <1>0, CallsKept DEF Shape
<1>3. ASSUME NEW stored \in Stored, stored.text \/ stored.has_file,
             media' = WithRow(media, m, stored), m \notin DOMAIN media,
             files' = IF stored.has_file THEN WriteFiles(files, {m}) ELSE files
      PROVE  Shape' /\ MediaHaveFiles'
  <2>1. /\ DOMAIN media' = DOMAIN media \cup {m} /\ media'[m] = stored
        /\ \A x \in DOMAIN media : media'[x] = media[x]
    BY <1>3 DEF WithRow
  <2>2. Better(files, files')
    BY <1>1, <1>3, WriteFilesBetter DEF Better
  <2>3. Shape'
    <3>1. /\ DOMAIN versions' = ComponentIds /\ DOMAIN calls' = Callers
          /\ components' \subseteq {c \in ComponentIds : PackageOf[c] \in packages'}
      BY <1>0 DEF Shape, ComponentsTypeOK
    <3>2. DOMAIN media' \subseteq {x \in MediaKey : x.package \in packages'}
      BY <1>0, <2>1 DEF Shape, ComponentsTypeOK
    <3>3. \A x \in DOMAIN media' : media'[x] \in Stored /\ (media'[x].text \/ media'[x].has_file)
      BY <1>3, <2>1 DEF Shape, ComponentsTypeOK
    <3>4. \A c \in ComponentIds : \A n \in DOMAIN versions'[c] :
             /\ c \in components' /\ n \in 1 .. MaxVersion
             /\ \A path \in DOMAIN versions'[c][n] :
                   path \in Paths \ BadPaths /\ versions'[c][n][path] \in DOMAIN media'
      BY <1>0, <2>1 DEF Shape, ComponentsTypeOK
    <3>. QED  BY <2>2, <3>1, <3>2, <3>3, <3>4 DEF Shape, ComponentsTypeOK, Better
  <2>4. ASSUME NEW x \in DOMAIN media', media'[x].has_file
        PROVE  IF overwrites' THEN files'[PathOf(x)] = "whole" ELSE files'[PathOf(x)] # "none"
    <3>1. PathOf(x) \in Packages \X Contents
      BY <2>3 DEF Shape, ComponentsTypeOK, PathOf, MediaKey
    <3>2. CASE x = m
      <4>1. files' = WriteFiles(files, {m})
        BY <1>3, <2>1, <2>4, <3>2
      <4>2. IF overwrites THEN WriteFiles(files, {m})[PathOf(m)] = "whole"
                          ELSE WriteFiles(files, {m})[PathOf(m)] # "none"
        BY <1>0, <1>1, WriteFilesBetter
      <4>. QED  BY <1>0, <3>2, <4>1, <4>2
    <3>3. CASE x \in DOMAIN media
      <4>1. IF overwrites THEN files[PathOf(x)] = "whole" ELSE files[PathOf(x)] # "none"
        BY <2>1, <2>4, <3>3 DEF MediaHaveFiles
      <4>. QED  BY <1>0, <2>2, <3>1, <4>1 DEF Better
    <3>. QED  BY <2>1, <3>2, <3>3
  <2>. QED  BY <2>3, <2>4 DEF MediaHaveFiles, PathOf
<1>4. CASE GetOrCreateTextMedia(p, type, content, flag)
  <2>1. AsText(flag) \in Stored /\ AsText(flag).text /\ AsText(flag).has_file = flag
    BY DEF AsText, Stored
  <2>. QED  BY <1>2, <1>3, <1>4, <2>1 DEF GetOrCreateTextMedia
<1>5. CASE GetOrCreateFileMedia(p, type, content)
  <2>1. AsFile \in Stored /\ AsFile.has_file
    BY DEF AsFile, Stored
  <2>. QED  BY <1>2, <1>3, <1>5, <2>1 DEF GetOrCreateFileMedia
<1>6. CASE MediaInterrupted(p, type, content, flag)
  <2>1. media' = media /\ files' \in {WriteFiles(files, {m}), CutShort(files, m)}
    BY <1>6 DEF MediaInterrupted
  <2>2. Better(files, files')
    BY <1>1, <2>1, WriteFilesBetter, CutShortBetter
  <2>3. Shape'
    BY <1>0, <2>1, <2>2 DEF Shape, ComponentsTypeOK, Better
  <2>. QED  BY <1>0, <1>2, <2>1, <2>2, <2>3, KeptFiles
<1>. QED  BY <1>4, <1>5, <1>6

\* Version numbers are bounded, so there is a greatest.
LEMMA LatestIsGreatest ==
    ASSUME Shape, NEW c \in ComponentIds
    PROVE  /\ Latest(c) \in Nat
           /\ Latest(c) = 0 \/ Latest(c) \in DOMAIN versions[c]
           /\ \A x \in DOMAIN versions[c] : x <= Latest(c)
<1>1. DOMAIN versions[c] \subseteq 1 .. MaxVersion /\ MaxVersion \in Nat
  BY ComponentsAssumption DEF Shape, ComponentsTypeOK
<1>2. CASE DOMAIN versions[c] = {}
  BY <1>2 DEF Latest
<1>3. CASE DOMAIN versions[c] # {}
  <2>1. \E x \in DOMAIN versions[c] : \A y \in DOMAIN versions[c] : x >= y
    <3>. DEFINE S == DOMAIN versions[c]
                T == {MaxVersion - x : x \in S}
    <3>1. T \subseteq Nat /\ T # {}
      BY <1>1, <1>3
    <3>2. PICK t \in T : \A u \in T : ~ (<<u, t>> \in OpToRel(<, Nat))
      BY <3>1, NatLessThanWellFounded, WFMin, Zenon
    <3>3. PICK x \in S : t = MaxVersion - x
      BY <3>2
    <3>4. \A y \in S : ~ (MaxVersion - y < MaxVersion - x)
      BY <1>1, <3>1, <3>2, <3>3 DEF OpToRel
    <3>. QED  BY <1>1, <3>3, <3>4
  <2>. QED  BY <1>1, <1>3, <2>1 DEF Latest, Max
<1>. QED  BY <1>2, <1>3

LEMMA CreateComponentInv ==
    ASSUME Inv, NEW c \in ComponentIds, CreateComponent(c)
    PROVE  Inv'
<1>1. Shape'
  BY DEF CreateComponent, Inv, Shape, ComponentsTypeOK
<1>2. MediaHaveFiles'
  BY DEF CreateComponent, Inv, MediaHaveFiles, PathOf
<1>3. CallsOK'
  BY CallsKept DEF CreateComponent, Inv, Shape
<1>. QED  BY <1>1, <1>2, <1>3 DEF Inv

\* A rolled back version leaves files, none of them worse.
LEMMA VersionInterruptedBetter ==
    ASSUME Shape, NEW c, NEW given, VersionInterrupted(c, given)
    PROVE  Better(files, files')
<1>1. files \in [Packages \X Contents -> {"none", "partial", "whole"}]
  BY DEF Shape, ComponentsTypeOK
<1>2. PICK written \in SUBSET NewMedia(c, given), cut \in NewMedia(c, given) \cup {NoMedia} :
         files' = IF cut \in NewMedia(c, given) \ written
                  THEN CutShort(WriteFiles(files, written), cut)
                  ELSE WriteFiles(files, written)
  BY DEF VersionInterrupted
<1>3. Better(files, WriteFiles(files, written))
  BY <1>1, WriteFilesBetter
<1>4. Better(WriteFiles(files, written), CutShort(WriteFiles(files, written), cut))
  BY <1>3, CutShortBetter DEF Better
<1>. QED  BY <1>2, <1>3, <1>4 DEF Better

\* All that changes is that files get better and calls end.
LEMMA OnlyFilesInv ==
    ASSUME Inv, Better(files, files'),
           UNCHANGED <<packages, components, versions, media, overwrites>>,
           DOMAIN calls' = Callers,
           \A k \in Callers : calls'[k] \in {calls[k], NoCall}
    PROVE  Inv'
<1>1. Shape'
  BY DEF Inv, Shape, ComponentsTypeOK, Better
<1>2. MediaHaveFiles'
  BY KeptFiles DEF Inv
<1>3. CallsOK'
  BY CallsKept DEF Inv
<1>. QED  BY <1>1, <1>2, <1>3 DEF Inv

\* A version is saved, perhaps with its component, and calls end.
LEMMA SaveVersionInv ==
    ASSUME Inv,
           NEW c \in ComponentIds, NEW n \in 1 .. MaxVersion, NEW given,
           DOMAIN given \subseteq Paths,
           PackageOf[c] \in packages, Acceptable(c, given),
           SaveVersion(c, n, given),
           c \in components', components' \subseteq components \cup {c},
           components \subseteq components',
           UNCHANGED <<packages, overwrites>>, DOMAIN calls' = Callers,
           \A k \in Callers : calls'[k] \in {calls[k], NoCall}
    PROVE  Inv'
<1>1. Shape' /\ MediaHaveFiles'
  BY SaveVersionKeeps DEF Inv
<1>2. \A d \in ComponentIds : DOMAIN versions[d] \subseteq DOMAIN versions'[d]
  BY DEF SaveVersion, Inv, Shape
<1>3. CallsOK'
  BY <1>2, CallsKept DEF Inv
<1>. QED  BY <1>1, <1>3 DEF Inv

\* Inputs name paths.
LEMMA DeltaPaths ==
    ASSUME NEW delta \in DeltaNow
    PROVE  DOMAIN delta \subseteq Paths /\ DOMAIN Given(delta) \subseteq Paths
<1>1. CASE delta \in Deltas
  BY <1>1, ComponentsAssumption DEF Given
<1>2. ASSUME NEW path \in MediaPaths, delta \in [{path} -> DOMAIN media]
      PROVE  DOMAIN delta \subseteq Paths /\ DOMAIN Given(delta) \subseteq Paths
  <2>1. DOMAIN delta = {path} /\ path \in Paths
    BY <1>2, ComponentsAssumption
  <2>. QED  BY <2>1 DEF Given
<1>. QED  BY <1>1, <1>2 DEF DeltaNow

LEMMA CreateComponentAndVersionInv ==
    ASSUME Inv, NEW c \in ComponentIds, NEW delta \in DeltaNow,
           CreateComponentAndVersion(c, Given(delta))
    PROVE  Inv'
<1>1. DOMAIN Given(delta) \subseteq Paths /\ 1 \in 1 .. MaxVersion
  BY DeltaPaths, ComponentsAssumption
<1>2. DOMAIN calls' = Callers /\ \A k \in Callers : calls'[k] \in {calls[k], NoCall}
  BY DEF CreateComponentAndVersion, Inv, Shape
<1>3. CASE Acceptable(c, Given(delta))
  BY <1>1, <1>2, <1>3, SaveVersionInv DEF CreateComponentAndVersion
<1>4. CASE ~ Acceptable(c, Given(delta))
  <2>1. Better(files, files')
    BY <1>4, VersionInterruptedBetter DEF CreateComponentAndVersion, Inv
  <2>. QED  BY <1>2, <1>4, <2>1, OnlyFilesInv DEF CreateComponentAndVersion
<1>. QED  BY <1>3, <1>4

LEMMA CreateComponentVersionInv ==
    ASSUME Inv, NEW c \in ComponentIds, NEW delta \in DeltaNow, NEW n \in Numbers,
           CreateComponentVersion(c, n, Given(delta))
    PROVE  Inv'
<1>1. DOMAIN Given(delta) \subseteq Paths /\ n \in 1 .. MaxVersion
  BY DeltaPaths, ComponentsAssumption
<1>2. c \in components /\ PackageOf[c] \in packages /\ Acceptable(c, Given(delta))
  BY DEF CreateComponentVersion, MayCommit, Inv, Shape, ComponentsTypeOK
<1>. QED  BY <1>1, <1>2, SaveVersionInv DEF CreateComponentVersion, Inv, Shape

LEMMA CreateNextVersionInv ==
    ASSUME Inv, NEW k \in Callers, NEW c \in ComponentIds, NEW delta \in DeltaNow,
           NEW n \in Numbers \cup {0}, NEW ignore \in BOOLEAN,
           CreateNextVersion(k, c, delta, n, ignore)
    PROVE  Inv'
<1>1. PICK last \in Nat, number \in 1 .. MaxVersion :
         /\ c \in components
         /\ last = 0 \/ last \in DOMAIN versions[c]
         /\ n = 0 => number = last + 1
         /\ calls' = [calls EXCEPT ![k] =
               [component |-> c, last |-> last, number |-> number, delta |-> delta,
                forced |-> n, ignore |-> ignore]]
         /\ UNCHANGED <<packages, components, versions, media, files, overwrites>>
  <2>1. /\ Latest(c) \in Nat
        /\ Latest(c) = 0 \/ Latest(c) \in DOMAIN versions[c]
    BY LatestIsGreatest DEF Inv
  <2>2. CASE n = 0
    <3>1. Latest(c) + 1 \in 1 .. MaxVersion
      BY <2>1, <2>2, ComponentsAssumption DEF CreateNextVersion
    <3>. QED  BY <2>1, <2>2, <3>1 DEF CreateNextVersion
  <2>3. CASE n # 0
    <3>1. n \in 1 .. MaxVersion
      BY <2>3, ComponentsAssumption
    <3>. QED  BY <2>1, <2>3, <3>1 DEF CreateNextVersion
  <2>. QED  BY <2>2, <2>3
<1>2. DOMAIN calls' = Callers
  BY <1>1 DEF Inv, Shape
<1>3. Shape' /\ MediaHaveFiles'
  BY <1>1, <1>2 DEF Inv, Shape, ComponentsTypeOK, MediaHaveFiles, PathOf
<1>4. ASSUME NEW j \in Callers, calls'[j] # NoCall PROVE CallOK(calls[j])'
  <2>1. CASE j = k
    <3>1. calls'[j] = [component |-> c, last |-> last, number |-> number,
                       delta |-> delta, forced |-> n, ignore |-> ignore]
      BY <1>1, <2>1 DEF Inv, Shape
    <3>2. DOMAIN delta \subseteq Paths
      BY DeltaPaths
    <3>3. /\ calls'[j].component = c /\ calls'[j].last = last
          /\ calls'[j].number = number /\ calls'[j].delta = delta /\ calls'[j].forced = n
      BY <3>1
    <3>. QED  BY <1>1, <3>2, <3>3 DEF CallOK
  <2>2. CASE j # k
    <3>1. calls'[j] = calls[j] /\ CallOK(calls[j])
      BY <1>1, <1>4, <2>2 DEF Inv, Shape, CallsOK
    <3>. QED  BY <1>1, <3>1 DEF CallOK
  <2>. QED  BY <2>1, <2>2
<1>. QED  BY <1>3, <1>4 DEF Inv, CallsOK

\* What a call merges names paths.
LEMMA MergedPaths ==
    ASSUME Inv, NEW k \in Callers, calls[k] # NoCall
    PROVE  DOMAIN Merged(calls[k]) \subseteq Paths
<1>. DEFINE call == calls[k]
<1>1. CallOK(call)
  BY DEF Inv, CallsOK
<1>2. DOMAIN Previous(call) \subseteq Paths
  BY <1>1 DEF Previous, CallOK, Inv, Shape, ComponentsTypeOK
<1>. QED  BY <1>1, <1>2 DEF Merged, Given, CallOK

LEMMA FinishNextVersionInv ==
    ASSUME Inv, NEW k \in Callers, FinishNextVersion(k)
    PROVE  Inv'
<1>. DEFINE call == calls[k]
            given == Merged(call)
<1>1. /\ call # NoCall /\ CallOK(call)
      /\ DOMAIN calls' = Callers
      /\ \A j \in Callers : calls'[j] \in {calls[j], NoCall}
      /\ UNCHANGED <<packages, components, overwrites>>
  BY DEF FinishNextVersion, Inv, Shape, CallsOK
<1>2. CASE MayCommit(call.component, call.number, given)
  <2>1. SaveVersion(call.component, call.number, given)
    BY <1>2 DEF FinishNextVersion, NumberOf
  <2>2. /\ call.component \in components /\ Acceptable(call.component, given)
        /\ call.component \in ComponentIds /\ call.number \in 1 .. MaxVersion
        /\ PackageOf[call.component] \in packages
    BY <1>1, <1>2 DEF MayCommit, CallOK, Inv, Shape, ComponentsTypeOK
  <2>3. DOMAIN given \subseteq Paths
    BY <1>1, MergedPaths
  <2>. HIDE DEF call, given
  <2>. QED  BY <1>1, <2>1, <2>2, <2>3, SaveVersionInv
<1>3. CASE ~ MayCommit(call.component, call.number, given)
  <2>1. UNCHANGED <<versions, media, files>>
    BY <1>3 DEF FinishNextVersion, NumberOf
  <2>2. Better(files, files')
    BY <2>1 DEF Better, Inv, Shape, ComponentsTypeOK
  <2>. QED  BY <1>1, <2>1, <2>2, OnlyFilesInv
<1>. QED  BY <1>2, <1>3

LEMMA NextVersionInterruptedInv ==
    ASSUME Inv, NEW k \in Callers, NextVersionInterrupted(k)
    PROVE  Inv'
<1>1. Better(files, files')
  BY VersionInterruptedBetter DEF NextVersionInterrupted, Inv
<1>2. DOMAIN calls' = Callers /\ \A j \in Callers : calls'[j] \in {calls[j], NoCall}
  BY DEF NextVersionInterrupted, Inv, Shape
<1>. QED  BY <1>1, <1>2, OnlyFilesInv DEF NextVersionInterrupted

LEMMA DeletePackageInv ==
    ASSUME Inv, NEW p \in Packages, DeletePackage(p)
    PROVE  Inv'
<1>1. /\ packages' = packages \ {p}
      /\ components' = {c \in components : PackageOf[c] # p}
      /\ DOMAIN versions' = ComponentIds
      /\ \A c \in ComponentIds : PackageOf[c] = p => DOMAIN versions'[c] = {}
      /\ \A c \in ComponentIds : PackageOf[c] # p => versions'[c] = versions[c]
      /\ DOMAIN media' = {m \in DOMAIN media : m.package # p}
      /\ \A m \in DOMAIN media' : media'[m] = media[m]
      /\ UNCHANGED <<files, overwrites, calls>>
  BY DEF DeletePackage
<1>2. Shape'
  <2>1. components' \subseteq {c \in ComponentIds : PackageOf[c] \in packages'}
    BY <1>1 DEF Inv, Shape, ComponentsTypeOK
  <2>2. DOMAIN media' \subseteq {m \in MediaKey : m.package \in packages'}
    BY <1>1 DEF Inv, Shape, ComponentsTypeOK
  <2>3. \A m \in DOMAIN media' : media'[m] \in Stored /\ (media'[m].text \/ media'[m].has_file)
    BY <1>1 DEF Inv, Shape, ComponentsTypeOK
  <2>4. ASSUME NEW c \in ComponentIds, NEW n \in DOMAIN versions'[c]
        PROVE  /\ c \in components' /\ n \in 1 .. MaxVersion
               /\ \A path \in DOMAIN versions'[c][n] :
                     path \in Paths \ BadPaths /\ versions'[c][n][path] \in DOMAIN media'
    <3>1. PackageOf[c] # p /\ versions'[c] = versions[c]
      BY <1>1
    <3>2. /\ c \in components /\ n \in 1 .. MaxVersion
          /\ \A path \in DOMAIN versions[c][n] :
                path \in Paths \ BadPaths /\ versions[c][n][path] \in DOMAIN media
      BY <3>1 DEF Inv, Shape, ComponentsTypeOK
    <3>3. \A path \in DOMAIN versions[c][n] : versions[c][n][path].package # p
      BY <3>1 DEF DeletePackage
    <3>. QED  BY <1>1, <3>1, <3>2, <3>3
  <2>. QED  BY <1>1, <2>1, <2>2, <2>3, <2>4 DEF Inv, Shape, ComponentsTypeOK
<1>3. MediaHaveFiles'
  <2>1. Better(files, files')
    BY <1>1 DEF Better, Inv, Shape, ComponentsTypeOK
  <2>. QED  BY <1>1, <2>1, KeptFiles DEF Inv
<1>4. ASSUME NEW k \in Callers, calls'[k] # NoCall PROVE CallOK(calls[k])'
  <2>1. calls'[k] = calls[k] /\ CallOK(calls[k])
    BY <1>1, <1>4 DEF Inv, CallsOK
  <2>. QED  BY <1>1, <2>1 DEF CallOK
<1>. QED  BY <1>2, <1>3, <1>4 DEF Inv, CallsOK

-----------------------------------------------------------------------------
(* The invariant, and what follows from it.                                *)

LEMMA NextInv == Inv /\ [Next]_vars => Inv'
<1>. SUFFICES ASSUME Inv, [Next]_vars PROVE Inv'
  OBVIOUS
<1>1. ASSUME NEW p \in Packages, NEW type \in Types, NEW content \in Contents,
             NEW flag \in BOOLEAN,
             \/ GetOrCreateTextMedia(p, type, content, flag)
             \/ GetOrCreateFileMedia(p, type, content)
             \/ MediaInterrupted(p, type, content, flag)
      PROVE  Inv'
  BY <1>1, MediaInv
<1>2. ASSUME NEW c \in ComponentIds, CreateComponent(c) PROVE Inv'
  BY <1>2, CreateComponentInv
<1>3. ASSUME NEW c \in ComponentIds, NEW delta \in DeltaNow,
             CreateComponentAndVersion(c, Given(delta))
      PROVE  Inv'
  BY <1>3, CreateComponentAndVersionInv
<1>4. ASSUME NEW c \in ComponentIds, NEW delta \in DeltaNow, NEW n \in Numbers,
             CreateComponentVersion(c, n, Given(delta))
      PROVE  Inv'
  BY <1>4, CreateComponentVersionInv
<1>5. ASSUME NEW c \in ComponentIds, NEW delta \in DeltaNow, NEW k \in Callers,
             NEW n \in Numbers \cup {0}, NEW ignore \in BOOLEAN,
             CreateNextVersion(k, c, delta, n, ignore)
      PROVE  Inv'
  BY <1>5, CreateNextVersionInv
<1>6. ASSUME NEW k \in Callers, FinishNextVersion(k) \/ NextVersionInterrupted(k)
      PROVE  Inv'
  BY <1>6, FinishNextVersionInv, NextVersionInterruptedInv
<1>7. ASSUME NEW p \in Packages, DeletePackage(p) PROVE Inv'
  BY <1>7, DeletePackageInv
<1>8. CASE UNCHANGED vars
  <2>1. DOMAIN calls' = Callers /\ Better(files, files')
    BY <1>8 DEF vars, Better, Inv, Shape, ComponentsTypeOK
  <2>. QED  BY <1>8, <2>1, OnlyFilesInv DEF vars
<1>. QED  BY <1>1, <1>2, <1>3, <1>4, <1>5, <1>6, <1>7, <1>8, Zenon DEF Next

LEMMA InvHolds == Spec => []Inv
BY InitInv, NextInv, PTL DEF Spec

\* The tables are well formed, whichever calls were cut short and whichever
\* packages were deleted (components/api.py, media/api.py).
THEOREM ComponentsTypeCorrect == Spec => []ComponentsTypeOK
<1>1. Inv => ComponentsTypeOK
  BY DEF Inv, Shape
<1>. QED  BY <1>1, InvHolds, PTL

\* A reader who is sent to a file finds it
\* (get_redirect_response_for_component_asset, media/models.py:431).
THEOREM RedirectsAreSafe == Spec => []RedirectsFindTheFile
<1>1. Inv => RedirectsFindTheFile
  <2>1. ASSUME Inv, NEW c \in ComponentIds, NEW n \in 1 .. MaxVersion, NEW path \in Paths,
               AssetResponse(c, n, path) = "redirect"
        PROVE  IF overwrites THEN files[PathOf(versions[c][n][path])] = "whole"
                             ELSE files[PathOf(versions[c][n][path])] # "none"
    <3>1. /\ n \in DOMAIN versions[c] /\ path \in DOMAIN versions[c][n]
          /\ media[versions[c][n][path]].has_file
      BY <2>1 DEF AssetResponse
    <3>2. versions[c][n][path] \in DOMAIN media
      BY <2>1, <3>1 DEF Inv, Shape, ComponentsTypeOK
    <3>. QED  BY <2>1, <3>1, <3>2 DEF Inv, MediaHaveFiles
  <2>. QED  BY <2>1 DEF RedirectsFindTheFile
<1>. QED  BY <1>1, InvHolds, PTL

\* A call that commits without a forced number builds on the latest version:
\* the number it took is free only while the version it read is the last.
LEMMA FinishBuildsOnTheLast ==
    ASSUME Inv, NEW k \in Callers, FinishNextVersion(k), versions' # versions,
           calls[k].forced = 0, ~ calls[k].ignore
    PROVE  BuiltOnTheLast(calls[k])
<1>. DEFINE call == calls[k]
            c == call.component
            n == call.number
            given == Merged(call)
            fresh == CHOOSE x \in DOMAIN versions'[c] \ DOMAIN versions[c] : TRUE
            below == {x \in DOMAIN versions[c] : x < fresh}
            old == IF below = {} THEN << >> ELSE versions[c][Max(below)]
<1>1. call # NoCall /\ CallOK(call) /\ MayCommit(c, n, given) /\ SaveVersion(c, n, given)
  BY DEF FinishNextVersion, NumberOf, Inv, CallsOK
<1>2. /\ c \in ComponentIds /\ c \in components /\ n \notin DOMAIN versions[c]
      /\ DOMAIN versions[c] \subseteq 1 .. MaxVersion /\ MaxVersion \in Nat
      /\ n = call.last + 1 /\ call.last \in Nat
      /\ call.last = 0 \/ call.last \in DOMAIN versions[c]
  BY <1>1, ComponentsAssumption DEF MayCommit, CallOK, Inv, Shape, ComponentsTypeOK
<1>3. /\ DOMAIN versions'[c] = DOMAIN versions[c] \cup {n}
      /\ versions'[c][n] = [path \in DOMAIN given |-> KeyFor(c, path, given[path])]
  BY <1>1, <1>2 DEF SaveVersion, Inv, Shape
<1>4. fresh = n
  <2>1. DOMAIN versions'[c] \ DOMAIN versions[c] = {n}
    BY <1>2, <1>3
  <2>. QED  BY <2>1
<1>5. old = Previous(call)
  <2>0. \A x : x \in below <=> x \in DOMAIN versions[c] /\ x < n
    <3>. HIDE DEF fresh, c, n
    <3>. QED  BY <1>4
  <2>1. CASE call.last = 0
    <3>1. \A x : x \notin below
      <4>. HIDE DEF c, n, below
      <4>. QED  BY <1>2, <2>0, <2>1
    <3>2. below = {}
      BY <3>1
    <3>. QED  BY <2>1, <3>2 DEF Previous
  <2>2. CASE call.last # 0
    <3>1. call.last \in below /\ \A y \in below : call.last >= y
      <4>. HIDE DEF c, n, below
      <4>. QED  BY <1>2, <2>0, <2>2
    <3>2. \A x \in below : (\A y \in below : x >= y) => x = call.last
      BY <1>2, <3>1
    <3>3. Max(below) = call.last
      <4>. HIDE DEF below
      <4>. QED  BY <3>1, <3>2 DEF Max
    <3>. QED  BY <1>2, <2>2, <3>1, <3>3 DEF Previous
  <2>. QED  BY <2>1, <2>2
<1>6. \A path \in DOMAIN Previous(call) : Previous(call)[path] \in MediaKey
  BY <1>2 DEF Previous, Inv, Shape, ComponentsTypeOK
<1>7. ASSUME NEW path \in Paths \ DOMAIN call.delta
      PROVE  /\ path \in DOMAIN versions'[c][n] <=> path \in DOMAIN Previous(call)
             /\ path \in DOMAIN Previous(call) => versions'[c][n][path] = Previous(call)[path]
  <2>1. /\ path \in DOMAIN given <=> path \in DOMAIN Previous(call)
        /\ path \in DOMAIN Previous(call) => given[path] = Previous(call)[path]
    <3>. DEFINE both == [x \in DOMAIN Previous(call) \cup DOMAIN call.delta |->
                           IF x \in DOMAIN call.delta THEN call.delta[x] ELSE Previous(call)[x]]
    <3>1. given = [x \in {y \in DOMAIN both : both[y] # Remove} |-> both[x]]
      BY DEF Merged, Given
    <3>2. /\ path \in DOMAIN both <=> path \in DOMAIN Previous(call)
          /\ path \in DOMAIN Previous(call) => both[path] = Previous(call)[path]
      BY <1>7
    <3>3. path \in DOMAIN Previous(call) => both[path] # Remove
      BY <1>6, <3>2, ComponentsAssumption
    <3>. HIDE DEF both
    <3>. QED  BY <3>1, <3>2, <3>3
  <2>2. path \in DOMAIN Previous(call) => KeyFor(c, path, given[path]) = Previous(call)[path]
    BY <1>6, <2>1, ComponentsAssumption DEF KeyFor, IsBytes
  <2>. QED  BY <1>3, <2>1, <2>2
<1>. HIDE DEF call, c, n, given, old, fresh
<1>8. \A path \in Paths \ DOMAIN call.delta :
        /\ path \in DOMAIN versions'[c][fresh] <=> path \in DOMAIN old
        /\ path \in DOMAIN old => versions'[c][fresh][path] = old[path]
  BY <1>4, <1>5, <1>7
<1>. QED  BY <1>8 DEF BuiltOnTheLast, call, c, old, fresh

\* No edit is lost to a call that read the latest version too early
\* (create_next_component_version, components/api.py:225).
THEOREM NoEditIsLost == Spec => NextVersionsBuildOnTheLast
<1>1. Inv /\ [Next]_vars =>
        [\A k \in Callers :
            (/\ calls[k] # NoCall /\ calls'[k] = NoCall /\ versions' # versions
             /\ calls[k].forced = 0 /\ ~ calls[k].ignore) => BuiltOnTheLast(calls[k])]_vars
  <2>. SUFFICES ASSUME Inv, Next, NEW k \in Callers,
                       calls[k] # NoCall, calls'[k] = NoCall, versions' # versions,
                       calls[k].forced = 0, ~ calls[k].ignore
                PROVE  BuiltOnTheLast(calls[k])
    BY DEF vars
  <2>1. CASE calls' = calls
    BY <2>1
  <2>2. ASSUME NEW j \in Callers, FinishNextVersion(j) PROVE BuiltOnTheLast(calls[k])
    <3>1. j = k
      BY <2>2 DEF FinishNextVersion, Inv, Shape
    <3>. QED  BY <2>2, <3>1, FinishBuildsOnTheLast
  <2>3. \/ calls' = calls \/ versions' = versions
        \/ \E j \in Callers : FinishNextVersion(j)
    <3>1. ASSUME NEW p \in Packages, NEW type \in Types, NEW content \in Contents,
                 NEW flag \in BOOLEAN,
                 \/ GetOrCreateTextMedia(p, type, content, flag)
                 \/ GetOrCreateFileMedia(p, type, content)
                 \/ MediaInterrupted(p, type, content, flag)
          PROVE  calls' = calls
      BY <3>1 DEF GetOrCreateTextMedia, GetOrCreateFileMedia, MediaInterrupted
    <3>2. ASSUME NEW c \in ComponentIds, CreateComponent(c) PROVE calls' = calls
      BY <3>2 DEF CreateComponent
    <3>3. ASSUME NEW c \in ComponentIds, NEW delta \in DeltaNow, NEW n,
                 \/ CreateComponentAndVersion(c, Given(delta))
                 \/ CreateComponentVersion(c, n, Given(delta))
          PROVE  calls' = calls
      BY <3>3 DEF CreateComponentAndVersion, CreateComponentVersion
    <3>4. ASSUME NEW c, NEW delta, NEW j, NEW n, NEW ignore,
                 CreateNextVersion(j, c, delta, n, ignore)
          PROVE  versions' = versions
      BY <3>4 DEF CreateNextVersion
    <3>5. ASSUME NEW j \in Callers, NextVersionInterrupted(j) PROVE versions' = versions
      BY <3>5 DEF NextVersionInterrupted
    <3>6. ASSUME NEW p \in Packages, DeletePackage(p) PROVE calls' = calls
      BY <3>6 DEF DeletePackage
    <3>. QED  BY <3>1, <3>2, <3>3, <3>4, <3>5, <3>6, Zenon DEF Next
  <2>. QED  BY <2>1, <2>2, <2>3
<1>. QED  BY <1>1, InvHolds, PTL DEF Spec, NextVersionsBuildOnTheLast
=============================================================================
