------------------------------ MODULE Components -----------------------------
(***************************************************************************)
(* Components, their versions and their media: applets/components/api.py,  *)
(* applets/media/api.py and their models, under src/src/openedx_content.   *)
(*                                                                         *)
(* Rows of the database follow transactions.  Files do not: a rolled back  *)
(* transaction leaves the files it wrote, the last one perhaps cut short.  *)
(*                                                                         *)
(* create_next_component_version reads the latest version before its       *)
(* transaction starts and so takes two steps; every other call takes one.  *)
(***************************************************************************)
EXTENDS Integers, FiniteSets, Sequences, FiniteSetsExt

CONSTANTS
    ComponentIds,     \* all components there can be
    Packages,         \* learning packages
    PackageOf,        \* the learning package of each component
    Paths,            \* paths of media in a component version
    BadPaths,         \* those that are absolute or hold spaces or backslashes
    TypeOf,           \* the media type guessed from each path
    Contents,         \* data, named by its hash
    Callers,          \* who calls create_next_component_version
    Deltas,           \* input: what media_to_replace says of some paths
    MediaPaths,       \* input: paths that are given media made before
    Numbers,          \* input: version numbers that callers force
    MaxVersion,       \* bound: version numbers
    GivenAsIds,       \* is media passed to a version as ids or as Media objects?
    Remove,           \* None in media_to_replace
    NoMedia, NoCall

Types == {TypeOf[path] : path \in Paths}
MediaKey == [package : Packages, type : Types, content : Contents]

ASSUME ComponentsAssumption ==
    /\ PackageOf \in [ComponentIds -> Packages]
    /\ BadPaths \subseteq Paths /\ MediaPaths \subseteq Paths
    /\ \A delta \in Deltas : DOMAIN delta \subseteq Paths
    /\ MaxVersion \in Nat \ {0}
    /\ Numbers \subseteq 1 .. MaxVersion
    /\ GivenAsIds \in BOOLEAN
    /\ Contents \cap MediaKey = {} /\ Remove \notin MediaKey \cup Contents
    /\ NoMedia \notin MediaKey

VARIABLES
    packages,         \* the learning packages there are
    components,       \* the components there are
    versions,         \* by component: version number -> path -> media
    media,            \* media rows: key -> where the data is
    files,            \* file storage, by learning package and hash
    overwrites,       \* does the storage backend replace an existing file?
    calls             \* calls that have read the latest version

vars == <<packages, components, versions, media, files, overwrites, calls>>

Stored == [text : BOOLEAN, has_file : BOOLEAN]

ComponentsTypeOK ==
    /\ components \subseteq {c \in ComponentIds : PackageOf[c] \in packages}
    /\ DOMAIN media \subseteq {m \in MediaKey : m.package \in packages}
    /\ \A m \in DOMAIN media : media[m] \in Stored /\ (media[m].text \/ media[m].has_file)
    /\ \A c \in ComponentIds : \A n \in DOMAIN versions[c] :
          /\ c \in components /\ n \in 1 .. MaxVersion
          /\ \A path \in DOMAIN versions[c][n] :
                path \in Paths \ BadPaths /\ versions[c][n][path] \in DOMAIN media
    /\ files \in [Packages \X Contents -> {"none", "partial", "whole"}]

Init ==
    /\ packages = Packages
    /\ components = {}
    /\ versions = [c \in ComponentIds |-> << >>]
    /\ media = << >>
    /\ files = [x \in Packages \X Contents |-> "none"]
    /\ overwrites \in BOOLEAN
    /\ calls = [k \in Callers |-> NoCall]

-----------------------------------------------------------------------------
(* Media                                                                   *)

Key(p, type, content) == [package |-> p, type |-> type, content |-> content]

\* Media.path
PathOf(m) == <<m.package, m.content>>

\* Mutant: a file that is there is never written again.
WriteOnce(fs, ms) ==
    [x \in DOMAIN fs |->
        IF x \in {PathOf(m) : m \in ms} /\ fs[x] = "none" THEN "whole" ELSE fs[x]]

\* write_file, for each of ms: a file of another size is in the way unless
\* storage overwrites it; the new one then goes to another name.
WriteFiles(fs, ms) ==
    [x \in DOMAIN fs |->
        IF x \in {PathOf(m) : m \in ms} /\ (fs[x] = "none" \/ overwrites) THEN "whole" ELSE fs[x]]

\* A write that ends half-way.
CutShort(fs, m) ==
    [fs EXCEPT ![PathOf(m)] = IF @ = "none" \/ (@ = "partial" /\ overwrites) THEN "partial" ELSE @]

\* Rows found by their key are returned as they are.
WithRow(rows, m, stored) ==
    IF m \in DOMAIN rows THEN rows
    ELSE [x \in DOMAIN rows \cup {m} |-> IF x = m THEN stored ELSE rows[x]]

AsFile == [text |-> FALSE, has_file |-> TRUE]
AsText(create_file) == [text |-> TRUE, has_file |-> create_file]

\* get_or_create_text_media
GetOrCreateTextMedia(p, type, content, create_file) ==
    LET m == Key(p, type, content)
    IN  /\ p \in packages /\ m \notin DOMAIN media
        /\ media' = WithRow(media, m, AsText(create_file))
        /\ files' = IF create_file THEN WriteFiles(files, {m}) ELSE files
        /\ UNCHANGED <<packages, components, versions, overwrites, calls>>

\* get_or_create_file_media
GetOrCreateFileMedia(p, type, content) ==
    LET m == Key(p, type, content)
    IN  /\ p \in packages /\ m \notin DOMAIN media
        /\ media' = WithRow(media, m, AsFile)
        /\ files' = WriteFiles(files, {m})
        /\ UNCHANGED <<packages, components, versions, overwrites, calls>>

\* The transaction of either call fails: its row is gone, its file is not.
MediaInterrupted(p, type, content, whole) ==
    LET m == Key(p, type, content)
    IN  /\ p \in packages /\ m \notin DOMAIN media
        /\ files' = IF whole THEN WriteFiles(files, {m}) ELSE CutShort(files, m)
        /\ UNCHANGED <<packages, components, versions, media, overwrites, calls>>

-----------------------------------------------------------------------------
(* Versions                                                                *)

\* The media given for a path: bytes, or a row of media.
IsBytes(value) == value \in Contents

KeyFor(c, path, value) ==
    IF IsBytes(value) THEN Key(PackageOf[c], TypeOf[path], value) ELSE value

\* _set_component_version_media raises ValueError for a bad path and for a Media
\* object of another learning package; an id is not looked up, but the database
\* wants the row to be there.
Acceptable(c, given) ==
    \A path \in DOMAIN given :
        /\ path \notin BadPaths
        /\ ~ IsBytes(given[path]) =>
              /\ given[path] \in DOMAIN media
              /\ GivenAsIds \/ given[path].package = PackageOf[c]

\* The media that are new rows, each with its file.
NewMedia(c, given) ==
    {KeyFor(c, path, given[path]) :
        path \in {x \in DOMAIN given : IsBytes(given[x])}} \ DOMAIN media

\* create_publishable_entity_version and its media, committed.
SaveVersion(c, n, given) ==
    /\ versions' = [versions EXCEPT ![c] =
            [x \in DOMAIN @ \cup {n} |->
                IF x = n THEN [path \in DOMAIN given |-> KeyFor(c, path, given[path])]
                         ELSE versions[c][x]]]
    /\ media' = [m \in DOMAIN media \cup NewMedia(c, given) |->
                    IF m \in DOMAIN media THEN media[m] ELSE AsFile]
    /\ files' = WriteFiles(files, NewMedia(c, given))

\* The same, rolled back after some of the files were written.
VersionInterrupted(c, given) ==
    \E written \in SUBSET NewMedia(c, given), cut \in NewMedia(c, given) \cup {NoMedia} :
        LET fs == WriteFiles(files, written)
        IN  files' = IF cut \in NewMedia(c, given) \ written THEN CutShort(fs, cut) ELSE fs

\* The version number is still free, and the media is acceptable.
MayCommit(c, n, given) ==
    c \in components /\ n \notin DOMAIN versions[c] /\ Acceptable(c, given)

Latest(c) == IF DOMAIN versions[c] = {} THEN 0 ELSE Max(DOMAIN versions[c])

Given(delta) == [path \in {x \in DOMAIN delta : delta[x] # Remove} |-> delta[path]]

\* create_component
CreateComponent(c) ==
    /\ PackageOf[c] \in packages
    /\ c \notin components
    /\ components' = components \cup {c}
    /\ UNCHANGED <<packages, versions, media, files, overwrites, calls>>

\* create_component_and_version: version 1, in the same transaction.
CreateComponentAndVersion(c, given) ==
    /\ PackageOf[c] \in packages
    /\ c \notin components
    /\ IF Acceptable(c, given)
       THEN components' = components \cup {c} /\ SaveVersion(c, 1, given)
       ELSE VersionInterrupted(c, given) /\ UNCHANGED <<components, versions, media>>
    /\ UNCHANGED <<packages, overwrites, calls>>

\* create_component_version
CreateComponentVersion(c, n, given) ==
    /\ MayCommit(c, n, given)
    /\ SaveVersion(c, n, given)
    /\ UNCHANGED <<packages, components, overwrites, calls>>

\* create_next_component_version up to its transaction.
CreateNextVersion(k, c, delta, force_version_num, ignore_previous_media) ==
    LET n == IF force_version_num # 0 THEN force_version_num ELSE Latest(c) + 1
    IN  /\ calls[k] = NoCall
        /\ c \in components
        /\ n <= MaxVersion
        /\ calls' = [calls EXCEPT ![k] =
              [component |-> c, last |-> Latest(c), number |-> n, delta |-> delta,
               forced |-> force_version_num, ignore |-> ignore_previous_media]]
        /\ UNCHANGED <<packages, components, versions, media, files, overwrites>>

Previous(call) ==
    IF call.ignore \/ call.last = 0 \/ call.last \notin DOMAIN versions[call.component]
    THEN << >> ELSE versions[call.component][call.last]

\* previous_media | media_to_replace, without what is to be removed.
Merged(call) ==
    LET old == Previous(call)
        both == [path \in DOMAIN old \cup DOMAIN call.delta |->
                    IF path \in DOMAIN call.delta THEN call.delta[path] ELSE old[path]]
    IN  Given(both)

\* Mutant: the number is taken in the transaction, the media is not.
NumberInTransaction(call) ==
    IF call.forced # 0 THEN call.number ELSE Latest(call.component) + 1

NumberOf(call) == call.number

FinishNextVersion(k) ==
    LET call == calls[k]
        n == NumberOf(call)
    IN  /\ call # NoCall
        /\ calls' = [calls EXCEPT ![k] = NoCall]
        /\ IF MayCommit(call.component, n, Merged(call))
           THEN SaveVersion(call.component, n, Merged(call))
           ELSE UNCHANGED <<versions, media, files>>
        /\ UNCHANGED <<packages, components, overwrites>>

\* The transaction of a call fails after its version number was accepted.
NextVersionInterrupted(k) ==
    LET call == calls[k]
    IN  /\ call # NoCall
        /\ call.component \in components
        /\ call.number \notin DOMAIN versions[call.component]
        /\ calls' = [calls EXCEPT ![k] = NoCall]
        /\ VersionInterrupted(call.component, Merged(call))
        /\ UNCHANGED <<packages, components, versions, media, overwrites>>

\* Mutant: media goes with its package whoever uses it.
DeletePackageAnyway(p) ==
    /\ p \in packages
    /\ packages' = packages \ {p}
    /\ components' = {c \in components : PackageOf[c] # p}
    /\ versions' = [c \in ComponentIds |-> IF PackageOf[c] = p THEN << >> ELSE versions[c]]
    /\ media' = [m \in {x \in DOMAIN media : x.package # p} |-> media[m]]
    /\ UNCHANGED <<files, overwrites, calls>>

\* A learning package goes with its components and media, unless a component
\* of another package holds on to its media (ComponentVersionMedia.media).
DeletePackage(p) ==
    /\ p \in packages
    /\ \A c \in ComponentIds : PackageOf[c] # p =>
          \A n \in DOMAIN versions[c] : \A path \in DOMAIN versions[c][n] :
             versions[c][n][path].package # p
    /\ packages' = packages \ {p}
    /\ components' = {c \in components : PackageOf[c] # p}
    /\ versions' = [c \in ComponentIds |-> IF PackageOf[c] = p THEN << >> ELSE versions[c]]
    /\ media' = [m \in {x \in DOMAIN media : x.package # p} |-> media[m]]
    /\ UNCHANGED <<files, overwrites, calls>>

-----------------------------------------------------------------------------
(* get_redirect_response_for_component_asset                               *)

AssetResponse(c, n, path) ==
    IF n \notin DOMAIN versions[c] THEN "no_version"
    ELSE IF path \notin DOMAIN versions[c][n] THEN "no_path"
    ELSE IF media[versions[c][n][path]].has_file THEN "redirect" ELSE "no_file"

-----------------------------------------------------------------------------
\* What paths can be given: bytes or a removal, or media made before.
DeltaNow == Deltas \cup UNION {[{path} -> DOMAIN media] : path \in MediaPaths}

Next ==
    \/ \E p \in Packages, type \in Types, content \in Contents, flag \in BOOLEAN :
          \/ GetOrCreateTextMedia(p, type, content, flag)
          \/ GetOrCreateFileMedia(p, type, content)
          \/ MediaInterrupted(p, type, content, flag)
    \/ \E c \in ComponentIds :
          \/ CreateComponent(c)
          \/ \E delta \in DeltaNow :
                \/ CreateComponentAndVersion(c, Given(delta))
                \/ \E n \in Numbers : CreateComponentVersion(c, n, Given(delta))
                \/ \E k \in Callers, n \in Numbers \cup {0}, ignore \in BOOLEAN :
                      CreateNextVersion(k, c, delta, n, ignore)
    \/ \E k \in Callers : FinishNextVersion(k) \/ NextVersionInterrupted(k)
    \/ \E p \in Packages : DeletePackage(p)

Spec == Init /\ [][Next]_vars

-----------------------------------------------------------------------------
(* Properties                                                              *)

\* A reader who is sent to a file finds it: whatever was rolled back or cut
\* short before, and whichever rows share the file, a media row with a file has
\* one, and a whole one if the storage backend overwrites files (write_file,
\* media/models.py:431; get_redirect_response_for_component_asset).
RedirectsFindTheFile ==
    \A c \in ComponentIds, n \in 1 .. MaxVersion, path \in Paths :
        AssetResponse(c, n, path) = "redirect" =>
            IF overwrites THEN files[PathOf(versions[c][n][path])] = "whole"
                          ELSE files[PathOf(versions[c][n][path])] # "none"

\* The version that this step makes has the media of the one just before it,
\* but for the paths that the call names.
BuiltOnTheLast(call) ==
    LET c == call.component
        n == CHOOSE x \in DOMAIN versions'[c] \ DOMAIN versions[c] : TRUE
        below == {x \in DOMAIN versions[c] : x < n}
        old == IF below = {} THEN << >> ELSE versions[c][Max(below)]
    IN  \A path \in Paths \ DOMAIN call.delta :
            /\ path \in DOMAIN versions'[c][n] <=> path \in DOMAIN old
            /\ path \in DOMAIN old => versions'[c][n][path] = old[path]

\* No edit is lost: a version made without a forced number is built on the
\* version just before it, although that was read before the transaction
\* (create_next_component_version, components/api.py:225).
NextVersionsBuildOnTheLast ==
    [][\A k \in Callers :
          (/\ calls[k] # NoCall /\ calls'[k] = NoCall /\ versions' # versions
           /\ calls[k].forced = 0 /\ ~ calls[k].ignore) => BuiltOnTheLast(calls[k])]_vars
==============================================================================
