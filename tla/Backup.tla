------------------------------- MODULE Backup -------------------------------
(***************************************************************************)
(* Dumping a learning package into a zip file and loading it as another    *)
(* package: applets/backup_restore/ with the commands lp_dump and lp_load, *)
(* under src/src/openedx_content.                                          *)
(*                                                                         *)
(* A dump runs outside any transaction: it reads the entities at once and  *)
(* writes them one by one, then reads which collections there are, and of  *)
(* each what it holds when its turn comes, while authors go on editing.  A *)
(* load is one transaction, from the check of the files to the last draft. *)
(***************************************************************************)
EXTENDS Loops, FiniteSets, Sequences, SequencesExt, TLC

CONSTANTS
    Packages,         \* package refs
    EntityRefs,       \* the entity refs, in their order
    KindOf,           \* the container type of each entity, or its component type
    NameOf,           \* component code of a component, entity ref of a container
    Contents,         \* what a version of each entity may hold
    Codes,            \* collection codes
    Slug,             \* slugify, of names and codes
    OddTypes,         \* component types whose name is not that of a folder: blank ones
    MaxVersion,       \* bound: versions of an entity
    MaxEdits,         \* bound: calls of authors
    EmptyText,        \* the text media ""
    None

Entities == Range(EntityRefs)

\* section, subsection and unit, with what each holds; a plugin may add others.
LevelBelow == [unit |-> "component", subsection |-> "unit", section |-> "subsection"]
Restorable == DOMAIN LevelBelow
Container(e) == KindOf[e] \in Restorable \cup {"plugin"}
LevelOf(e) == IF Container(e) THEN KindOf[e] ELSE "component"

\* What a version holds: the files of a component by their paths, or the children
\* of a container, pinned to a version or to none, and the versions of an entity.
File == [path : STRING, data : STRING]
Child == [entity : Entities, pin : Nat]
Histories ==
    UNION {[numbers -> (SUBSET File) \cup Seq(Child)] : numbers \in SUBSET (1 .. MaxVersion)}
EntityRow == [versions : Histories, draft : 0 .. MaxVersion, published : 0 .. MaxVersion]
CollectionRow == [enabled : BOOLEAN, entities : SUBSET Entities]

NoHash == ""

ASSUME BackupAssumption ==
    /\ MaxVersion \in Nat \ {0} /\ MaxEdits \in Nat
    /\ None \notin EntityRow /\ None \notin CollectionRow
    /\ EntityRefs \in Seq(STRING)
    /\ KindOf \in [Entities -> STRING \ {""}]
    /\ NameOf \in [Entities -> STRING \ {NoHash}]
    /\ Codes \subseteq STRING \ {NoHash}
    /\ OddTypes \subseteq STRING \ ({"plugin"} \cup Restorable)
    \* a component is known by its type and code, a container by its code
    /\ \A d, e \in Entities :
          (NameOf[d] = NameOf[e] /\ (KindOf[d] = KindOf[e] \/ (Container(d) /\ Container(e))))
              => d = e
    \* a unit holds components, and so on up; a path names one file of a version
    /\ \A e \in Entities :
          /\ Contents[e] # {}
          /\ \A content \in Contents[e] :
                IF Container(e)
                THEN /\ content \in Seq(Child)
                     /\ KindOf[e] \in Restorable => \A i \in DOMAIN content :
                           LevelOf(content[i].entity) = LevelBelow[KindOf[e]]
                ELSE /\ content \in SUBSET File
                     /\ \A f, g \in content : f.path = g.path => f = g

\* A function with another value for x, and with the values of another function.
With(f, x, value) == [y \in DOMAIN f \cup {x} |-> IF y = x THEN value ELSE f[y]]
WithAll(f, g) == [y \in DOMAIN f \cup DOMAIN g |-> IF y \in DOMAIN g THEN g[y] ELSE f[y]]

VARIABLES
    packages,     \* learning packages by ref, None where there is none
    types,        \* rows of ComponentType
    dump,         \* the dump that is being written, or None
    archive,      \* the zip file
    load,         \* the load that is running, or None
    edits         \* how many calls authors have made

vars == <<packages, types, dump, archive, load, edits>>

-----------------------------------------------------------------------------
(* Learning packages                                                       *)

\* A new entity: version number 0 stands for NULL.
NewEntity == [versions |-> << >>, draft |-> 0, published |-> 0]

NoContent == [entities |-> [e \in Entities |-> None], collections |-> [c \in Codes |-> None]]

\* Before the first dump.
NoArchive ==
    [files |-> << >>, complete |-> FALSE, damaged |-> FALSE, quiet |-> FALSE,
     blank |-> FALSE, source |-> NoContent]

In(p) == {e \in Entities : packages[p].entities[e] # None}

VersionNumbers(row) == {row.draft, row.published} \ {0}

\* The children of every version are entities of the package.
WellFormed(content) ==
    LET there == {e \in Entities : content.entities[e] # None}
    IN  /\ \A e \in there :
             LET row == content.entities[e]
             IN  /\ VersionNumbers(row) \subseteq DOMAIN row.versions
                 /\ Container(e) => \A n \in DOMAIN row.versions : \A i \in DOMAIN row.versions[n] :
                        row.versions[n][i].entity \in there
        /\ \A c \in Codes : content.collections[c] # None =>
              content.collections[c].entities \subseteq there

TypeOK ==
    /\ \A p \in Packages : packages[p] # None => WellFormed(packages[p])
    /\ \A p \in Packages : packages[p] # None =>
          \A e \in In(p) : ~ Container(e) => KindOf[e] \in types
    /\ edits \in 0 .. MaxEdits

\* An entity that was just created, or whose first version is published.
EarlyRow(e, published) ==
    IF published
    THEN [versions |-> <<CHOOSE content \in Contents[e] : TRUE>>, draft |-> 1, published |-> 1]
    ELSE NewEntity

\* One package with some young entities.
BackupInit ==
    /\ \E home \in Packages, there \in SUBSET Entities :
       \E published \in SUBSET there :
          LET content == [NoContent EXCEPT !.entities =
                [e \in Entities |-> IF e \in there THEN EarlyRow(e, e \in published) ELSE None]]
          IN  /\ WellFormed(content)
              /\ packages = [p \in Packages |-> IF p = home THEN content ELSE None]
              /\ types = {KindOf[e] : e \in {d \in there : ~ Container(d)}}
    /\ dump = None
    /\ archive = NoArchive
    /\ load = None
    /\ edits = 0

\* The dump of p is not finished.
BeingDumped(p) == dump # None /\ dump.package = p

\* A call that changes p to `content`.  Bound: authors edit before the dump
\* and during it, which is when it can see the change.
Edit(p, content) ==
    /\ edits < MaxEdits
    /\ archive = NoArchive \/ BeingDumped(p)
    /\ edits' = edits + 1
    /\ packages' = [packages EXCEPT ![p] = content]
    /\ dump' = IF BeingDumped(p) THEN [dump EXCEPT !.quiet = FALSE] ELSE dump
    /\ UNCHANGED <<archive, load>>

CreateEntity(p, e) ==
    /\ packages[p] # None /\ packages[p].entities[e] = None
    /\ Edit(p, [packages[p] EXCEPT !.entities[e] = NewEntity])
    /\ types' = IF Container(e) THEN types ELSE types \cup {KindOf[e]}

\* A next version of a component or a container, which becomes the draft.
CreateNextVersion(p, e, content) ==
    /\ packages[p] # None /\ packages[p].entities[e] # None
    /\ LET row == packages[p].entities[e]
           n == Max({0} \cup DOMAIN row.versions) + 1
       IN  /\ n <= MaxVersion
           /\ Container(e) => \A i \in DOMAIN content : content[i].entity \in In(p)
           /\ Edit(p, [packages[p] EXCEPT !.entities[e] =
                          [row EXCEPT !.versions = With(row.versions, n, content), !.draft = n]])
    /\ UNCHANGED types

SoftDelete(p, e) ==
    /\ packages[p] # None /\ packages[p].entities[e] # None
    /\ packages[p].entities[e].draft # 0
    /\ Edit(p, [packages[p] EXCEPT !.entities[e].draft = 0])
    /\ UNCHANGED types

WithAllPublished(content) ==
    [content EXCEPT !.entities = [e \in Entities |->
        IF content.entities[e] = None THEN None
        ELSE [content.entities[e] EXCEPT !.published = content.entities[e].draft]]]

PublishAll(p) ==
    /\ packages[p] # None
    /\ Edit(p, WithAllPublished(packages[p]))
    /\ UNCHANGED types

\* An entity in a collection, a new one if need be.
Collect(p, c, e) ==
    /\ packages[p] # None /\ e \in In(p)
    /\ LET row == packages[p].collections[c]
       IN  /\ row # None => e \notin row.entities
           /\ Edit(p, [packages[p] EXCEPT !.collections[c] =
                          IF row = None THEN [enabled |-> TRUE, entities |-> {e}]
                          ELSE [row EXCEPT !.entities = row.entities \cup {e}]])
    /\ UNCHANGED types

DeleteCollection(p, c) ==
    /\ packages[p] # None /\ packages[p].collections[c] # None
    /\ Edit(p, [packages[p] EXCEPT !.collections[c].enabled = FALSE])
    /\ UNCHANGED types

-----------------------------------------------------------------------------
(* Writing the archive                                                     *)

\* Mutant: names that have the same slug share a file.
SlugName(used, name) == [slug |-> Slug[name], hash |-> NoHash]

\* get_entity_toml_filename: the second name with a slug gets its hash.
FileName(used, name) ==
    [slug |-> Slug[name], hash |-> IF Slug[name] \in used THEN name ELSE NoHash]

\* A file of the archive: of a component type or not, of a version or not.
Path(folder, type, name, version, file) ==
    [folder |-> folder, type |-> type, name |-> name, version |-> version, file |-> file]

PackageFile == Path("", "", None, 0, "package.toml")
TomlPath(folder, type, name) == Path(folder, type, name, 0, "")

\* The TOML file of an entity's folder, given any file in it.
RootOf(path) == TomlPath(path.folder, path.type, path.name)

\* get_publishable_entities
EntitiesToWrite(content) == {e \in Entities : content.entities[e] # None}

\* The version tables of a TOML file: the children of a container, pinned or
\* not, and nothing of a component.
VersionTables(e, row) ==
    [n \in VersionNumbers(row) |->
        IF Container(e)
        THEN [i \in DOMAIN row.versions[n] |-> row.versions[n][i].entity]
        ELSE << >>]

EntityToml(e, row) ==
    [valid |-> TRUE, key |-> e,
     container |-> IF KindOf[e] \in Restorable THEN {KindOf[e]} ELSE {},
     draft |-> row.draft, published |-> row.published,
     versions |-> VersionTables(e, row)]

\* The static files of the versions; empty text is not written.
StaticFiles(e, row, root) ==
    IF Container(e) THEN << >>
    ELSE LET all == UNION {{<<n, f>> : f \in row.versions[n]} : n \in VersionNumbers(row)}
             written == {w \in all : w[2].data # EmptyText}
             at(w) == Path(root.folder, root.type, root.name, w[1], w[2].path)
             source(path) == CHOOSE w \in written : at(w) = path
         IN  [path \in {at(w) : w \in written} |-> [data |-> source(path)[2].data]]

\* lp_dump, create_zip_file: an unknown ref ends the command before the file
\* is opened.  The loader refuses a blank title, and an e-mail of the user that is
\* blank or no address.  Bound: one archive.
DumpStart(p, blank) ==
    /\ archive = NoArchive
    /\ packages[p] # None
    /\ dump' = [package |-> p, content |-> packages[p], quiet |-> TRUE, used |-> {},
                todo |-> EntitiesToWrite(packages[p]), listed |-> FALSE, codes |-> {}]
    /\ archive' = [files |-> [path \in {PackageFile} |-> [valid |-> ~ blank, key |-> p]],
                   complete |-> FALSE, damaged |-> FALSE, quiet |-> FALSE,
                   blank |-> blank, source |-> packages[p]]
    /\ UNCHANGED <<packages, types, load, edits>>

\* One turn of the loop over the entities, in the order of their refs.
DumpEntity ==
    /\ dump # None
    /\ \E i \in DOMAIN EntityRefs :
          /\ EntityRefs[i] \in dump.todo
          /\ \A j \in 1 .. i - 1 : EntityRefs[j] \notin dump.todo
          /\ LET e == EntityRefs[i]
                 row == dump.content.entities[e]
                 root == TomlPath("entities", IF Container(e) THEN "" ELSE KindOf[e],
                                  FileName(dump.used, NameOf[e]))
             IN  /\ dump' = [dump EXCEPT !.todo = dump.todo \ {e},
                                         !.used = dump.used \cup {Slug[NameOf[e]]}]
                 /\ archive' = [archive EXCEPT
                       !.files = WithAll(With(archive.files, root, EntityToml(e, row)),
                                         StaticFiles(e, row, root))]
    /\ UNCHANGED <<packages, types, load, edits>>

\* get_collections: the enabled collections, as they are by now.
DumpCollections ==
    /\ dump # None /\ dump.todo = {} /\ ~ dump.listed
    /\ LET now == packages[dump.package].collections
       IN  /\ dump' = [dump EXCEPT !.listed = TRUE,
                          !.codes = {c \in Codes : now[c] # None /\ now[c].enabled}]
           /\ archive' = [archive EXCEPT !.source.collections = now]
    /\ UNCHANGED <<packages, types, load, edits>>

\* One turn of the loop over the collections, whose keys may be in any order: its
\* entities are read now.  Its title may be blank.
DumpCollection(c, blank) ==
    /\ dump # None /\ c \in dump.codes
    /\ LET entities == packages[dump.package].collections[c].entities
           root == TomlPath("collections", "", FileName(dump.used, c))
       IN  /\ dump' = [dump EXCEPT !.codes = dump.codes \ {c},
                                   !.used = dump.used \cup {Slug[c]}]
           /\ archive' = [archive EXCEPT
                 !.files = With(archive.files, root,
                                [valid |-> ~ blank, key |-> c, entities |-> entities]),
                 !.blank = archive.blank \/ blank,
                 !.source.collections[c].entities = entities]
    /\ UNCHANGED <<packages, types, load, edits>>

\* The end of the loop and of the file.
DumpEnds ==
    /\ dump # None /\ dump.listed /\ dump.codes = {}
    /\ archive' = [archive EXCEPT !.complete = TRUE, !.quiet = dump.quiet]
    /\ dump' = None
    /\ edits' = 0
    /\ UNCHANGED <<packages, types, load>>

\* An error, a missing media file for one: the file is closed as it is.
DumpFails ==
    /\ dump # None
    /\ dump' = None
    /\ edits' = 0
    /\ UNCHANGED <<packages, types, archive, load>>

\* Someone removes a TOML file of the archive, or a required field from one.
Damage(path) ==
    /\ dump = None /\ load = None /\ archive.complete /\ ~ archive.damaged
    /\ path \in DOMAIN archive.files /\ path.version = 0
    /\ \/ archive' = [archive EXCEPT !.damaged = TRUE,
                         !.files = [f \in DOMAIN archive.files \ {path} |-> archive.files[f]]]
       \/ archive' = [archive EXCEPT !.damaged = TRUE, !.files[path].valid = FALSE]
    /\ UNCHANGED <<packages, types, dump, load, edits>>

-----------------------------------------------------------------------------
(* Reading the archive                                                     *)

Files == DOMAIN archive.files
Body(path) == archive.files[path]

IsStatic(path) == path.version # 0
ComponentTomls == {path \in Files : path.folder = "entities" /\ path.type # "" /\ ~ IsStatic(path)}
ContainerTomls == {path \in Files : path.folder = "entities" /\ path.type = ""}
CollectionTomls == {path \in Files : path.folder = "collections"}

\* Parts of its path are missing: the loader looks for the TOML file of a static
\* file under the first four, and those are no longer the component's.
Short(path) ==
    path.type \in OddTypes \/ (path.name.slug = "" /\ path.name.hash = NoHash)

\* _get_organized_file_list, check_mandatory_files
FilesMissing ==
    \/ PackageFile \notin Files
    \/ \E path \in Files : IsStatic(path) /\ (RootOf(path) \notin Files \/ Short(path))

\* ComponentSerializer and ContainerSerializer
ValidEntity(path) ==
    /\ Body(path).valid
    /\ path \in ContainerTomls =>
          Cardinality(Body(path).container) = 1 /\ Body(path).container \subseteq Restorable

ValidEntities == {path \in ComponentTomls \cup ContainerTomls : ValidEntity(path)}

\* _extract_learning_package, _extract_entities and _extract_collections
ErrorsFound ==
    \/ ~ Body(PackageFile).valid
    \/ ComponentTomls \cup ContainerTomls # ValidEntities
    \/ \E path \in CollectionTomls :
          ~ Body(path).valid \/ ~ (Body(path).entities \subseteq {Body(f).key : f \in ValidEntities})

\* _resolve_static_files
StaticContent(root, n) ==
    {[path |-> path.file, data |-> Body(path).data] :
        path \in {f \in Files : f.version = n /\ RootOf(f) = root}}

\* _resolve_children: those restored on the level below, none of them pinned.
ResolveChildren(e, children, there) ==
    ForEach(DOMAIN children,
            LAMBDA found, i :
                IF children[i] \in there /\ LevelOf(children[i]) = LevelBelow[KindOf[e]]
                THEN Append(found, [entity |-> children[i], pin |-> 0])
                ELSE found,
            << >>)

\* The keys of the archive, all of them valid by now, and their files.
Restored == {Body(path).key : path \in ValidEntities}
FileOf(e) == CHOOSE path \in ValidEntities : Body(path).key = e

RestoredVersion(e, n) ==
    LET path == FileOf(e)
    IN  IF Container(e) THEN ResolveChildren(e, Body(path).versions[n], Restored)
                        ELSE StaticContent(path, n)

WithVersion(row, e, n) ==
    [row EXCEPT !.versions = With(row.versions, n, RestoredVersion(e, n)), !.draft = n]

\* Mutant: what was never published is saved with the rest.
FirstVersion(toml) == IF toml.published = 0 THEN toml.draft ELSE toml.published

\* The version that _save_components and _save_container restore first.
VersionToPublish(toml) == toml.published

\* _save up to publish_all_drafts: entities, published versions, collections.
PublishedContent ==
    [entities |-> [e \in Entities |->
        IF e \notin Restored THEN None
        ELSE LET n == VersionToPublish(Body(FileOf(e)))
             IN  IF n = 0 THEN NewEntity ELSE WithVersion(NewEntity, e, n)],
     collections |-> [c \in Codes |->
        IF \A path \in CollectionTomls : Body(path).key # c THEN None
        ELSE [enabled |-> TRUE,
              entities |-> Restored \cap
                  Body(CHOOSE path \in CollectionTomls : Body(path).key = c).entities]]]

\* _save_draft_versions: the drafts that are not published versions.
WithDrafts(content) ==
    [content EXCEPT !.entities = [e \in Entities |->
        LET row == content.entities[e]
            n == IF row = None THEN 0 ELSE Body(FileOf(e)).draft
        IN  IF n = 0 \/ n \in DOMAIN row.versions THEN row ELSE WithVersion(row, e, n)]]

-----------------------------------------------------------------------------
(* Loading: each step is one stage of LearningPackageUnzipper.load         *)

LoadStart(ref) ==
    /\ load = None /\ dump = None /\ archive # NoArchive
    /\ load' = [ref |-> ref, stage |-> "check", types |-> {}, content |-> None]
    /\ UNCHANGED <<packages, types, dump, archive, edits>>

At(stage) == load # None /\ load.stage = stage

Stage(stage, content) == load' = [load EXCEPT !.stage = stage, !.content = content]

LoadCheck ==
    /\ At("check")
    /\ Stage(IF FilesMissing THEN "error" ELSE "extract", None)
    /\ UNCHANGED <<packages, types, dump, archive, edits>>

\* The serializer creates the component types while it validates.
LoadExtract ==
    /\ At("extract")
    /\ load' = [load EXCEPT
          !.stage = IF ErrorsFound THEN "error" ELSE "save",
          !.types = {path.type : path \in ComponentTomls \cap ValidEntities}]
    /\ UNCHANGED <<packages, types, dump, archive, edits>>

LoadSave ==
    /\ At("save")
    /\ packages[load.ref] = None
    /\ Stage("publish", PublishedContent)
    /\ UNCHANGED <<packages, types, dump, archive, edits>>

LoadPublish ==
    /\ At("publish")
    /\ Stage("drafts", WithAllPublished(load.content))
    /\ UNCHANGED <<packages, types, dump, archive, edits>>

\* The call returns with a package, and the transaction is committed.
LoadDrafts ==
    /\ At("drafts")
    /\ packages' = [packages EXCEPT ![load.ref] = WithDrafts(load.content)]
    /\ types' = types \cup load.types
    /\ load' = None
    /\ UNCHANGED <<dump, archive, edits>>

\* The call returns with the errors: that commits the transaction, too.
LoadReturnsErrors ==
    /\ At("error")
    /\ types' = types \cup load.types
    /\ load' = None
    /\ UNCHANGED <<packages, dump, archive, edits>>

\* An exception, a ref that is taken for one: everything is rolled back.
LoadRaises ==
    /\ load # None
    /\ load' = None
    /\ UNCHANGED <<packages, types, dump, archive, edits>>

Load ==
    \/ LoadCheck \/ LoadExtract \/ LoadSave \/ LoadPublish \/ LoadDrafts
    \/ LoadReturnsErrors \/ LoadRaises

Author(p) ==
    \/ \E e \in Entities : CreateEntity(p, e) \/ SoftDelete(p, e)
    \/ \E e \in Entities : \E content \in Contents[e] : CreateNextVersion(p, e, content)
    \/ PublishAll(p)
    \/ \E c \in Codes : DeleteCollection(p, c)
    \/ \E c \in Codes, e \in Entities : Collect(p, c, e)

BackupNext ==
    \/ \E p \in Packages : Author(p) \/ LoadStart(p)
    \/ \E p \in Packages, blank \in BOOLEAN : DumpStart(p, blank)
    \/ DumpEntity \/ DumpCollections \/ DumpEnds \/ DumpFails
    \/ \E c \in Codes, blank \in BOOLEAN : DumpCollection(c, blank)
    \/ \E path \in Files : Damage(path)
    \/ Load

BackupSpec == BackupInit /\ [][BackupNext]_vars

-----------------------------------------------------------------------------
(* Properties                                                              *)

\* What a reader sees of a version: the files that have any text, or the
\* children in their order.
Reads(e, content) ==
    IF Container(e) THEN [i \in DOMAIN content |-> content[i].entity]
                    ELSE {f \in content : f.data # EmptyText}

ReadAlike(e, row, n, restored, m) ==
    /\ n = m
    /\ n # 0 => Reads(e, row.versions[n]) = Reads(e, restored.versions[n])

\* No container of a plugin, and no component that its path does not tell.
Supported(content) ==
    \A e \in Entities : content.entities[e] # None =>
        /\ KindOf[e] # "plugin"
        /\ ~ Container(e) => KindOf[e] \notin OddTypes /\ Slug[NameOf[e]] # ""

Loaded == load # None /\ load' = None /\ packages[load.ref] = None /\ packages'[load.ref] # None

\* A backup that was finished while nobody edited the package, and that nobody
\* tampered with, loads without errors, whatever the deletions and collections of
\* the package and though names share a slug, unless a title is blank, the user's
\* e-mail is no address, or a component has no slug or no type name (create_zip,
\* load; zipper.py).
QuietBackupLoads ==
    (archive.complete /\ archive.quiet /\ ~ archive.damaged /\ ~ archive.blank
       /\ Supported(archive.source)) => ~ At("error")

\* A quiet backup loads, and the package made from a whole one has the entities
\* of its source with their published versions, the drafts apart from them with
\* their numbers, and the enabled collections.  (A draft whose deletion is not
\* published is back.)
RestoreMatchesSource ==
    /\ [](TypeOK /\ QuietBackupLoads)
    /\ [][(Loaded /\ archive.complete /\ ~ archive.damaged) =>
            LET source == archive.source
                new == packages'[load.ref]
            IN  /\ \A e \in Entities :
                      /\ (source.entities[e] = None) = (new.entities[e] = None)
                      /\ new.entities[e] # None =>
                           LET row == source.entities[e]
                               restored == new.entities[e]
                           IN  /\ ReadAlike(e, row, row.published, restored, restored.published)
                               /\ row.draft # 0 => ReadAlike(e, row, row.draft, restored, restored.draft)
                /\ \A c \in Codes :
                      LET collected == source.collections[c]
                      IN  IF collected # None /\ collected.enabled
                          THEN new.collections[c] = collected
                          ELSE new.collections[c] = None
         ]_vars

\* Nor does an unfinished or damaged backup make anything up: what is published
\* in the new package was published in the source under the same number, and no
\* version has a file or a child the source's did not have.
RestoreInventsNothing ==
    [][Loaded =>
         \A e \in Entities :
            LET row == archive.source.entities[e]
                restored == packages'[load.ref].entities[e]
            IN  restored # None =>
                   /\ row # None
                   /\ restored.published \in {0, row.published}
                   /\ restored.draft \in VersionNumbers(row) \cup {0}
                   /\ \A n \in DOMAIN restored.versions :
                        IF Container(e)
                        THEN Range(Reads(e, restored.versions[n])) \subseteq Range(Reads(e, row.versions[n]))
                        ELSE restored.versions[n] \subseteq row.versions[n]
      ]_vars
=============================================================================
