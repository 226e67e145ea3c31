----------------------------- MODULE Publishing -----------------------------
(***************************************************************************)
(* One page of the CMS: CMSPageService, CMSContentService, CMSMediaService *)
(* and the two ways to change a block template, update_block_schema and    *)
(* the form of the Django admin, over the Page, SectionBlockPlacement,     *)
(* ContentVersion, BlockTemplate, MediaFile and MediaUsage tables, and the *)
(* task that removes tombstoned files.                                     *)
(*                                                                         *)
(* Only publish_page locks what it reads.  Every other call reads a row,   *)
(* decides, and saves: the fields it names, or the whole row (update_page, *)
(* update_file, the admin form).  A row once written stays locked until    *)
(* the call commits.  A call is one action per place where another call    *)
(* may come in between; the clean-up is no transaction at all.             *)
(*                                                                         *)
(* The blocks of the page share one template.  Content is what validation  *)
(* tells apart: whether it satisfies the strict schema, and the files it   *)
(* refers to, none of them in a required field.                            *)
(***************************************************************************)
EXTENDS Integers, FiniteSets, Sequences

CONSTANTS
    Blocks,        \* block placements of the page
    Required,      \* those with is_required
    Media,         \* uploaded files
    NoBlock, NoFile,   \* where none is meant
    Threads,       \* requests and tasks at a time
    MaxVersions,   \* cms.max_versions_per_placement
    MaxCalls       \* bound: calls made

ASSUME RequiredAssumption == Required \subseteq Blocks
ASSUME NoneAssumption == NoBlock \notin Blocks /\ NoFile \notin Media
ASSUME BoundAssumption == MaxVersions \in Nat \ {0} /\ MaxCalls \in Nat \ {0}

VARIABLES
    page,       \* the Page row
    block,      \* the SectionBlockPlacement rows
    versions,   \* the ContentVersion rows of each block, the oldest first
    template,   \* the BlockTemplate row
    media,      \* the MediaFile rows and their files
    usage,      \* the MediaUsage rows: files, by layer and block
    calls,      \* calls made so far
    job         \* [Threads -> the call in flight]

tables == <<page, block, versions, template, media, usage>>
vars == <<tables, calls, job>>

Status == {"draft", "published"}
Contents == [full : BOOLEAN, refs : SUBSET Media]
Empty == [full |-> FALSE, refs |-> {}]

Pages == [status : Status, deleted : BOOLEAN]
PlacedBlocks == [draft : Contents, published : Contents, status : Status,
                 validated : Nat, visible : BOOLEAN]
Versions == [number : Nat, content : Contents, draft_save : BOOLEAN]
Templates == [schema : {"lax", "strict"}, version : Nat]

\* row: the row exists.  file: the file is in storage.
Files == [row : BOOLEAN, file : BOOLEAN,
          tombstoned : BOOLEAN, deleted : BOOLEAN]
Layers == {"draft", "published"}

Ops == {"idle", "publish", "unpublish", "update_page", "save", "restore",
        "schema", "schema_form", "update_file", "delete_file", "tombstone",
        "listed", "counted", "removed"}

\* block, file: what the call is about.  locked: it has written, or locked, its
\* block rows.  content: to be saved.  number: of the latest version.  page,
\* version, row: as read.  alive: the files that passed the validation.  used:
\* blocks of which the file was published.  drafts: drafts as read for nulling.
\* "listed", "counted", "removed": how far the clean-up has come with a file.
Jobs == [op : Ops, block : Blocks \cup {NoBlock}, file : Media \cup {NoFile},
         locked : BOOLEAN, content : Contents, number : Nat, page : Pages,
         version : Nat, row : Files, alive : SUBSET Media,
         used : SUBSET Blocks, drafts : [Blocks -> Contents]]

NewFile == [row |-> TRUE, file |-> TRUE,
            tombstoned |-> FALSE, deleted |-> FALSE]
NewPage == [status |-> "draft", deleted |-> FALSE]
Idle == [op |-> "idle", block |-> NoBlock, file |-> NoFile, locked |-> FALSE,
         content |-> Empty, number |-> 0, page |-> NewPage, version |-> 0,
         row |-> NewFile, alive |-> {}, used |-> {},
         drafts |-> [b \in Blocks |-> Empty]]

-----------------------------------------------------------------------------
Free(p) == job[p] = Idle
Counted == calls < MaxCalls /\ calls' = calls + 1
Start(p, j) == Free(p) /\ Counted /\ job' = [job EXCEPT ![p] = j]
Continue(p, j) == job' = [job EXCEPT ![p] = j] /\ UNCHANGED calls
Finish(p) == Continue(p, Idle)

Saves == {"save", "restore"}

\* Row locks held by uncommitted calls.
PageHeld == \E q \in Threads : job[q].op = "publish"
AllBlocksHeld ==
    \E q \in Threads : job[q].op \in {"publish", "unpublish"} /\ job[q].locked

\* Variant: publish_page does not lock the templates of its blocks.
TemplateHeldVariant == FALSE

TemplateHeld == \E q \in Threads : job[q].op = "publish" /\ job[q].locked
FileHeld(m) == \E q \in Threads : job[q].op = "tombstone" /\ job[q].file = m

\* Variant: versions are numbered before the block is written.
BlockFreeVariant(b) == TRUE

BlockFree(b) ==
    /\ ~AllBlocksHeld
    /\ \A q \in Threads : ~(job[q].op \in Saves /\ job[q].block = b)

Exists(m) == media[m].row /\ ~media[m].deleted      \* MediaFile.objects
Live(m) == Exists(m) /\ media[m].file               \* can be shown

-----------------------------------------------------------------------------
(* Content versions                                                        *)

Latest(b) == IF versions[b] = <<>> THEN 0
             ELSE versions[b][Len(versions[b])].number

\* _prune_old_versions
Pruned(rows) == IF Len(rows) <= MaxVersions THEN rows
                ELSE SubSeq(rows, Len(rows) - MaxVersions + 1, Len(rows))

\* _create_content_version
WithVersion(rows, number, content, draft_save) ==
    Pruned(Append(rows, [number |-> number + 1, content |-> content,
                         draft_save |-> draft_save]))

\* _create_content_version_throttled, when the latest version is a draft saved
\* by the same user within the window.
InPlace(rows, content) == [rows EXCEPT ![Len(rows)].content = content]

-----------------------------------------------------------------------------
(* update_draft_content, rollback_content, import_page, toggle_visibility  *)

\* The block row is saved, then the latest version is read.
SaveBlock(p, b, op, content) ==
    /\ BlockFree(b)
    /\ Start(p, [Idle EXCEPT !.op = op, !.block = b, !.content = content,
                             !.number = Latest(b)])
    /\ UNCHANGED tables

BeginSave(p, b, content) == SaveBlock(p, b, "save", content)

BeginRollback(p, b) ==
    \E i \in DOMAIN versions[b] :
        SaveBlock(p, b, "restore", versions[b][i].content)

\* An import of several blocks is as many of these.
BeginImport(p, b, content) ==
    ~page.deleted /\ SaveBlock(p, b, "restore", content)

\* Only update_draft_content keeps the usages of the draft; one of a file that
\* has no row any more fails the call.
CommitSave(p) ==
    LET j == job[p]
        b == j.block
        saved == j.op = "save"
        rows == versions[b]
    IN  /\ j.op \in Saves
        /\ \/ /\ saved /\ \E m \in j.content.refs : ~media[m].row
              /\ UNCHANGED <<block, versions, usage>>
           \/ /\ saved => \A m \in j.content.refs : media[m].row
              /\ block' = [block EXCEPT ![b].draft = j.content]
              /\ \/ versions' = [versions EXCEPT ![b] =
                                   WithVersion(rows, j.number, j.content,
                                               saved)]
                 \/ /\ saved /\ rows # <<>> /\ rows[Len(rows)].draft_save
                    /\ versions' = [versions EXCEPT ![b] =
                                      InPlace(rows, j.content)]
              /\ usage' = IF saved
                          THEN [usage EXCEPT !["draft"][b] = j.content.refs]
                          ELSE usage
        /\ Finish(p)
        /\ UNCHANGED <<page, template, media>>

\* Variant: any block can be hidden.
HideableVariant(b) == TRUE

Hideable(b) == b \notin Required

ToggleVisibility(b) ==
    /\ block[b].visible => Hideable(b)
    /\ BlockFree(b) /\ Counted
    /\ block' = [block EXCEPT ![b].visible = ~@]
    /\ UNCHANGED <<page, versions, template, media, usage, job>>

-----------------------------------------------------------------------------
(* publish_page, unpublish_page, update_page, delete_page                  *)

BeginPublish(p) ==
    /\ ~page.deleted /\ ~PageHeld
    /\ Start(p, [Idle EXCEPT !.op = "publish"])
    /\ UNCHANGED tables

\* SchemaValidator.validate_content, without the files.
Accepts(schema, content) == schema = "lax" \/ content.full

\* Hidden blocks are published without validation.
Skipped(b) == ~block[b].visible /\ b \notin Required

\* Variant: a file need only have a row.
FoundVariant(m) == media[m].row

\* The files that the strict validation lets pass.
Found(m) == Exists(m) /\ ~media[m].tombstoned

Complete(b) == Accepts(template.schema, block[b].draft)

Valid(b) ==
    /\ Complete(b)
    /\ \A m \in block[b].draft.refs : Found(m)

\* The blocks and their template are locked, then all is validated.
LockBlocks(p) ==
    /\ job[p].op = "publish" /\ ~job[p].locked
    /\ \A b \in Blocks : BlockFree(b)
    /\ IF \A b \in Blocks : Skipped(b) \/ Valid(b)
       THEN Continue(p, [job[p] EXCEPT
                !.locked = TRUE,
                !.alive = {m \in Media : media[m].row /\ ~media[m].deleted}])
       ELSE Finish(p)
    /\ UNCHANGED tables

\* Variant: the usages are taken from what was published before.
PublishedRefsVariant(b) == block[b].published.refs

PublishedRefs(b) == block[b].draft.refs

\* A usage of a file whose row is gone fails the call when it commits.
CommitPublish(p) ==
    /\ job[p].op = "publish" /\ job[p].locked
    /\ IF \E b \in Blocks : \E m \in block[b].draft.refs : ~media[m].row
       THEN UNCHANGED tables
       ELSE /\ block' = [b \in Blocks |->
                 [block[b] EXCEPT !.published = block[b].draft,
                                  !.status = "published",
                                  !.validated = template.version]]
            /\ versions' = [b \in Blocks |->
                 WithVersion(versions[b], Latest(b), block[b].draft, FALSE)]
            /\ usage' = [usage EXCEPT !["published"] =
                                        [b \in Blocks |-> PublishedRefs(b)]]
            /\ page' = [page EXCEPT !.status = "published"]
            /\ UNCHANGED <<template, media>>
    /\ Finish(p)

BeginUnpublish(p) ==
    /\ ~page.deleted /\ page.status = "published"
    /\ Start(p, [Idle EXCEPT !.op = "unpublish"])
    /\ UNCHANGED tables

\* The blocks are updated first, the page after them: publish_page takes the
\* locks the other way round.
UpdateBlocks(p) ==
    /\ job[p].op = "unpublish" /\ ~job[p].locked
    /\ \A b \in Blocks : BlockFree(b)
    /\ Continue(p, [job[p] EXCEPT !.locked = TRUE])
    /\ UNCHANGED tables

\* Variant: the blocks stay as they are.
UnpublishedVariant(b) == block[b]

Unpublished(b) == [block[b] EXCEPT !.status = "draft"]

CommitUnpublish(p) ==
    /\ job[p].op = "unpublish" /\ job[p].locked /\ ~PageHeld
    /\ block' = [b \in Blocks |-> Unpublished(b)]
    /\ page' = [page EXCEPT !.status = "draft"]
    /\ Finish(p)
    /\ UNCHANGED <<versions, template, media, usage>>

\* The database ends the deadlock of a publish_page that has the page and an
\* unpublish_page that has the blocks, at the cost of either.
EndDeadlock(p) ==
    /\ \E q \in Threads :
         /\ {job[p].op, job[q].op} = {"publish", "unpublish"}
         /\ \A r \in {p, q} : job[r].locked <=> job[r].op = "unpublish"
    /\ Finish(p)
    /\ UNCHANGED tables

BeginUpdatePage(p) ==
    /\ ~page.deleted
    /\ Start(p, [Idle EXCEPT !.op = "update_page", !.page = page])
    /\ UNCHANGED tables

\* save() without update_fields: status and is_deleted as they were read.
CommitUpdatePage(p) ==
    /\ job[p].op = "update_page" /\ ~PageHeld
    /\ page' = job[p].page
    /\ Finish(p)
    /\ UNCHANGED <<block, versions, template, media, usage>>

DeletePage ==
    /\ ~page.deleted /\ ~PageHeld /\ Counted
    /\ page' = [page EXCEPT !.deleted = TRUE]
    /\ UNCHANGED <<block, versions, template, media, usage, job>>

-----------------------------------------------------------------------------
(* update_block_schema, and the change form of BlockTemplateAdmin          *)

BeginSchema(p) ==
    /\ \E op \in {"schema", "schema_form"} :
         Start(p, [Idle EXCEPT !.op = op, !.version = template.version])
    /\ UNCHANGED tables

SaveTemplate(p, version) ==
    /\ ~TemplateHeld
    /\ \E schema \in {"lax", "strict"} :
         template' = [schema |-> schema, version |-> version]
    /\ Finish(p)
    /\ UNCHANGED <<page, block, versions, media, usage>>

CommitSchema(p) == job[p].op = "schema" /\ SaveTemplate(p, job[p].version + 1)

\* The form shows the number and does not change it; the whole row is saved.
CommitSchemaForm(p) == job[p].op = "schema_form" /\ SaveTemplate(p, job[p].version)

-----------------------------------------------------------------------------
(* update_file, delete_file, cleanup_tombstoned                            *)

BeginUpdateFile(p, m) ==
    /\ Exists(m)
    /\ Start(p, [Idle EXCEPT !.op = "update_file", !.file = m,
                             !.row = media[m]])
    /\ UNCHANGED tables

\* save() without update_fields: a row that is gone is inserted again.
CommitUpdateFile(p) ==
    LET m == job[p].file
    IN  /\ job[p].op = "update_file" /\ ~FileHeld(m)
        /\ media' = [media EXCEPT ![m] =
                       [job[p].row EXCEPT !.file = media[m].file]]
        /\ Finish(p)
        /\ UNCHANGED <<page, block, versions, template, usage>>

PublishedIn(m) == {b \in Blocks : m \in usage["published"][b]}

BeginDeleteFile(p, m) ==
    /\ Exists(m)
    /\ Start(p, [Idle EXCEPT !.op = "delete_file", !.file = m,
                             !.used = PublishedIn(m)])
    /\ UNCHANGED tables

\* Variant: files are always deleted at once.
UnusedVariant(j) == TRUE

\* No usage in the published layer was counted.
Unused(j) == j.used = {}

\* The saves name their fields, and fail when the row is gone.
SoftDelete(p) ==
    LET m == job[p].file
    IN  /\ job[p].op = "delete_file" /\ Unused(job[p]) /\ ~FileHeld(m)
        /\ media' = IF media[m].row
                    THEN [media EXCEPT ![m].deleted = TRUE] ELSE media
        /\ Finish(p)
        /\ UNCHANGED <<page, block, versions, template, usage>>

\* is_tombstoned is saved, and the drafts that use the file are read.
Tombstone(p) ==
    LET m == job[p].file
    IN  /\ job[p].op = "delete_file" /\ ~Unused(job[p]) /\ ~FileHeld(m)
        /\ IF media[m].row
           THEN Continue(p, [job[p] EXCEPT
                    !.op = "tombstone",
                    !.drafts = [b \in Blocks |-> block[b].draft],
                    !.used = {b \in Blocks : m \in usage["draft"][b]}])
           ELSE Finish(p)
        /\ UNCHANGED tables

Without(content, files) == [content EXCEPT !.refs = @ \ files]

\* _null_draft_media_references: the drafts are saved as they were read, without
\* the file.
CommitTombstone(p) ==
    LET j == job[p]
        m == j.file
    IN  /\ j.op = "tombstone" /\ \A b \in j.used : BlockFree(b)
        /\ media' = [media EXCEPT ![m].tombstoned = TRUE]
        /\ block' = [b \in Blocks |->
             IF b \in j.used
             THEN [block[b] EXCEPT !.draft = Without(j.drafts[b], {m})]
             ELSE block[b]]
        /\ usage' = [usage EXCEPT !["draft"] = [b \in Blocks |-> @[b] \ {m}]]
        /\ Finish(p)
        /\ UNCHANGED <<page, versions, template>>

\* cleanup_tombstoned lists the tombstoned files once; a run that goes through
\* several is as many of these.
BeginCleanup(p, m) ==
    /\ Exists(m) /\ media[m].tombstoned
    /\ Start(p, [Idle EXCEPT !.op = "listed", !.file = m])
    /\ UNCHANGED tables

\* The usages in the published layer are counted, without a lock.
CountUsages(p) ==
    LET j == [job[p] EXCEPT !.op = "counted", !.used = PublishedIn(job[p].file)]
    IN  /\ job[p].op = "listed"
        /\ IF Unused(j) THEN Continue(p, j) ELSE Finish(p)
        /\ UNCHANGED tables

\* default_storage.delete
RemoveFile(p) ==
    /\ job[p].op = "counted"
    /\ media' = [media EXCEPT ![job[p].file].file = FALSE]
    /\ Continue(p, [job[p] EXCEPT !.op = "removed"])
    /\ UNCHANGED <<page, block, versions, template, usage>>

\* The row is deleted, with every usage of it.
DeleteRow(p) ==
    LET m == job[p].file
    IN  /\ job[p].op = "removed" /\ ~FileHeld(m)
        /\ media' = [media EXCEPT ![m].row = FALSE]
        /\ usage' = [l \in Layers |-> [b \in Blocks |-> usage[l][b] \ {m}]]
        /\ Finish(p)
        /\ UNCHANGED <<page, block, versions, template>>

\* The task dies, the storage reports an error, or the deletion fails.
CleanupDies(p) ==
    /\ job[p].op \in {"listed", "counted", "removed"}
    /\ Finish(p)
    /\ UNCHANGED tables

-----------------------------------------------------------------------------
Drafts == [Blocks -> {c \in Contents : c.full}]
Version(n, content, draft_save) ==
    [number |-> n, content |-> content, draft_save |-> draft_save]

\* The files are uploaded and each draft has been saved once, complete.
Fresh ==
    \E drafts \in Drafts :
        /\ page = NewPage
        /\ block = [b \in Blocks |->
             [draft |-> drafts[b], published |-> Empty, status |-> "draft",
              validated |-> 0, visible |-> TRUE]]
        /\ versions = [b \in Blocks |-> <<Version(1, drafts[b], TRUE)>>]
        /\ media = [m \in Media |-> NewFile]
        /\ usage = [l \in Layers |-> [b \in Blocks |->
             IF l = "draft" THEN drafts[b].refs ELSE {}]]

\* The page has been published, files of it have been deleted, which tombstoned
\* them, and it has been published again: the next clean-up finds these files.
\* Blocks may have been hidden.
RepublishedAs(drafts, gone, hidden) ==
    /\ page = [NewPage EXCEPT !.status = "published"]
    /\ block = [b \in Blocks |->
         [draft |-> Without(drafts[b], gone),
          published |-> Without(drafts[b], gone),
          status |-> "published", validated |-> 1, visible |-> b \notin hidden]]
    /\ versions = [b \in Blocks |->
         Pruned(<<Version(1, drafts[b], TRUE), Version(2, drafts[b], FALSE),
                  Version(3, Without(drafts[b], gone), FALSE)>>)]
    /\ media = [m \in Media |-> [row |-> TRUE, file |-> TRUE,
                                 tombstoned |-> m \in gone, deleted |-> FALSE]]
    /\ usage = [l \in Layers |->
         [b \in Blocks |-> Without(drafts[b], gone).refs]]

Republished ==
    \E drafts \in Drafts, gone \in SUBSET Media,
       hidden \in SUBSET (Blocks \ Required) :
        /\ \A m \in gone : \E b \in Blocks : m \in drafts[b].refs
        /\ RepublishedAs(drafts, gone, hidden)

Init ==
    /\ Fresh \/ Republished
    /\ \E schema \in {"lax", "strict"} :
         template = [schema |-> schema, version |-> 1]
    /\ calls = 0
    /\ job = [p \in Threads |-> Idle]

Begin(p) ==
    \/ BeginPublish(p) \/ BeginUnpublish(p)
    \/ BeginUpdatePage(p) \/ BeginSchema(p)
    \/ \E b \in Blocks :
         \/ BeginRollback(p, b)
         \/ \E content \in Contents :
              BeginSave(p, b, content) \/ BeginImport(p, b, content)
    \/ \E m \in Media : \/ BeginUpdateFile(p, m) \/ BeginDeleteFile(p, m)
                        \/ BeginCleanup(p, m)

Go(p) ==
    \/ CommitSave(p) \/ LockBlocks(p) \/ CommitPublish(p)
    \/ UpdateBlocks(p) \/ CommitUnpublish(p) \/ EndDeadlock(p)
    \/ CommitUpdatePage(p) \/ CommitSchema(p) \/ CommitSchemaForm(p)
    \/ CommitUpdateFile(p) \/ SoftDelete(p) \/ Tombstone(p)
    \/ CommitTombstone(p) \/ CountUsages(p) \/ RemoveFile(p)
    \/ DeleteRow(p) \/ CleanupDies(p)

Next ==
    \/ \E p \in Threads : Begin(p) \/ Go(p)
    \/ \E b \in Blocks : ToggleVisibility(b)
    \/ DeletePage

Spec == Init /\ [][Next]_vars

-----------------------------------------------------------------------------
\* Every variable holds what its comment says; a required block is visible.
TypeOK ==
    /\ page \in Pages
    /\ block \in [Blocks -> PlacedBlocks]
    /\ \A b \in Blocks :
         \A i \in DOMAIN versions[b] : versions[b][i] \in Versions
    /\ \A b \in Required : block[b].visible
    /\ template \in Templates
    /\ media \in [Media -> Files]
    /\ usage \in [Layers -> [Blocks -> SUBSET Media]]
    /\ calls \in 0..MaxCalls
    /\ job \in [Threads -> Jobs]

\* No two versions of a block have the same number, which no constraint of the
\* table demands, and no more are kept than the limit: what a rollback asks for
\* by number is one version.
VersionsInOrder ==
    \A b \in Blocks :
        /\ Len(versions[b]) <= MaxVersions
        /\ \A i, k \in DOMAIN versions[b] :
             i < k => versions[b][i].number < versions[b][k].number

\* The usages of the published layer, which decide whether a file is removed,
\* are those of the published content, but for files already removed.
UsageIsExact ==
    \A b \in Blocks :
        /\ usage["published"][b] \subseteq block[b].published.refs
        /\ \A m \in block[b].published.refs :
             m \in usage["published"][b] \/ ~media[m].file

Ends(p, op) == job[p].op = op /\ job'[p] = Idle

\* Published content refers to files that can be shown, but for a hidden block,
\* which is not validated, and for three races of a deletion with a publication: a
\* file was deleted after it had passed the validation, or delete_file or the
\* clean-up had counted its usages before the publication committed.
PublishedFilesAreLive ==
    [][\A b \in Blocks : \A m \in block'[b].published.refs :
         \/ Live(m)'
         \/ m \in block[b].published.refs /\ ~Live(m)
         \/ \E p \in Threads : /\ Ends(p, "publish")
                               /\ Skipped(b) \/ m \in job[p].alive
         \/ \E p \in Threads : /\ job[p].file = m /\ job[p].used = {}
                               /\ \/ Ends(p, "delete_file")
                                  \/ job[p].op = "counted"
                                       /\ job'[p].op = "removed"]_vars

Agree == \A b \in Blocks : block[b].status = page.status

\* The page is published when its blocks are, and a deleted page stays deleted:
\* but for an update_page that saves the row it had read before a publication,
\* an end of it or a deletion.
PageStateIsKept ==
    [][\/ Agree' /\ (page.deleted => page'.deleted)
       \/ ~Agree
       \/ \E p \in Threads : Ends(p, "update_page") /\ job[p].page # page]_vars

\* What publish_page has validated is what it publishes: a block that it shows
\* satisfies the schema which the template has when the publication commits, and
\* carries the number of that schema.  No save, roll-back, tombstone or change of
\* the template comes in between, and toggle_visibility does not show a block
\* that has been passed over as hidden.
PublishedAsValidated ==
    [][\A p \in Threads : Ends(p, "publish") /\ versions' # versions =>
         \A b \in Blocks :
            /\ block'[b].status = "published"
            /\ block'[b].validated = template'.version
            /\ Skipped(b)' \/ Accepts(template'.schema, block'[b].published)]_vars
=============================================================================
