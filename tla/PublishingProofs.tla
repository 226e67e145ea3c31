-------------------------- MODULE PublishingProofs --------------------------
(***************************************************************************)
(* One page of the CMS with any number of blocks, files and calls in       *)
(* flight.  The row lock of a block makes version numbers strictly grow,   *)
(* the usages of the published layer are those of the published content,   *)
(* and what publish_page has validated under its locks is what it          *)
(* publishes.  Everything else that goes wrong needs a call that saves     *)
(* what it has read before another one committed.                          *)
(***************************************************************************)
EXTENDS Publishing, SequenceTheorems, TLAPS

\* Call j has written the row of b, or locked it, and not yet committed.
Writes(j, b) ==
    \/ j.op \in Saves /\ j.block = b
    \/ j.op \in {"publish", "unpublish"} /\ j.locked

CleaningUp == {"listed", "counted", "removed"}

\* What call j is about exists, and it still has the latest version.
Known(j) ==
    /\ j.op \in Saves => j.block \in Blocks /\ j.number = Latest(j.block)
    /\ j.op \in {"update_file", "delete_file", "tombstone"} \cup CleaningUp
         => j.file \in Media
    /\ j.op = "update_file" => j.row.row /\ ~j.row.deleted
    /\ j.op \in {"counted", "removed"} => j.used = {}
    /\ j.op = "removed" => ~media[j.file].file

\* What publish_page has validated is still what it is going to publish.
Validated(j) ==
    j.op = "publish" /\ j.locked =>
        \A b \in Blocks :
            Skipped(b) \/ (Complete(b) /\ block[b].draft.refs \subseteq j.alive)

OneWriter ==
    \A b \in Blocks : \A p, q \in Threads :
        Writes(job[p], b) /\ Writes(job[q], b) => p = q
JobsKnown == \A p \in Threads : Known(job[p])
JobsValidated == \A p \in Threads : Validated(job[p])

VersionsTyped == versions \in [Blocks -> Seq(Versions)]

IInv ==
    /\ TypeOK /\ VersionsTyped
    /\ OneWriter /\ JobsKnown /\ JobsValidated
    /\ VersionsInOrder /\ UsageIsExact

-----------------------------------------------------------------------------
(* Versions                                                                *)

Ordered(rows) ==
    \A i, k \in DOMAIN rows : i < k => rows[i].number < rows[k].number

\* A version numbered after the latest one keeps the history in order and within
\* its limit, whatever is pruned.
LEMMA VersionAdded ==
  ASSUME NEW rows \in Seq(Versions), Len(rows) <= MaxVersions, Ordered(rows),
         NEW c \in Contents, NEW d \in BOOLEAN, NEW n \in Nat,
         n = IF rows = <<>> THEN 0 ELSE rows[Len(rows)].number
  PROVE  /\ WithVersion(rows, n, c, d) \in Seq(Versions)
         /\ Len(WithVersion(rows, n, c, d)) <= MaxVersions
         /\ Ordered(WithVersion(rows, n, c, d))
<1> DEFINE v == [number |-> n + 1, content |-> c, draft_save |-> d]
           all == Append(rows, v)
<1>1. v \in Versions /\ v.number = n + 1
  BY DEF Versions
<1> HIDE DEF v
<1>2. /\ all \in Seq(Versions) /\ Len(all) = Len(rows) + 1
      /\ \A i \in 1..Len(rows) : all[i] = rows[i] /\ rows[i].number \in Nat
      /\ all[Len(rows) + 1] = v
  <2>1. \A i \in 1..Len(rows) : rows[i] \in Versions
    OBVIOUS
  <2>2. \A i \in 1..Len(rows) : rows[i].number \in Nat
    BY <2>1 DEF Versions
  <2> QED
    BY <1>1, <2>2
<1>3. \A i \in 1..Len(rows) : rows[i].number <= n
  <2> SUFFICES ASSUME NEW i \in 1..Len(rows)
               PROVE  rows[i].number <= n
    OBVIOUS
  <2>1. rows # <<>> /\ Len(rows) \in 1..Len(rows) /\ n = rows[Len(rows)].number
    OBVIOUS
  <2> QED
    BY <1>2, <2>1 DEF Ordered
<1>4. Ordered(all)
  <2> SUFFICES ASSUME NEW i \in 1..Len(rows) + 1, NEW k \in 1..Len(rows) + 1,
                      i < k
               PROVE  all[i].number < all[k].number
    BY <1>2 DEF Ordered
  <2>1. i \in 1..Len(rows)
    OBVIOUS
  <2>2. CASE k = Len(rows) + 1
    BY <1>1, <1>2, <1>3, <2>1, <2>2
  <2>3. CASE k \in 1..Len(rows)
    BY <1>2, <2>1, <2>3 DEF Ordered
  <2> QED
    BY <2>2, <2>3
<1> HIDE DEF all
<1>5. WithVersion(rows, n, c, d) = Pruned(all)
  BY DEF WithVersion, all, v
<1>6. CASE Len(all) <= MaxVersions
  BY <1>2, <1>4, <1>5, <1>6 DEF Pruned
<1>7. CASE Len(all) > MaxVersions
  <2> DEFINE kept == SubSeq(all, 2, Len(all))
  <2>1. Len(all) = MaxVersions + 1 /\ Pruned(all) = kept
    BY <1>2, <1>7, BoundAssumption DEF Pruned
  <2>2. /\ kept \in Seq(Versions) /\ Len(kept) = MaxVersions
        /\ \A i \in 1..MaxVersions : kept[i] = all[i + 1]
    BY <1>2, <2>1, BoundAssumption
  <2> HIDE DEF kept
  <2>3. Ordered(kept)
    <3> SUFFICES ASSUME NEW i \in 1..MaxVersions, NEW k \in 1..MaxVersions,
                        i < k
                 PROVE  kept[i].number < kept[k].number
      BY <2>2 DEF Ordered
    <3>1. i + 1 \in DOMAIN all /\ k + 1 \in DOMAIN all /\ i + 1 < k + 1
      BY <1>2, <2>1, BoundAssumption
    <3> QED
      BY <1>4, <2>2, <3>1 DEF Ordered
  <2> QED
    BY <1>5, <2>1, <2>2, <2>3, BoundAssumption
<1> QED
  BY <1>2, <1>6, <1>7, BoundAssumption

\* So does new content for the latest version.
LEMMA VersionReplaced ==
  ASSUME NEW rows \in Seq(Versions), Ordered(rows), rows # <<>>,
         NEW c \in Contents
  PROVE  /\ InPlace(rows, c) \in Seq(Versions)
         /\ Len(InPlace(rows, c)) = Len(rows)
         /\ Ordered(InPlace(rows, c))
<1> DEFINE v == [rows[Len(rows)] EXCEPT !.content = c]
           new == InPlace(rows, c)
<1>1. Len(rows) \in 1..Len(rows) /\ rows[Len(rows)] \in Versions
  OBVIOUS
<1>2. v \in Versions /\ v.number = rows[Len(rows)].number
  BY <1>1 DEF Versions
<1>3. new = [rows EXCEPT ![Len(rows)] = v]
  BY DEF InPlace
<1> HIDE DEF v
<1>4. /\ new \in Seq(Versions) /\ Len(new) = Len(rows)
      /\ \A i \in 1..Len(rows) : new[i] = IF i = Len(rows) THEN v ELSE rows[i]
  BY <1>1, <1>2, <1>3, ExceptSeq
<1> HIDE DEF new
<1>5. \A i \in 1..Len(rows) : new[i].number = rows[i].number
  BY <1>2, <1>4
<1>6. Ordered(new)
  BY <1>4, <1>5 DEF Ordered
<1> QED
  BY <1>4, <1>6 DEF new

-----------------------------------------------------------------------------
(* Calls that change only the job table                                    *)

LEMMA IdleTyped ==
  /\ Idle \in Jobs /\ Idle.op = "idle" /\ ~Idle.locked /\ Idle.used = {}
  /\ Empty \in Contents /\ NewPage \in Pages /\ NewFile \in Files
<1>1. Empty \in Contents /\ NewPage \in Pages /\ NewFile \in Files
  BY DEF Empty, Contents, NewPage, Pages, Status, NewFile, Files
<1>2. [b \in Blocks |-> Empty] \in [Blocks -> Contents]
  BY <1>1
<1> HIDE DEF Empty, NewPage, NewFile
<1> QED
  BY <1>1, <1>2 DEF Idle, Jobs, Ops

\* The job table after p goes on with j.
LEMMA JobIs ==
  ASSUME TypeOK, NEW p \in Threads, NEW j \in Jobs,
         job' = [job EXCEPT ![p] = j]
  PROVE  /\ job' \in [Threads -> Jobs] /\ job'[p] = j
         /\ \A q \in Threads : q # p => job'[q] = job[q]
  BY DEF TypeOK

\* A call may begin or go on with j when j is about something, is the only one to
\* write its blocks, and has validated them if it is about to publish them.
LEMMA JobKeepsIInv ==
  ASSUME IInv, UNCHANGED tables, calls' \in 0..MaxCalls,
         NEW p \in Threads, NEW j \in Jobs, job' = [job EXCEPT ![p] = j],
         Known(j), Validated(j),
         \A b \in Blocks : Writes(j, b) =>
            \A q \in Threads : q # p => ~Writes(job[q], b)
  PROVE  IInv'
<1>1. /\ job' \in [Threads -> Jobs] /\ job'[p] = j
      /\ \A q \in Threads : q # p => job'[q] = job[q]
  BY JobIs DEF IInv
<1>2. TypeOK' /\ VersionsTyped' /\ VersionsInOrder' /\ UsageIsExact'
  BY <1>1 DEF IInv, TypeOK, VersionsTyped, VersionsInOrder, UsageIsExact, tables
<1>3. OneWriter'
  BY <1>1 DEF IInv, OneWriter, Writes
<1>4. JobsKnown'
  BY <1>1 DEF IInv, JobsKnown, Known, Latest, tables
<1>5. JobsValidated'
  BY <1>1 DEF IInv, JobsValidated, Validated, Skipped, Complete, Accepts, tables
<1> QED
  BY <1>2, <1>3, <1>4, <1>5 DEF IInv

LEMMA FinishKeepsIInv ==
  ASSUME IInv, UNCHANGED tables, NEW p \in Threads, Finish(p)
  PROVE  IInv'
<1>1. Known(Idle) /\ Validated(Idle) /\ \A b \in Blocks : ~Writes(Idle, b)
  BY IdleTyped DEF Known, CleaningUp, Validated, Writes, Saves
<1> QED
  BY <1>1, IdleTyped, JobKeepsIInv DEF Finish, Continue, IInv, TypeOK

LEMMA StartKeepsIInv ==
  ASSUME IInv, UNCHANGED tables, NEW p \in Threads, NEW j \in Jobs, Start(p, j),
         Known(j), ~j.locked, j.op \notin Saves
  PROVE  IInv'
<1>1. calls' \in 0..MaxCalls
  BY BoundAssumption DEF Start, Counted, IInv, TypeOK
<1>2. Validated(j) /\ \A b \in Blocks : ~Writes(j, b)
  BY DEF Validated, Writes
<1> QED
  BY <1>1, <1>2, JobKeepsIInv DEF Start

\* The calls that begin by reading only.
LEMMA ReadsKeepIInv ==
  ASSUME IInv, NEW p \in Threads,
         \/ BeginPublish(p) \/ BeginUnpublish(p)
         \/ BeginUpdatePage(p) \/ BeginSchema(p)
         \/ \E m \in Media : \/ BeginUpdateFile(p, m) \/ BeginDeleteFile(p, m)
                             \/ BeginCleanup(p, m)
  PROVE  IInv'
<1> USE IdleTyped
<1>0. TypeOK
  BY DEF IInv
<1>1. \A j \in Jobs, op \in Ops : [j EXCEPT !.op = op] \in Jobs
  BY DEF Jobs
<1>2. CASE BeginPublish(p) \/ BeginUnpublish(p)
  <2>1. PICK op \in {"publish", "unpublish"} :
          Start(p, [Idle EXCEPT !.op = op]) /\ UNCHANGED tables
    BY <1>2 DEF BeginPublish, BeginUnpublish
  <2> DEFINE j == [Idle EXCEPT !.op = op]
  <2>2. j \in Jobs /\ j.op = op /\ ~j.locked
    <3>1. op \in Ops
      BY DEF Ops
    <3>2. j \in Jobs
      BY <1>1, <3>1
    <3>3. j.op = op /\ j.locked = Idle.locked
      BY DEF Idle
    <3> QED
      BY <3>2, <3>3
  <2> HIDE DEF j
  <2>3. Start(p, j)
    BY <2>1 DEF j
  <2>4. Known(j) /\ j.op \notin Saves
    BY <2>2 DEF Known, CleaningUp, Saves
  <2> QED
    BY <2>1, <2>2, <2>3, <2>4, StartKeepsIInv
<1>3. CASE BeginUpdatePage(p)
  <2> DEFINE j == [Idle EXCEPT !.op = "update_page", !.page = page]
  <2>1. j \in Jobs /\ j.op = "update_page" /\ ~j.locked
    BY <1>0 DEF Jobs, Ops, TypeOK
  <2>2. Start(p, j) /\ UNCHANGED tables
    BY <1>3 DEF BeginUpdatePage
  <2> HIDE DEF j
  <2> QED
    BY <2>1, <2>2, StartKeepsIInv DEF Known, CleaningUp, Saves
<1>4. CASE BeginSchema(p)
  <2>0. PICK op \in {"schema", "schema_form"} :
          /\ Start(p, [Idle EXCEPT !.op = op, !.version = template.version])
          /\ UNCHANGED tables
    BY <1>4 DEF BeginSchema
  <2> DEFINE j == [Idle EXCEPT !.op = op, !.version = template.version]
  <2>1. j \in Jobs /\ j.op \in {"schema", "schema_form"} /\ ~j.locked
    BY <1>0 DEF Jobs, Ops, TypeOK, Templates
  <2>2. Start(p, j) /\ UNCHANGED tables
    BY <2>0
  <2> HIDE DEF j
  <2> QED
    BY <2>1, <2>2, StartKeepsIInv DEF Known, CleaningUp, Saves
<1>5. ASSUME NEW m \in Media, BeginUpdateFile(p, m)
      PROVE  IInv'
  <2> DEFINE j == [Idle EXCEPT !.op = "update_file", !.file = m, !.row = media[m]]
  <2>1. /\ j \in Jobs /\ j.op = "update_file" /\ ~j.locked
        /\ j.file = m /\ j.row = media[m]
    BY <1>0 DEF Jobs, Ops, TypeOK
  <2>2. Start(p, j) /\ UNCHANGED tables /\ media[m].row /\ ~media[m].deleted
    BY <1>5 DEF BeginUpdateFile, Exists
  <2> HIDE DEF j
  <2> QED
    BY <2>1, <2>2, StartKeepsIInv DEF Known, CleaningUp, Saves
<1>6. ASSUME NEW m \in Media, BeginDeleteFile(p, m)
      PROVE  IInv'
  <2> DEFINE j == [Idle EXCEPT !.op = "delete_file", !.file = m,
                               !.used = PublishedIn(m)]
  <2>1. j \in Jobs /\ j.op = "delete_file" /\ ~j.locked /\ j.file = m
    BY <1>0 DEF Jobs, Ops, TypeOK, PublishedIn
  <2>2. Start(p, j) /\ UNCHANGED tables
    BY <1>6 DEF BeginDeleteFile
  <2> HIDE DEF j
  <2> QED
    BY <2>1, <2>2, StartKeepsIInv DEF Known, CleaningUp, Saves
<1>7. ASSUME NEW m \in Media, BeginCleanup(p, m)
      PROVE  IInv'
  <2> DEFINE j == [Idle EXCEPT !.op = "listed", !.file = m]
  <2>1. j \in Jobs /\ j.op = "listed" /\ ~j.locked /\ j.file = m
    BY DEF Jobs, Ops
  <2>2. Start(p, j) /\ UNCHANGED tables
    BY <1>7 DEF BeginCleanup
  <2> HIDE DEF j
  <2> QED
    BY <2>1, <2>2, StartKeepsIInv DEF Known, CleaningUp, Saves
<1> QED
  BY <1>2, <1>3, <1>4, <1>5, <1>6, <1>7

\* A save, rollback or import writes the row of its block, which is free.
LEMMA SaveBlockKeepsIInv ==
  ASSUME IInv, NEW p \in Threads, NEW b \in Blocks, NEW op \in Saves,
         NEW content \in Contents, SaveBlock(p, b, op, content)
  PROVE  IInv'
<1> DEFINE j == [Idle EXCEPT !.op = op, !.block = b, !.content = content,
                             !.number = Latest(b)]
<1>1. Latest(b) \in Nat
  <2>1. versions[b] \in Seq(Versions)
    BY DEF IInv, VersionsTyped
  <2>2. versions[b] # <<>> => versions[b][Len(versions[b])] \in Versions
    BY <2>1
  <2> QED
    BY <2>1, <2>2 DEF Latest, Versions
<1>2. /\ j \in Jobs /\ j.op = op /\ ~j.locked /\ j.block = b
      /\ j.number = Latest(b)
  BY <1>1, IdleTyped DEF Jobs, Ops, Saves
<1>3. Start(p, j) /\ UNCHANGED tables /\ BlockFree(b)
  BY DEF SaveBlock
<1> HIDE DEF j
<1>4. Known(j) /\ Validated(j)
  BY <1>2 DEF Known, CleaningUp, Validated, Saves
<1>5. \A q \in Threads : ~Writes(job[q], b)
  BY <1>3 DEF BlockFree, AllBlocksHeld, Writes
<1>6. \A c \in Blocks : Writes(j, c) => c = b
  BY <1>2 DEF Writes
<1>7. calls' \in 0..MaxCalls
  BY <1>3, BoundAssumption DEF Start, Counted, IInv, TypeOK
<1> QED
  BY <1>2, <1>3, <1>4, <1>5, <1>6, <1>7, JobKeepsIInv DEF Start

LEMMA BeginSaveKeepsIInv ==
  ASSUME IInv, NEW p \in Threads, NEW b \in Blocks,
         \/ BeginRollback(p, b)
         \/ \E content \in Contents :
              BeginSave(p, b, content) \/ BeginImport(p, b, content)
  PROVE  IInv'
<1>1. ASSUME NEW i \in DOMAIN versions[b]
      PROVE  versions[b][i].content \in Contents
  <2>1. versions[b] \in Seq(Versions)
    BY DEF IInv, VersionsTyped
  <2>2. versions[b][i] \in Versions
    BY <2>1
  <2> QED
    BY <2>2 DEF Versions
<1> QED
  BY <1>1, SaveBlockKeepsIInv DEF BeginRollback, BeginSave, BeginImport, Saves

\* publish_page locks and validates; unpublish_page updates its blocks.
LEMMA LockKeepsIInv ==
  ASSUME IInv, NEW p \in Threads, LockBlocks(p) \/ UpdateBlocks(p)
  PROVE  IInv'
<1>1. /\ job[p] \in Jobs /\ UNCHANGED tables
      /\ \A b \in Blocks : \A q \in Threads : ~Writes(job[q], b)
      /\ TypeOK
  BY DEF LockBlocks, UpdateBlocks, IInv, TypeOK, BlockFree, AllBlocksHeld, Writes
<1>2. CASE LockBlocks(p) /\ \A b \in Blocks : Skipped(b) \/ Valid(b)
  <2> DEFINE alive == {m \in Media : media[m].row /\ ~media[m].deleted}
             j == [job[p] EXCEPT !.locked = TRUE, !.alive = alive]
  <2>1. Continue(p, j)
    BY <1>2 DEF LockBlocks
  <2>2. j \in Jobs /\ j.op = "publish" /\ j.alive = alive
    BY <1>1, <1>2 DEF LockBlocks, Jobs
  <2>3. \A b \in Blocks : Valid(b) => block[b].draft.refs \subseteq alive
    BY <1>1 DEF Valid, Found, Exists, TypeOK, PlacedBlocks, Contents
  <2> HIDE DEF j, alive
  <2>4. Known(j) /\ Validated(j)
    BY <1>2, <2>2, <2>3 DEF Known, CleaningUp, Validated, Valid, Saves
  <2> QED
    BY <1>1, <2>1, <2>2, <2>4, JobKeepsIInv DEF Continue, TypeOK
<1>3. CASE LockBlocks(p) /\ ~\A b \in Blocks : Skipped(b) \/ Valid(b)
  BY <1>1, <1>3, FinishKeepsIInv DEF LockBlocks
<1>4. CASE UpdateBlocks(p)
  <2> DEFINE j == [job[p] EXCEPT !.locked = TRUE]
  <2>1. Continue(p, j)
    BY <1>4 DEF UpdateBlocks
  <2>2. j \in Jobs /\ j.op = "unpublish"
    BY <1>1, <1>4 DEF UpdateBlocks, Jobs
  <2> HIDE DEF j
  <2>3. Known(j) /\ Validated(j)
    BY <2>2 DEF Known, CleaningUp, Validated, Saves
  <2> QED
    BY <1>1, <2>1, <2>2, <2>3, JobKeepsIInv DEF Continue, TypeOK
<1> QED
  BY <1>2, <1>3, <1>4

\* Calls that end without a trace, the first step of a tombstone, and the count of
\* the clean-up.
LEMMA NothingWrittenKeepsIInv ==
  ASSUME IInv, NEW p \in Threads,
         EndDeadlock(p) \/ CleanupDies(p) \/ Tombstone(p) \/ CountUsages(p)
  PROVE  IInv'
<1>1. CASE UNCHANGED tables /\ Finish(p)
  BY <1>1, FinishKeepsIInv
<1>2. CASE Tombstone(p) /\ ~Finish(p)
  <2> DEFINE m == job[p].file
             drafts == [b \in Blocks |-> block[b].draft]
             used == {b \in Blocks : m \in usage["draft"][b]}
             j == [job[p] EXCEPT !.op = "tombstone", !.drafts = drafts,
                                 !.used = used]
  <2>1. Continue(p, j) /\ UNCHANGED tables /\ job[p].op = "delete_file"
    BY <1>2 DEF Tombstone
  <2>2. job[p] \in Jobs /\ m \in Media /\ drafts \in [Blocks -> Contents]
    BY <2>1 DEF IInv, TypeOK, PlacedBlocks, JobsKnown, Known, CleaningUp
  <2> HIDE DEF drafts, used
  <2>3. j \in Jobs /\ j.op = "tombstone" /\ j.file = m
    BY <2>2 DEF Jobs, Ops, used
  <2> HIDE DEF j
  <2>4. Known(j) /\ Validated(j) /\ \A b \in Blocks : ~Writes(j, b)
    BY <2>2, <2>3 DEF Known, CleaningUp, Validated, Writes, Saves
  <2> QED
    BY <2>1, <2>3, <2>4, JobKeepsIInv DEF Continue, IInv, TypeOK
<1>3. CASE CountUsages(p) /\ ~Finish(p)
  <2> DEFINE j == [job[p] EXCEPT !.op = "counted",
                                 !.used = PublishedIn(job[p].file)]
  <2>1. /\ Continue(p, j) /\ UNCHANGED tables /\ job[p].op = "listed"
        /\ Unused(j)
    BY <1>3 DEF CountUsages
  <2>2. job[p] \in Jobs /\ job[p].file \in Media
    BY <2>1 DEF IInv, TypeOK, JobsKnown, Known, CleaningUp
  <2>3. PublishedIn(job[p].file) \subseteq Blocks
    BY DEF PublishedIn
  <2>4. /\ j \in Jobs /\ j.op = "counted" /\ j.file \in Media
        /\ j.used = {}
    BY <2>1, <2>2, <2>3 DEF Jobs, Ops, Unused
  <2> HIDE DEF j
  <2>5. Known(j) /\ Validated(j) /\ \A b \in Blocks : ~Writes(j, b)
    BY <2>4 DEF Known, CleaningUp, Validated, Writes, Saves
  <2> QED
    BY <2>1, <2>4, <2>5, JobKeepsIInv DEF Continue, IInv, TypeOK
<1> QED
  BY <1>1, <1>2, <1>3 DEF EndDeadlock, CleanupDies, Tombstone, CountUsages

-----------------------------------------------------------------------------
(* Calls that change the tables                                            *)

\* Blocks and versions change only under the row lock, templates only when none
\* is held, and no file comes back: what the other calls have read holds.
LEMMA OthersKeepTheirs ==
  ASSUME IInv,
         \A q \in Threads : job'[q] = job[q] \/ job'[q] = Idle,
         \A b \in Blocks :
            \/ versions'[b] = versions[b] /\ block'[b] = block[b]
            \/ \A q \in Threads : Writes(job[q], b) => job'[q] = Idle,
         template' = template \/ ~TemplateHeld,
         \A m \in Media : ~media[m].file => ~media'[m].file
  PROVE  OneWriter' /\ JobsKnown' /\ JobsValidated'
<1>1. \A b \in Blocks : ~Writes(Idle, b)
  BY IdleTyped DEF Writes, Saves
<1>2. OneWriter'
  BY <1>1 DEF IInv, OneWriter, Writes
<1>3. JobsKnown'
  <2> SUFFICES ASSUME NEW q \in Threads PROVE Known(job[q])'
    BY DEF JobsKnown
  <2>1. CASE job'[q] = Idle
    BY <2>1, IdleTyped DEF Known, CleaningUp, Saves
  <2>2. CASE job'[q] = job[q] /\ job[q] # Idle
    <3>1. Known(job[q])
      BY DEF IInv, JobsKnown
    <3>2. ASSUME job[q].op \in Saves
          PROVE  Latest(job[q].block)' = Latest(job[q].block)
      <4>1. job[q].block \in Blocks /\ Writes(job[q], job[q].block)
        BY <3>1, <3>2 DEF Known, Writes
      <4>2. versions'[job[q].block] = versions[job[q].block]
        BY <2>2, <4>1
      <4> QED
        BY <2>2, <4>2 DEF Latest
    <3> QED
      BY <2>2, <3>1, <3>2 DEF Known, CleaningUp
  <2> QED
    BY <2>1, <2>2
<1>4. JobsValidated'
  <2> SUFFICES ASSUME NEW q \in Threads PROVE Validated(job[q])'
    BY DEF JobsValidated
  <2>1. CASE job'[q] = Idle
    BY <2>1, IdleTyped DEF Validated
  <2>2. CASE job'[q] = job[q] /\ job[q] # Idle
    <3> SUFFICES ASSUME job[q].op = "publish", job[q].locked, NEW b \in Blocks
                 PROVE  (\/ Skipped(b)
                         \/ /\ Complete(b)
                            /\ block[b].draft.refs \subseteq job[q].alive)'
      BY <2>2 DEF Validated
    <3>1. \/ Skipped(b)
          \/ Complete(b) /\ block[b].draft.refs \subseteq job[q].alive
      BY DEF IInv, JobsValidated, Validated
    <3>2. template' = template
      BY DEF TemplateHeld
    <3>3. block'[b] = block[b]
      BY <2>2 DEF Writes
    <3> QED
      BY <2>2, <3>1, <3>2, <3>3 DEF Skipped, Complete, Accepts
  <2> QED
    BY <2>1, <2>2
<1> QED
  BY <1>2, <1>3, <1>4

\* The job table after call p has ended.
LEMMA Ended ==
  ASSUME IInv, NEW p \in Threads, Finish(p)
  PROVE  /\ job' \in [Threads -> Jobs] /\ job'[p] = Idle
         /\ \A q \in Threads : job'[q] = job[q] \/ job'[q] = Idle
         /\ calls' \in 0..MaxCalls
         /\ \A b \in Blocks : Writes(job[p], b) =>
              \A q \in Threads : Writes(job[q], b) => job'[q] = Idle
  BY IdleTyped, JobIs DEF Finish, Continue, IInv, TypeOK, OneWriter

\* Saving a block adds one version, or replaces the content of the latest, and
\* does not touch what is published.
LEMMA CommitSaveKeepsIInv ==
  ASSUME IInv, NEW p \in Threads, CommitSave(p)
  PROVE  IInv'
<1> DEFINE j == job[p]
           b == j.block
<1>1. /\ j \in Jobs /\ j.op \in Saves /\ Writes(j, b)
      /\ b \in Blocks /\ j.number = Latest(b)
  BY DEF IInv, TypeOK, JobsKnown, Known, CommitSave, Writes
<1>2. j.content \in Contents /\ j.number \in Nat
  BY <1>1 DEF Jobs
<1>3. Finish(p) /\ UNCHANGED <<page, template, media>>
  BY DEF CommitSave
<1>4. CASE UNCHANGED tables
  BY <1>3, <1>4, FinishKeepsIInv
<1>5. CASE ~UNCHANGED tables
  <2>1. PICK rows \in {WithVersion(versions[b], j.number, j.content, j.op = "save"),
                       InPlace(versions[b], j.content)} :
          /\ versions' = [versions EXCEPT ![b] = rows]
          /\ \/ rows = WithVersion(versions[b], j.number, j.content, j.op = "save")
             \/ versions[b] # <<>> /\ rows = InPlace(versions[b], j.content)
    BY <1>3, <1>5 DEF CommitSave, tables
  <2>2. block' = [block EXCEPT ![b].draft = j.content]
    BY <1>3, <1>5 DEF CommitSave, tables
  <2>3. usage' \in {usage, [usage EXCEPT !["draft"][b] = j.content.refs]}
    BY <1>3, <1>5 DEF CommitSave, tables
  <2>4. versions[b] \in Seq(Versions) /\ Len(versions[b]) <= MaxVersions
        /\ Ordered(versions[b])
    BY <1>1 DEF IInv, VersionsTyped, VersionsInOrder, Ordered
  <2>5. rows \in Seq(Versions) /\ Len(rows) <= MaxVersions /\ Ordered(rows)
    <3>1. CASE versions[b] # <<>> /\ rows = InPlace(versions[b], j.content)
      BY <1>2, <2>4, <3>1, VersionReplaced
    <3>2. CASE rows = WithVersion(versions[b], j.number, j.content, j.op = "save")
      BY <1>1, <1>2, <2>4, <3>2, VersionAdded DEF Latest
    <3> QED
      BY <2>1, <3>1, <3>2
  <2> HIDE DEF j, b
  <2>6. /\ versions' \in [Blocks -> Seq(Versions)] /\ versions'[b] = rows
        /\ \A c \in Blocks : c # b => versions'[c] = versions[c]
    BY <1>1, <2>1, <2>5 DEF IInv, VersionsTyped
  <2>7. VersionsTyped' /\ VersionsInOrder'
    BY <2>5, <2>6 DEF IInv, VersionsTyped, VersionsInOrder, Ordered
  <2>8. /\ block' \in [Blocks -> PlacedBlocks]
        /\ \A c \in Blocks : /\ block'[c].visible = block[c].visible
                             /\ block'[c].published = block[c].published
                             /\ c # b => block'[c] = block[c]
    BY <1>1, <1>2, <2>2 DEF IInv, TypeOK, PlacedBlocks
  <2>9. /\ usage' \in [Layers -> [Blocks -> SUBSET Media]]
        /\ usage'["published"] = usage["published"]
    BY <1>1, <1>2, <2>3 DEF IInv, TypeOK, Layers, Contents
  <2>10. TypeOK'
    <3>1. \A c \in Blocks : \A i \in DOMAIN versions'[c] : versions'[c][i] \in Versions
      BY <2>6
    <3> QED
      BY <1>3, <2>8, <2>9, <3>1, Ended, RequiredAssumption DEF IInv, TypeOK
  <2>11. UsageIsExact'
    BY <1>3, <2>8, <2>9 DEF IInv, UsageIsExact
  <2>12. OneWriter' /\ JobsKnown' /\ JobsValidated'
    <3>1. \A q \in Threads : Writes(job[q], b) => job'[q] = Idle
      BY <1>1, <1>3, Ended DEF j
    <3> QED
      BY <1>3, <2>6, <2>8, <3>1, Ended, OthersKeepTheirs
  <2> QED
    BY <2>7, <2>10, <2>11, <2>12 DEF IInv
<1> QED
  BY <1>4, <1>5

\* Publishing adds a version to each block, and makes the usages of the published
\* layer those of the drafts that it publishes.
LEMMA CommitPublishKeepsIInv ==
  ASSUME IInv, NEW p \in Threads, CommitPublish(p)
  PROVE  IInv'
<1>1. /\ Finish(p) /\ UNCHANGED <<template, media>>
      /\ \A b \in Blocks : Writes(job[p], b)
  BY DEF CommitPublish, tables, Writes
<1>2. CASE UNCHANGED tables
  BY <1>1, <1>2, FinishKeepsIInv
<1>3. CASE ~UNCHANGED tables
  <2>1. block' = [b \in Blocks |->
                   [block[b] EXCEPT !.published = block[b].draft,
                                    !.status = "published",
                                    !.validated = template.version]]
    BY <1>3 DEF CommitPublish
  <2>2. versions' = [b \in Blocks |->
          WithVersion(versions[b], Latest(b), block[b].draft, FALSE)]
    BY <1>3 DEF CommitPublish
  <2>3. usage' = [usage EXCEPT !["published"] =
                                 [b \in Blocks |-> block[b].draft.refs]]
    BY <1>3 DEF CommitPublish, PublishedRefs
  <2>4. page' = [page EXCEPT !.status = "published"]
    BY <1>3 DEF CommitPublish
  <2>5. /\ block \in [Blocks -> PlacedBlocks] /\ template.version \in Nat
        /\ usage \in [Layers -> [Blocks -> SUBSET Media]] /\ page \in Pages
    BY DEF IInv, TypeOK, Templates
  <2>6. \A b \in Blocks : block[b].draft \in Contents
                          /\ block[b].draft.refs \subseteq Media
    BY <2>5 DEF PlacedBlocks, Contents
  <2>7. /\ block' \in [Blocks -> PlacedBlocks]
        /\ \A b \in Blocks : /\ block'[b].visible = block[b].visible
                             /\ block'[b].published = block[b].draft
    BY <2>1, <2>5, <2>6 DEF PlacedBlocks, Status
  <2>8. /\ usage' \in [Layers -> [Blocks -> SUBSET Media]]
        /\ \A b \in Blocks : usage'["published"][b] = block[b].draft.refs
    BY <2>3, <2>5, <2>6 DEF Layers
  <2>9. page' \in Pages
    BY <2>4, <2>5 DEF Pages, Status
  <2>10. \A b \in Blocks : /\ versions'[b] \in Seq(Versions)
                           /\ Len(versions'[b]) <= MaxVersions
                           /\ Ordered(versions'[b])
    <3> SUFFICES ASSUME NEW b \in Blocks
                 PROVE  /\ versions'[b] \in Seq(Versions)
                        /\ Len(versions'[b]) <= MaxVersions
                        /\ Ordered(versions'[b])
      OBVIOUS
    <3>1. versions[b] \in Seq(Versions) /\ Len(versions[b]) <= MaxVersions
          /\ Ordered(versions[b])
      BY DEF IInv, VersionsTyped, VersionsInOrder, Ordered
    <3>2. Latest(b) \in Nat
      <4>1. versions[b] # <<>> => versions[b][Len(versions[b])] \in Versions
        BY <3>1
      <4> QED
        BY <4>1 DEF Latest, Versions
    <3>3. versions'[b] = WithVersion(versions[b], Latest(b), block[b].draft, FALSE)
      BY <2>2
    <3> QED
      BY <2>6, <3>1, <3>2, <3>3, VersionAdded DEF Latest
  <2>11. VersionsTyped' /\ VersionsInOrder'
    BY <2>2, <2>10 DEF VersionsTyped, VersionsInOrder, Ordered
  <2>12. TypeOK'
    <3>1. \A c \in Blocks : \A i \in DOMAIN versions'[c] : versions'[c][i] \in Versions
      BY <2>10
    <3> QED
      BY <1>1, <2>7, <2>8, <2>9, <3>1, Ended, RequiredAssumption DEF IInv, TypeOK
  <2>13. UsageIsExact'
    BY <2>7, <2>8 DEF UsageIsExact
  <2>14. OneWriter' /\ JobsKnown' /\ JobsValidated'
    BY <1>1, Ended, OthersKeepTheirs
  <2> QED
    BY <2>11, <2>12, <2>13, <2>14 DEF IInv
<1> QED
  BY <1>2, <1>3

\* unpublish_page writes the status of every block, and of the page.
LEMMA CommitUnpublishKeepsIInv ==
  ASSUME IInv, NEW p \in Threads, CommitUnpublish(p)
  PROVE  IInv'
<1>1. /\ Finish(p) /\ UNCHANGED <<versions, template, media, usage>>
      /\ \A b \in Blocks : Writes(job[p], b)
      /\ block' = [b \in Blocks |-> [block[b] EXCEPT !.status = "draft"]]
      /\ page' = [page EXCEPT !.status = "draft"]
  BY DEF CommitUnpublish, Unpublished, Writes
<1>2. /\ block' \in [Blocks -> PlacedBlocks] /\ page' \in Pages
      /\ \A b \in Blocks : /\ block'[b].visible = block[b].visible
                           /\ block'[b].published = block[b].published
  BY <1>1 DEF IInv, TypeOK, PlacedBlocks, Pages, Status
<1>3. TypeOK' /\ VersionsTyped' /\ VersionsInOrder' /\ UsageIsExact'
  BY <1>1, <1>2, Ended, RequiredAssumption
  DEF IInv, TypeOK, VersionsTyped, VersionsInOrder, UsageIsExact
<1>4. OneWriter' /\ JobsKnown' /\ JobsValidated'
  BY <1>1, Ended, OthersKeepTheirs
<1> QED
  BY <1>3, <1>4 DEF IInv

\* What a call on the page row, or on the template, changes nobody has read under
\* a lock.
LEMMA PageKeepsIInv ==
  ASSUME IInv,
         \/ \E p \in Threads : \/ CommitUpdatePage(p) \/ CommitSchema(p)
                               \/ CommitSchemaForm(p)
         \/ DeletePage
  PROVE  IInv'
<1>1. UNCHANGED <<block, versions, media, usage>>
  BY DEF CommitUpdatePage, CommitSchema, CommitSchemaForm, SaveTemplate, DeletePage
<1>2. /\ job' \in [Threads -> Jobs] /\ calls' \in 0..MaxCalls
      /\ \A q \in Threads : job'[q] = job[q] \/ job'[q] = Idle
  BY Ended, BoundAssumption
  DEF CommitUpdatePage, CommitSchema, CommitSchemaForm, SaveTemplate, DeletePage,
      Counted, IInv, TypeOK
<1>3. page' \in Pages
  <2>1. page \in Pages /\ \A p \in Threads : job[p].page \in Pages
    BY DEF IInv, TypeOK, Jobs
  <2>2. [page EXCEPT !.deleted = TRUE] \in Pages
    BY <2>1 DEF Pages
  <2> QED
    BY <2>1, <2>2 DEF CommitUpdatePage, CommitSchema, CommitSchemaForm, SaveTemplate, DeletePage
<1>4. template' \in Templates /\ (template' = template \/ ~TemplateHeld)
  BY DEF CommitUpdatePage, CommitSchema, CommitSchemaForm, SaveTemplate, DeletePage,
         IInv, TypeOK, Jobs, Templates
<1>5. TypeOK' /\ VersionsTyped' /\ VersionsInOrder' /\ UsageIsExact'
  BY <1>1, <1>2, <1>3, <1>4
  DEF IInv, TypeOK, VersionsTyped, VersionsInOrder, UsageIsExact
<1>6. OneWriter' /\ JobsKnown' /\ JobsValidated'
  BY <1>1, <1>2, <1>4, OthersKeepTheirs
<1> QED
  BY <1>5, <1>6 DEF IInv

\* A block is hidden or shown while nobody has its row.
LEMMA ToggleKeepsIInv ==
  ASSUME IInv, NEW b \in Blocks, ToggleVisibility(b)
  PROVE  IInv'
<1>1. /\ block' = [block EXCEPT ![b].visible = ~@]
      /\ UNCHANGED <<page, versions, template, media, usage, job>>
      /\ calls' \in 0..MaxCalls
      /\ \A q \in Threads : ~Writes(job[q], b)
      /\ b \in Required => ~block[b].visible
  BY BoundAssumption
  DEF ToggleVisibility, Counted, Hideable, IInv, TypeOK, BlockFree, AllBlocksHeld,
      Writes
<1>2. /\ block' \in [Blocks -> PlacedBlocks]
      /\ \A c \in Blocks : /\ c # b => block'[c] = block[c]
                           /\ block'[c].published = block[c].published
      /\ block'[b].visible = ~block[b].visible
  BY <1>1 DEF IInv, TypeOK, PlacedBlocks
<1>3. TypeOK' /\ VersionsTyped' /\ VersionsInOrder' /\ UsageIsExact'
  BY <1>1, <1>2, RequiredAssumption
  DEF IInv, TypeOK, VersionsTyped, VersionsInOrder, UsageIsExact
<1>4. OneWriter' /\ JobsKnown' /\ JobsValidated'
  <2>1. \A c \in Blocks : \/ versions'[c] = versions[c] /\ block'[c] = block[c]
                          \/ \A q \in Threads : Writes(job[q], c) => job'[q] = Idle
    BY <1>1, <1>2
  <2> QED
    BY <1>1, <2>1, OthersKeepTheirs
<1> QED
  BY <1>3, <1>4 DEF IInv

\* No call on a file brings it back to storage, and the row that an update_file
\* inserts again has the file that is left.
LEMMA FileKeepsIInv ==
  ASSUME IInv, NEW p \in Threads, CommitUpdateFile(p) \/ SoftDelete(p)
  PROVE  IInv'
<1>1. /\ UNCHANGED <<page, block, versions, template, usage>> /\ Finish(p)
      /\ job[p] \in Jobs /\ job[p].file \in Media
  BY DEF CommitUpdateFile, SoftDelete, IInv, TypeOK, JobsKnown, Known, CleaningUp
<1>2. /\ media' \in [Media -> Files]
      /\ \A m \in Media : media'[m].file = media[m].file
  <2>1. CASE CommitUpdateFile(p)
    BY <1>1, <2>1 DEF CommitUpdateFile, IInv, TypeOK, Jobs, Files
  <2>2. CASE SoftDelete(p)
    BY <1>1, <2>2 DEF SoftDelete, IInv, TypeOK, Files
  <2> QED
    BY <2>1, <2>2
<1>3. TypeOK' /\ VersionsTyped' /\ VersionsInOrder' /\ UsageIsExact'
  <2>1. block \in [Blocks -> PlacedBlocks]
    BY DEF IInv, TypeOK
  <2>2. \A b \in Blocks : block[b].published.refs \subseteq Media
    BY <2>1 DEF PlacedBlocks, Contents
  <2>3. UsageIsExact'
    BY <1>1, <1>2, <2>2 DEF IInv, UsageIsExact
  <2> QED
    BY <1>1, <1>2, <2>3, Ended
    DEF IInv, TypeOK, VersionsTyped, VersionsInOrder
<1>4. OneWriter' /\ JobsKnown' /\ JobsValidated'
  BY <1>1, <1>2, Ended, OthersKeepTheirs
<1> QED
  BY <1>3, <1>4 DEF IInv

\* A tombstone takes the file out of drafts whose rows are free, and out of the
\* usages of the draft layer only.
LEMMA CommitTombstoneKeepsIInv ==
  ASSUME IInv, NEW p \in Threads, CommitTombstone(p)
  PROVE  IInv'
<1> DEFINE j == job[p]
           m == j.file
<1>1. /\ UNCHANGED <<page, versions, template>> /\ Finish(p)
      /\ j \in Jobs /\ m \in Media /\ \A b \in j.used : BlockFree(b)
  BY DEF CommitTombstone, IInv, TypeOK, JobsKnown, Known, CleaningUp
<1>2. media' \in [Media -> Files] /\ \A n \in Media : media'[n].file = media[n].file
  BY <1>1 DEF CommitTombstone, IInv, TypeOK, Files
<1>3. /\ block' \in [Blocks -> PlacedBlocks]
      /\ \A b \in Blocks : /\ block'[b].visible = block[b].visible
                           /\ block'[b].published = block[b].published
                           /\ b \notin j.used => block'[b] = block[b]
  <2> DEFINE new(b) == Without(j.drafts[b], {m})
  <2>1. \A b \in Blocks : new(b) \in Contents
    BY <1>1 DEF Jobs, Contents, Without
  <2>2. block' = [b \in Blocks |-> IF b \in j.used
                                  THEN [block[b] EXCEPT !.draft = new(b)]
                                  ELSE block[b]]
    BY DEF CommitTombstone
  <2> HIDE DEF new, j
  <2> QED
    BY <2>1, <2>2 DEF IInv, TypeOK, PlacedBlocks
<1>4. /\ usage' \in [Layers -> [Blocks -> SUBSET Media]]
      /\ usage'["published"] = usage["published"]
  BY <1>1 DEF CommitTombstone, IInv, TypeOK, Layers
<1>5. UsageIsExact'
  <2>1. \A b \in Blocks : block[b].published.refs \subseteq Media
    BY DEF IInv, TypeOK, PlacedBlocks, Contents
  <2> QED
    BY <1>2, <1>3, <1>4, <2>1 DEF IInv, UsageIsExact
<1>6. TypeOK' /\ VersionsTyped' /\ VersionsInOrder'
  BY <1>1, <1>2, <1>3, <1>4, Ended, RequiredAssumption
  DEF IInv, TypeOK, VersionsTyped, VersionsInOrder
<1>7. OneWriter' /\ JobsKnown' /\ JobsValidated'
  <2>1. \A b \in j.used : \A q \in Threads : ~Writes(job[q], b)
    BY <1>1 DEF BlockFree, AllBlocksHeld, Writes
  <2>2. \A b \in Blocks : \/ versions'[b] = versions[b] /\ block'[b] = block[b]
                          \/ \A q \in Threads : Writes(job[q], b) => job'[q] = Idle
    BY <1>1, <1>3, <2>1
  <2> HIDE DEF j
  <2> QED
    BY <1>1, <1>2, <2>2, Ended, OthersKeepTheirs
<1> QED
  BY <1>5, <1>6, <1>7 DEF IInv

\* The clean-up removes a file that has no usage in the published layer.
LEMMA RemoveFileKeepsIInv ==
  ASSUME IInv, NEW p \in Threads, RemoveFile(p)
  PROVE  IInv'
<1> DEFINE m == job[p].file
           j == [job[p] EXCEPT !.op = "removed"]
<1>1. /\ UNCHANGED <<page, block, versions, template, usage, calls>>
      /\ media' = [media EXCEPT ![m].file = FALSE] /\ job[p].op = "counted"
      /\ job' = [job EXCEPT ![p] = j]
      /\ job[p] \in Jobs /\ m \in Media /\ job[p].used = {}
  BY DEF RemoveFile, Continue, IInv, TypeOK, JobsKnown, Known, CleaningUp
<1>2. j \in Jobs /\ j.op = "removed" /\ j.file = m /\ j.used = {}
  BY <1>1 DEF Jobs, Ops
<1> HIDE DEF j, m
<1>3. /\ job' \in [Threads -> Jobs] /\ job'[p] = j
      /\ \A q \in Threads : q # p => job'[q] = job[q]
  BY <1>1, <1>2, JobIs DEF IInv
<1>4. /\ media' \in [Media -> Files] /\ ~media'[m].file
      /\ \A n \in Media : ~media[n].file => ~media'[n].file
  BY <1>1 DEF IInv, TypeOK, Files
<1>5. TypeOK' /\ VersionsTyped' /\ VersionsInOrder'
  BY <1>1, <1>3, <1>4 DEF IInv, TypeOK, VersionsTyped, VersionsInOrder
<1>6. UsageIsExact'
  <2>1. \A b \in Blocks : block[b].published.refs \subseteq Media
    BY DEF IInv, TypeOK, PlacedBlocks, Contents
  <2> QED
    BY <1>1, <1>4, <2>1 DEF IInv, UsageIsExact
<1>7. \A b \in Blocks : ~Writes(j, b) /\ ~Writes(job[p], b)
  BY <1>1, <1>2 DEF Writes, Saves
<1>8. OneWriter'
  BY <1>3, <1>7 DEF IInv, OneWriter, Writes
<1>9. JobsKnown'
  <2> SUFFICES ASSUME NEW q \in Threads PROVE Known(job[q])'
    BY DEF JobsKnown
  <2>1. Known(job[q])
    BY DEF IInv, JobsKnown
  <2>2. CASE q = p
    BY <1>1, <1>2, <1>3, <1>4, <2>2 DEF Known, CleaningUp, Saves
  <2>3. CASE q # p
    BY <1>1, <1>3, <1>4, <2>1, <2>3 DEF Known, CleaningUp, Latest
  <2> QED
    BY <2>2, <2>3
<1>10. JobsValidated'
  <2> SUFFICES ASSUME NEW q \in Threads PROVE Validated(job[q])'
    BY DEF JobsValidated
  <2>1. Validated(job[q])
    BY DEF IInv, JobsValidated
  <2>2. CASE q = p
    BY <1>2, <1>3, <2>2 DEF Validated
  <2>3. CASE q # p
    BY <1>1, <1>3, <2>1, <2>3 DEF Validated, Skipped, Complete, Accepts
  <2> QED
    BY <2>2, <2>3
<1> QED
  BY <1>5, <1>6, <1>8, <1>9, <1>10 DEF IInv

\* Its row goes with its usages: what they were usages of is gone.
LEMMA DeleteRowKeepsIInv ==
  ASSUME IInv, NEW p \in Threads, DeleteRow(p)
  PROVE  IInv'
<1> DEFINE m == job[p].file
<1>1. /\ UNCHANGED <<page, block, versions, template>> /\ Finish(p)
      /\ m \in Media /\ ~media[m].file
      /\ media' = [media EXCEPT ![m].row = FALSE]
      /\ usage' = [l \in Layers |-> [b \in Blocks |-> usage[l][b] \ {m}]]
  BY DEF DeleteRow, IInv, TypeOK, JobsKnown, Known, CleaningUp
<1> HIDE DEF m
<1>2. /\ media' \in [Media -> Files]
      /\ \A n \in Media : media'[n].file = media[n].file
  BY <1>1 DEF IInv, TypeOK, Files
<1>3. /\ usage' \in [Layers -> [Blocks -> SUBSET Media]]
      /\ \A b \in Blocks : usage'["published"][b] = usage["published"][b] \ {m}
  BY <1>1 DEF IInv, TypeOK, Layers
<1>4. TypeOK' /\ VersionsTyped' /\ VersionsInOrder'
  BY <1>1, <1>2, <1>3, Ended DEF IInv, TypeOK, VersionsTyped, VersionsInOrder
<1>5. UsageIsExact'
  <2>1. \A b \in Blocks : block[b].published.refs \subseteq Media
    BY DEF IInv, TypeOK, PlacedBlocks, Contents
  <2> QED
    BY <1>1, <1>2, <1>3, <2>1 DEF IInv, UsageIsExact
<1>6. OneWriter' /\ JobsKnown' /\ JobsValidated'
  BY <1>1, <1>2, Ended, OthersKeepTheirs
<1> QED
  BY <1>4, <1>5, <1>6 DEF IInv

-----------------------------------------------------------------------------
(* The invariant                                                           *)

\* A history of one, or of a draft and two publications, before any limit.
LEMMA FirstVersions ==
  ASSUME NEW c1 \in Contents, NEW c2 \in Contents, NEW c3 \in Contents,
         NEW rows \in {<<Version(1, c1, TRUE)>>,
                       Pruned(<<Version(1, c1, TRUE), Version(2, c2, FALSE),
                                Version(3, c3, FALSE)>>)}
  PROVE  rows \in Seq(Versions) /\ Len(rows) <= MaxVersions /\ Ordered(rows)
<1> DEFINE v1 == Version(1, c1, TRUE)
           v2 == Version(2, c2, FALSE)
           v3 == Version(3, c3, FALSE)
<1>1. /\ v1 \in Versions /\ v2 \in Versions /\ v3 \in Versions
      /\ v1.number = 1 /\ v2.number = 2 /\ v3.number = 3
  BY DEF Version, Versions
<1> HIDE DEF v1, v2, v3
<1>2. CASE rows = <<v1>>
  BY <1>1, <1>2, BoundAssumption DEF Ordered
<1>3. CASE rows = Pruned(<<v1, v2, v3>>)
  <2> DEFINE all == <<v1, v2, v3>>
  <2>1. /\ all \in Seq(Versions) /\ Len(all) = 3
        /\ all[1] = v1 /\ all[2] = v2 /\ all[3] = v3
    BY <1>1
  <2>0. rows = Pruned(all)
    BY <1>3
  <2> HIDE DEF all
  <2>2. \A i \in 1..3 : all[i].number = i
    <3> SUFFICES ASSUME NEW i \in 1..3 PROVE all[i].number = i
      OBVIOUS
    <3>1. i = 1 \/ i = 2 \/ i = 3
      OBVIOUS
    <3> QED
      BY <1>1, <2>1, <3>1
  <2>3. ASSUME NEW first \in 1..3
        PROVE  /\ SubSeq(all, first, 3) \in Seq(Versions)
               /\ Len(SubSeq(all, first, 3)) = 4 - first
               /\ Ordered(SubSeq(all, first, 3))
    <3> DEFINE kept == SubSeq(all, first, 3)
    <3>1. /\ kept \in Seq(Versions) /\ Len(kept) = 4 - first
          /\ \A i \in 1..4 - first : kept[i] = all[first + i - 1]
      <4>1. CASE first = 1
        BY <2>1, <4>1
      <4>2. CASE first = 2
        BY <2>1, <4>2
      <4>3. CASE first = 3
        BY <2>1, <4>3
      <4> QED
        BY <4>1, <4>2, <4>3
    <3> HIDE DEF kept
    <3>2. DOMAIN kept = 1..4 - first
      BY <3>1
    <3>3. \A i \in 1..4 - first : kept[i].number = first + i - 1
      BY <2>2, <3>1
    <3>4. Ordered(kept)
      BY <3>2, <3>3 DEF Ordered
    <3> QED
      BY <3>1, <3>4 DEF kept
  <2>4. CASE 3 <= MaxVersions
    <3>1. rows = all /\ all = SubSeq(all, 1, 3)
      BY <2>0, <2>1, <2>4 DEF Pruned
    <3>2. rows \in Seq(Versions) /\ Len(rows) = 3 /\ Ordered(rows)
      <4>1. 1 \in 1..3
        OBVIOUS
      <4> QED
        BY <2>1, <2>3, <3>1, <4>1
    <3> QED
      BY <2>4, <3>2, BoundAssumption
  <2>5. CASE MaxVersions \in 1..2
    <3>1. rows = SubSeq(all, 3 - MaxVersions + 1, 3)
      BY <2>0, <2>1, <2>5 DEF Pruned
    <3>2. 3 - MaxVersions + 1 \in 1..3 /\ 4 - (3 - MaxVersions + 1) = MaxVersions
      BY <2>5
    <3> QED
      BY <2>3, <3>1, <3>2, <2>5
  <2> QED
    BY <2>4, <2>5, BoundAssumption
<1> QED
  BY <1>2, <1>3 DEF v1, v2, v3

LEMMA InitIsFine == Init => IInv
<1> SUFFICES ASSUME Init PROVE IInv
  OBVIOUS
<1> USE IdleTyped
<1>1. calls = 0 /\ job = [p \in Threads |-> Idle] /\ template \in Templates
  BY DEF Init, Templates
<1>2. /\ page \in Pages /\ block \in [Blocks -> PlacedBlocks]
      /\ media \in [Media -> Files]
      /\ usage \in [Layers -> [Blocks -> SUBSET Media]]
      /\ \A b \in Required : block[b].visible
      /\ versions = [b \in Blocks |-> versions[b]]
      /\ \A b \in Blocks :
           /\ \E c1, c2, c3 \in Contents :
                versions[b] \in {<<Version(1, c1, TRUE)>>,
                                Pruned(<<Version(1, c1, TRUE), Version(2, c2, FALSE),
                                         Version(3, c3, FALSE)>>)}
           /\ usage["published"][b] = block[b].published.refs
  <2>1. CASE Fresh
    <3>1. PICK drafts \in Drafts :
            /\ page = NewPage
            /\ block = [b \in Blocks |->
                 [draft |-> drafts[b], published |-> Empty, status |-> "draft",
                  validated |-> 0, visible |-> TRUE]]
            /\ versions = [b \in Blocks |-> <<Version(1, drafts[b], TRUE)>>]
            /\ media = [m \in Media |-> NewFile]
            /\ usage = [l \in Layers |-> [b \in Blocks |->
                 IF l = "draft" THEN drafts[b].refs ELSE {}]]
      BY <2>1 DEF Fresh
    <3>2. \A b \in Blocks : drafts[b] \in Contents /\ drafts[b].refs \subseteq Media
      BY DEF Drafts, Contents
    <3>3. block \in [Blocks -> PlacedBlocks] /\ \A b \in Required : block[b].visible
      BY <3>1, <3>2, RequiredAssumption DEF PlacedBlocks, Status
    <3>4. /\ usage \in [Layers -> [Blocks -> SUBSET Media]]
          /\ \A b \in Blocks : usage["published"][b] = block[b].published.refs
      BY <3>1, <3>2 DEF Layers, Empty
    <3>5. page \in Pages /\ media \in [Media -> Files]
      BY <3>1
    <3>6. \A b \in Blocks : \E c1, c2, c3 \in Contents :
            versions[b] \in {<<Version(1, c1, TRUE)>>,
                            Pruned(<<Version(1, c1, TRUE), Version(2, c2, FALSE),
                                     Version(3, c3, FALSE)>>)}
      BY <3>1, <3>2
    <3> QED
      BY <3>1, <3>3, <3>4, <3>5, <3>6
  <2>2. CASE Republished
    <3>1. PICK drafts \in Drafts, gone \in SUBSET Media,
               hidden \in SUBSET (Blocks \ Required) :
            RepublishedAs(drafts, gone, hidden)
      BY <2>2 DEF Republished
    <3> DEFINE kept(b) == Without(drafts[b], gone)
    <3>2. \A b \in Blocks : drafts[b] \in Contents
      BY DEF Drafts
    <3>3. \A b \in Blocks : kept(b) \in Contents /\ kept(b).refs \subseteq Media
      BY <3>2 DEF Contents, Without
    <3>4. /\ block = [b \in Blocks |->
               [draft |-> kept(b), published |-> kept(b),
                status |-> "published", validated |-> 1,
                visible |-> b \notin hidden]]
          /\ versions = [b \in Blocks |->
               Pruned(<<Version(1, drafts[b], TRUE), Version(2, drafts[b], FALSE),
                        Version(3, kept(b), FALSE)>>)]
          /\ usage = [l \in Layers |-> [b \in Blocks |-> kept(b).refs]]
      BY <3>1 DEF RepublishedAs
    <3> HIDE DEF kept
    <3>5. block \in [Blocks -> PlacedBlocks] /\ \A b \in Required : block[b].visible
      BY <3>3, <3>4, RequiredAssumption DEF PlacedBlocks, Status
    <3>6. /\ usage \in [Layers -> [Blocks -> SUBSET Media]]
          /\ \A b \in Blocks : usage["published"][b] = block[b].published.refs
      BY <3>3, <3>4 DEF Layers
    <3>7. page \in Pages /\ media \in [Media -> Files]
      <4>1. page \in Pages
        BY <3>1 DEF RepublishedAs, Pages, Status, NewPage
      <4>2. media \in [Media -> Files]
        BY <3>1 DEF RepublishedAs, Files
      <4> QED
        BY <4>1, <4>2
    <3>8. \A b \in Blocks : \E c1, c2, c3 \in Contents :
            versions[b] \in {<<Version(1, c1, TRUE)>>,
                            Pruned(<<Version(1, c1, TRUE), Version(2, c2, FALSE),
                                     Version(3, c3, FALSE)>>)}
      BY <3>2, <3>3, <3>4
    <3> QED
      BY <3>4, <3>5, <3>6, <3>7, <3>8
  <2> QED
    BY <2>1, <2>2 DEF Init
<1>3. \A b \in Blocks : /\ versions[b] \in Seq(Versions)
                        /\ Len(versions[b]) <= MaxVersions
                        /\ Ordered(versions[b])
  <2> SUFFICES ASSUME NEW b \in Blocks
               PROVE  /\ versions[b] \in Seq(Versions)
                      /\ Len(versions[b]) <= MaxVersions
                      /\ Ordered(versions[b])
    OBVIOUS
  <2>1. PICK c1 \in Contents, c2 \in Contents, c3 \in Contents :
          versions[b] \in {<<Version(1, c1, TRUE)>>,
                          Pruned(<<Version(1, c1, TRUE), Version(2, c2, FALSE),
                                   Version(3, c3, FALSE)>>)}
    BY <1>2
  <2> QED
    BY <2>1, FirstVersions
<1>4. VersionsTyped /\ VersionsInOrder
  BY <1>2, <1>3 DEF VersionsTyped, VersionsInOrder, Ordered
<1>5. TypeOK
  <2>1. calls \in 0..MaxCalls /\ job \in [Threads -> Jobs]
    BY <1>1, BoundAssumption
  <2>2. \A b \in Blocks : \A i \in DOMAIN versions[b] : versions[b][i] \in Versions
    BY <1>3
  <2> QED
    BY <1>1, <1>2, <2>1, <2>2 DEF TypeOK
<1>6. UsageIsExact
  BY <1>2 DEF UsageIsExact
<1>7. OneWriter /\ JobsKnown /\ JobsValidated
  BY <1>1 DEF OneWriter, JobsKnown, JobsValidated, Writes, Known, CleaningUp,
              Validated, Saves
<1> QED
  BY <1>4, <1>5, <1>6, <1>7 DEF IInv

LEMMA NextKeepsIInv == IInv /\ [Next]_vars => IInv'
<1> SUFFICES ASSUME IInv, [Next]_vars PROVE IInv'
  OBVIOUS
<1>1. CASE UNCHANGED vars
  BY <1>1 DEF vars, tables, IInv, TypeOK, VersionsTyped, VersionsInOrder,
              UsageIsExact, OneWriter, Writes, JobsKnown, Known, CleaningUp, Latest,
              JobsValidated, Validated, Skipped, Complete, Accepts
<1>2. ASSUME NEW p \in Threads, Begin(p)
      PROVE  IInv'
  BY <1>2, ReadsKeepIInv, BeginSaveKeepsIInv DEF Begin
<1>3. ASSUME NEW p \in Threads, Go(p)
      PROVE  IInv'
  BY <1>3, CommitSaveKeepsIInv, LockKeepsIInv, CommitPublishKeepsIInv,
     CommitUnpublishKeepsIInv, NothingWrittenKeepsIInv, PageKeepsIInv,
     FileKeepsIInv, CommitTombstoneKeepsIInv, RemoveFileKeepsIInv,
     DeleteRowKeepsIInv DEF Go
<1> QED
  BY <1>1, <1>2, <1>3, ToggleKeepsIInv, PageKeepsIInv DEF Next

THEOREM PublishingInvariant == Spec => []IInv
  BY InitIsFine, NextKeepsIInv, PTL DEF Spec

\* Every variable keeps its type and a required block is never hidden.
THEOREM PublishingTyped == Spec => []TypeOK
  BY PublishingInvariant, PTL DEF IInv

\* The version numbers of a block grow, and no more versions are kept than the
\* limit, because a block is written under its row lock.
THEOREM HistoryOfBlocks == Spec => []VersionsInOrder
  BY PublishingInvariant, PTL DEF IInv

\* The usages that decide whether a file is deleted are those of the published
\* content.
THEOREM PublishedUsage == Spec => []UsageIsExact
  BY PublishingInvariant, PTL DEF IInv

-----------------------------------------------------------------------------
(* What a step does to page, blocks, template and files                    *)

LEMMA OnlyTheseWriteStatus ==
  ASSUME IInv, [Next]_vars
  PROVE  \/ /\ page' = page
            /\ \A b \in Blocks : block'[b].status = block[b].status
         \/ DeletePage
         \/ \E p \in Threads : \/ CommitPublish(p) \/ CommitUnpublish(p)
                                \/ CommitUpdatePage(p)
<1>1. block \in [Blocks -> PlacedBlocks]
  BY DEF IInv, TypeOK
<1>2. CASE UNCHANGED <<page, block>>
  BY <1>2
<1>3. ASSUME NEW p \in Threads, CommitSave(p)
      PROVE  page' = page /\ \A b \in Blocks : block'[b].status = block[b].status
  <2>1. \/ block' = block
        \/ block' = [block EXCEPT ![job[p].block].draft = job[p].content]
    BY <1>3 DEF CommitSave
  <2>2. page' = page
    BY <1>3 DEF CommitSave
  <2> QED
    BY <1>1, <2>1, <2>2 DEF PlacedBlocks
<1>4. ASSUME NEW p \in Threads, CommitTombstone(p)
      PROVE  page' = page /\ \A b \in Blocks : block'[b].status = block[b].status
  BY <1>1, <1>4 DEF CommitTombstone
<1>5. ASSUME NEW b \in Blocks, ToggleVisibility(b)
      PROVE  page' = page /\ \A c \in Blocks : block'[c].status = block[c].status
  BY <1>1, <1>5 DEF ToggleVisibility
<1>6. ASSUME NEW p \in Threads, Begin(p)
      PROVE  UNCHANGED <<page, block>>
  BY <1>6 DEF Begin, BeginPublish, BeginUnpublish, BeginUpdatePage, BeginSchema,
      BeginRollback, BeginSave, BeginImport, SaveBlock, BeginUpdateFile,
      BeginDeleteFile, BeginCleanup, tables
<1>7. ASSUME NEW p \in Threads,
             \/ LockBlocks(p) \/ UpdateBlocks(p) \/ EndDeadlock(p)
             \/ CommitSchema(p) \/ CommitSchemaForm(p)
             \/ CommitUpdateFile(p) \/ SoftDelete(p) \/ Tombstone(p)
             \/ CountUsages(p) \/ RemoveFile(p) \/ DeleteRow(p)
             \/ CleanupDies(p)
      PROVE  UNCHANGED <<page, block>>
  BY <1>7 DEF LockBlocks, UpdateBlocks, EndDeadlock, CommitSchema,
      CommitSchemaForm, SaveTemplate, CommitUpdateFile, SoftDelete, Tombstone,
      CountUsages, RemoveFile, DeleteRow, CleanupDies, tables
<1> QED
  BY <1>2, <1>3, <1>4, <1>5, <1>6, <1>7 DEF Next, Go, vars, tables

\* Publication and its end write the page and its blocks alike, so only an
\* update_page that has read another page row tells them apart or brings a deleted
\* page back.
THEOREM PageFollowsBlocks == Spec => PageStateIsKept
<1> DEFINE Body == \/ Agree' /\ (page.deleted => page'.deleted)
                   \/ ~Agree
                   \/ \E p \in Threads :
                        Ends(p, "update_page") /\ job[p].page # page
<1>1. IInv /\ [Next]_vars => Body
  <2> SUFFICES ASSUME IInv, [Next]_vars, Agree PROVE Body
    OBVIOUS
  <2>1. page \in Pages /\ block \in [Blocks -> PlacedBlocks]
    BY DEF IInv, TypeOK
  <2>2. CASE page' = page /\ \A b \in Blocks : block'[b].status = block[b].status
    BY <2>2 DEF Agree
  <2>3. CASE DeletePage
    BY <2>1, <2>3 DEF DeletePage, Agree, Pages
  <2>4. ASSUME NEW p \in Threads, CommitPublish(p) PROVE Body
    <3>1. CASE UNCHANGED tables
      BY <3>1 DEF Agree, tables
    <3>2. CASE ~UNCHANGED tables
      <4>1. /\ page' = [page EXCEPT !.status = "published"]
            /\ \A b \in Blocks : block'[b].status = "published"
        <5>1. /\ page' = [page EXCEPT !.status = "published"]
              /\ block' = [b \in Blocks |->
                   [block[b] EXCEPT !.published = block[b].draft,
                                    !.status = "published",
                                    !.validated = template.version]]
          BY <2>4, <3>2 DEF CommitPublish
        <5> QED
          BY <2>1, <5>1 DEF PlacedBlocks
      <4> QED
        BY <2>1, <4>1 DEF Agree, Pages
    <3> QED
      BY <3>1, <3>2
  <2>5. ASSUME NEW p \in Threads, CommitUnpublish(p) PROVE Body
    <3>1. /\ page' = [page EXCEPT !.status = "draft"]
          /\ \A b \in Blocks : block'[b].status = "draft"
      BY <2>1, <2>5 DEF CommitUnpublish, Unpublished, PlacedBlocks
    <3> QED
      BY <2>1, <3>1 DEF Agree, Pages
  <2>6. ASSUME NEW p \in Threads, CommitUpdatePage(p) PROVE Body
    <3>1. /\ page' = job[p].page /\ block' = block /\ Ends(p, "update_page")
      BY <2>6, Ended DEF CommitUpdatePage, Ends
    <3> QED
      BY <3>1 DEF Agree
  <2> QED
    BY <2>2, <2>3, <2>4, <2>5, <2>6, OnlyTheseWriteStatus
<1>2. IInv /\ [Next]_vars => [Body]_vars
  BY <1>1
<1> QED
  BY <1>2, PublishingInvariant, PTL DEF Spec, PageStateIsKept

\* What a publish_page publishes when it commits is what it has validated: nobody
\* else writes the blocks it has locked, or changes their template.
THEOREM PublicationIsValidated == Spec => PublishedAsValidated
<1> DEFINE Body == \A p \in Threads : Ends(p, "publish") /\ versions' # versions =>
                     \A b \in Blocks :
                        /\ block'[b].status = "published"
                        /\ block'[b].validated = template'.version
                        /\ Skipped(b)' \/ Accepts(template'.schema, block'[b].published)
<1>1. IInv /\ [Next]_vars => Body
  <2> SUFFICES ASSUME IInv, [Next]_vars, NEW p \in Threads,
                      Ends(p, "publish"), versions' # versions, NEW b \in Blocks
               PROVE  /\ block'[b].status = "published"
                      /\ block'[b].validated = template'.version
                      /\ \/ Skipped(b)'
                         \/ Accepts(template'.schema, block'[b].published)
    OBVIOUS
  <2>1. job[p].op = "publish" /\ job'[p] = Idle /\ job'[p] # job[p]
    BY IdleTyped DEF Ends
  <2>2. ASSUME NEW q \in Threads, CommitPublish(q)
        PROVE  job[p].locked /\ ~UNCHANGED tables /\ CommitPublish(p)
    <3>1. job' = [job EXCEPT ![q] = Idle]
      BY <2>2 DEF CommitPublish, Finish, Continue
    <3>2. p = q
      BY <2>1, <3>1 DEF IInv, TypeOK
    <3> QED
      BY <2>2, <3>2 DEF CommitPublish, tables
  <2>3. \E q \in Threads : CommitPublish(q)
    <3>1. ASSUME NEW q \in Threads, CommitSave(q)
          PROVE  FALSE
      <4>1. job' = [job EXCEPT ![q] = Idle] /\ job[q].op \in Saves
        BY <3>1 DEF CommitSave, Finish, Continue
      <4> QED
        BY <2>1, <4>1 DEF IInv, TypeOK, Saves
    <3>2. ASSUME NEW q \in Threads, Begin(q)
          PROVE  versions' = versions
      BY <3>2 DEF Begin, BeginPublish, BeginUnpublish, BeginUpdatePage,
          BeginSchema, BeginRollback, BeginSave, BeginImport, SaveBlock,
          BeginUpdateFile, BeginDeleteFile, BeginCleanup, tables
    <3>3. ASSUME NEW q \in Threads,
                 \/ LockBlocks(q) \/ UpdateBlocks(q) \/ CommitUnpublish(q)
                 \/ EndDeadlock(q) \/ CommitUpdatePage(q) \/ CommitSchema(q)
                 \/ CommitSchemaForm(q) \/ CommitUpdateFile(q)
                 \/ SoftDelete(q) \/ Tombstone(q) \/ CommitTombstone(q)
                 \/ CountUsages(q) \/ RemoveFile(q) \/ DeleteRow(q)
                 \/ CleanupDies(q)
          PROVE  versions' = versions
      BY <3>3 DEF LockBlocks, UpdateBlocks, CommitUnpublish, EndDeadlock,
          CommitUpdatePage, CommitSchema, CommitSchemaForm, SaveTemplate,
          CommitUpdateFile, SoftDelete, Tombstone, CommitTombstone, CountUsages,
          RemoveFile, DeleteRow, CleanupDies, tables
    <3>4. ~UNCHANGED vars /\ ~DeletePage /\ ~\E c \in Blocks : ToggleVisibility(c)
      BY DEF vars, tables, DeletePage, ToggleVisibility
    <3> QED
      BY <3>1, <3>2, <3>3, <3>4 DEF Next, Go
  <2>4. /\ job[p].locked /\ template' = template
        /\ block' = [c \in Blocks |->
             [block[c] EXCEPT !.published = block[c].draft,
                              !.status = "published",
                              !.validated = template.version]]
    BY <2>2, <2>3 DEF CommitPublish
  <2>5. /\ block'[b].status = "published" /\ block'[b].published = block[b].draft
        /\ block'[b].validated = template.version
        /\ block'[b].visible = block[b].visible
    BY <2>4 DEF IInv, TypeOK, PlacedBlocks
  <2>6. Skipped(b) \/ Complete(b)
    BY <2>1, <2>4 DEF IInv, JobsValidated, Validated
  <2>7. CASE Skipped(b)
    BY <2>4, <2>5, <2>7 DEF Skipped
  <2>8. CASE Complete(b)
    BY <2>4, <2>5, <2>8 DEF Complete, Accepts
  <2> QED
    BY <2>4, <2>5, <2>6, <2>7, <2>8
<1>2. IInv /\ [Next]_vars => [Body]_vars
  BY <1>1
<1> QED
  BY <1>2, PublishingInvariant, PTL DEF Spec, PublishedAsValidated

\* Nothing takes from published content a file that it shows, and nothing
\* publishes one that is gone, but for hidden blocks and the races of delete_file
\* and of the clean-up with publish_page.
THEOREM NoFileIsLost == Spec => PublishedFilesAreLive
<1> DEFINE Excused(b, m) ==
             \/ \E p \in Threads : /\ Ends(p, "publish")
                                   /\ Skipped(b) \/ m \in job[p].alive
             \/ \E p \in Threads : /\ job[p].file = m /\ job[p].used = {}
                                   /\ \/ Ends(p, "delete_file")
                                      \/ job[p].op = "counted"
                                           /\ job'[p].op = "removed"
           Fine(b, m) == \/ Live(m)'
                         \/ m \in block[b].published.refs /\ ~Live(m)
                         \/ Excused(b, m)
           Body == \A b \in Blocks : \A m \in block'[b].published.refs :
                     \/ Live(m)'
                     \/ m \in block[b].published.refs /\ ~Live(m)
                     \/ \E p \in Threads : /\ Ends(p, "publish")
                                           /\ Skipped(b) \/ m \in job[p].alive
                     \/ \E p \in Threads : /\ job[p].file = m /\ job[p].used = {}
                                           /\ \/ Ends(p, "delete_file")
                                              \/ job[p].op = "counted"
                                                   /\ job'[p].op = "removed"
<1>1. IInv /\ [Next]_vars => Body
  <2> SUFFICES ASSUME IInv, [Next]_vars, NEW b \in Blocks,
                      NEW m \in block'[b].published.refs
               PROVE  Fine(b, m)
    OBVIOUS
  <2> HIDE DEF Excused
  <2>1. /\ block \in [Blocks -> PlacedBlocks] /\ media \in [Media -> Files]
        /\ block' \in [Blocks -> PlacedBlocks]
    BY NextKeepsIInv DEF IInv, TypeOK
  <2>2. m \in Media
    BY <2>1 DEF PlacedBlocks, Contents
  <2>3. CASE block'[b].published = block[b].published /\ (Live(m) => Live(m)')
    BY <2>3
  <2>4. ASSUME NEW p \in Threads, CommitPublish(p), ~UNCHANGED tables
        PROVE  Fine(b, m)
    <3>1. /\ job[p].op = "publish" /\ job[p].locked /\ Finish(p)
          /\ block' = [c \in Blocks |->
               [block[c] EXCEPT !.published = block[c].draft,
                                !.status = "published",
                                !.validated = template.version]]
      BY <2>4 DEF CommitPublish
    <3>2. m \in block[b].draft.refs
      BY <2>1, <3>1 DEF PlacedBlocks
    <3>3. Skipped(b) \/ m \in job[p].alive
      BY <3>1, <3>2 DEF IInv, JobsValidated, Validated
    <3>4. Ends(p, "publish")
      BY <3>1, Ended DEF Ends
    <3> QED
      BY <3>3, <3>4 DEF Excused
  <2>5. ASSUME NEW p \in Threads, SoftDelete(p)
        PROVE  Fine(b, m)
    <3> DEFINE n == job[p].file
    <3>1. /\ Ends(p, "delete_file") /\ job[p].used = {} /\ block' = block
          /\ media' \in {media, [media EXCEPT ![n].deleted = TRUE]}
      BY <2>5, Ended DEF SoftDelete, Unused, Ends
    <3>2. CASE m = n
      BY <3>1, <3>2 DEF Excused
    <3>3. CASE m # n
      <4>1. media'[m] = media[m]
        BY <2>1, <2>2, <3>1, <3>3
      <4> QED
        BY <2>3, <3>1, <4>1 DEF Live, Exists
    <3> QED
      BY <3>2, <3>3
  <2>6. ASSUME NEW p \in Threads, CommitUpdateFile(p)
        PROVE  block' = block /\ (Live(m) => Live(m)')
    <3>1. /\ block' = block /\ job[p] \in Jobs /\ job[p].op = "update_file"
          /\ media' = [media EXCEPT ![job[p].file] =
                         [job[p].row EXCEPT !.file = media[job[p].file].file]]
      BY <2>6 DEF CommitUpdateFile, IInv, TypeOK
    <3>2. job[p].row \in Files /\ job[p].row.row /\ ~job[p].row.deleted
      BY <3>1 DEF IInv, JobsKnown, Known, Jobs
    <3> DEFINE f == job[p].file
    <3>3. /\ f # m => media'[m] = media[m]
          /\ f = m => /\ media'[m].row /\ ~media'[m].deleted
                      /\ media'[m].file = media[m].file
      BY <2>1, <2>2, <3>1, <3>2 DEF Files
    <3> QED
      BY <3>1, <3>3 DEF Live, Exists
  <2>7. ASSUME NEW p \in Threads, RemoveFile(p)
        PROVE  Fine(b, m)
    <3> DEFINE n == job[p].file
    <3>1. /\ block' = block /\ media' = [media EXCEPT ![n].file = FALSE]
          /\ job[p].op = "counted" /\ job[p].used = {}
      BY <2>7 DEF RemoveFile, IInv, JobsKnown, Known
    <3>2. job'[p].op = "removed"
      BY <2>7 DEF RemoveFile, Continue, IInv, TypeOK, Jobs
    <3>3. CASE m = n
      BY <3>1, <3>2, <3>3 DEF Excused
    <3>4. CASE m # n
      <4>1. media'[m] = media[m]
        BY <2>1, <2>2, <3>1, <3>4
      <4> QED
        BY <2>3, <3>1, <4>1 DEF Live, Exists
    <3> QED
      BY <3>3, <3>4
  <2>8. ASSUME NEW p \in Threads, DeleteRow(p)
        PROVE  block' = block /\ (Live(m) => Live(m)')
    <3>1. /\ block' = block /\ ~media[job[p].file].file
          /\ media' = [media EXCEPT ![job[p].file].row = FALSE]
      BY <2>8 DEF DeleteRow, IInv, JobsKnown, Known, CleaningUp
    <3>2. Live(m) => media'[m] = media[m]
      BY <2>1, <2>2, <3>1 DEF Live
    <3> QED
      BY <3>1, <3>2 DEF Live, Exists
  <2>9. ASSUME NEW p \in Threads, CommitTombstone(p)
        PROVE  /\ block'[b].published = block[b].published
               /\ Live(m) => Live(m)'
    <3>1. /\ media' = [media EXCEPT ![job[p].file].tombstoned = TRUE]
          /\ \A c \in Blocks : block'[c].published = block[c].published
      BY <2>1, <2>9 DEF CommitTombstone, PlacedBlocks
    <3>2. /\ media'[m].row = media[m].row /\ media'[m].file = media[m].file
          /\ media'[m].deleted = media[m].deleted
      BY <2>1, <2>2, <3>1 DEF Files
    <3> QED
      BY <3>1, <3>2 DEF Live, Exists
  <2>10. ASSUME NEW p \in Threads, CommitSave(p) \/ CommitUnpublish(p)
         PROVE  media' = media /\ block'[b].published = block[b].published
    <3>1. CASE CommitSave(p)
      <4>1. \/ block' = block
            \/ block' = [block EXCEPT ![job[p].block].draft = job[p].content]
        BY <3>1 DEF CommitSave
      <4>2. media' = media
        BY <3>1 DEF CommitSave
      <4> QED
        BY <2>1, <4>1, <4>2 DEF PlacedBlocks
    <3>2. CASE CommitUnpublish(p)
      BY <2>1, <3>2 DEF CommitUnpublish, Unpublished, PlacedBlocks
    <3> QED
      BY <2>10, <3>1, <3>2
  <2>11. ASSUME NEW c \in Blocks, ToggleVisibility(c)
         PROVE  media' = media /\ block'[b].published = block[b].published
    BY <2>1, <2>11 DEF ToggleVisibility, PlacedBlocks
  <2>12. CASE media' = media /\ block'[b].published = block[b].published
    BY <2>3, <2>12 DEF Live, Exists
  <2>13. ASSUME NEW p \in Threads, Begin(p)
         PROVE  UNCHANGED <<block, media>>
    BY <2>13 DEF Begin, BeginPublish, BeginUnpublish, BeginUpdatePage, BeginSchema,
        BeginRollback, BeginSave, BeginImport, SaveBlock, BeginUpdateFile,
        BeginDeleteFile, BeginCleanup, tables
  <2>14. ASSUME NEW p \in Threads,
                \/ LockBlocks(p) \/ UpdateBlocks(p) \/ EndDeadlock(p)
                \/ CommitUpdatePage(p) \/ CommitSchema(p)
                \/ CommitSchemaForm(p) \/ Tombstone(p) \/ CountUsages(p)
                \/ CleanupDies(p)
         PROVE  UNCHANGED <<block, media>>
    BY <2>14 DEF LockBlocks, UpdateBlocks, EndDeadlock, CommitUpdatePage,
        CommitSchema, CommitSchemaForm, SaveTemplate, Tombstone, CountUsages,
        CleanupDies, tables
  <2>15. ASSUME NEW p \in Threads, Begin(p)
         PROVE  Fine(b, m)
    BY <2>12, <2>13, <2>15
  <2>16. ASSUME NEW p \in Threads, Go(p)
         PROVE  Fine(b, m)
    <3>1. CASE CommitPublish(p) /\ UNCHANGED tables
      BY <2>12, <3>1 DEF tables
    <3>2. CASE CommitUpdateFile(p) \/ DeleteRow(p) \/ CommitTombstone(p)
      BY <2>3, <2>6, <2>8, <2>9, <3>2
    <3>3. CASE \/ LockBlocks(p) \/ UpdateBlocks(p) \/ EndDeadlock(p)
               \/ CommitUpdatePage(p) \/ CommitSchema(p)
               \/ CommitSchemaForm(p) \/ Tombstone(p) \/ CountUsages(p)
               \/ CleanupDies(p) \/ CommitSave(p) \/ CommitUnpublish(p)
      BY <2>10, <2>12, <2>14, <3>3
    <3> QED
      BY <2>4, <2>5, <2>7, <2>16, <3>1, <3>2, <3>3 DEF Go
  <2>17. CASE DeletePage \/ UNCHANGED vars
    BY <2>12, <2>17 DEF DeletePage, vars, tables
  <2> QED
    BY <2>11, <2>12, <2>15, <2>16, <2>17 DEF Next
<1>2. IInv /\ [Next]_vars => [Body]_vars
  BY <1>1
<1> QED
  BY <1>2, PublishingInvariant, PTL DEF Spec, PublishedFilesAreLive
=============================================================================
