# Verification of gnome-credentials

gnome-credentials ("Passwords and Keys") is a GTK program in Vala that lists, edits,
imports and generates OpenPGP keys, SSH keys and passwords. It has almost no logic of
its own that a screen would show wrong at once; what it has is a large amount of
*conversation*: with `gpg --edit-key` through status lines, with gpg listings through
callbacks, with the Secret Service through D-Bus notifications, with `~/.ssh` through a
directory monitor. Everything of that is asynchronous, runs on one main loop, and is
not tested (the repository's tests start the program and stop). Below it lies a C
allocator for locked memory, used from any thread. These two kinds of code are what
this directory models.

All paths are relative to the repository. A definition's exact lines are in
`PROJECT.json` under `map`.

## Inventory

| component | state | operations | talks to | what is hard |
|---|---|---|---|---|
| Edit commands, `src/gpg-edit-helper.vala` | `GpgEditCommand.state` | `edit_callback` = `transit` then `action`, six subclasses | gpg through gpgme: status in, a line out | a table per command must match every conversation gpg can hold; refused values, failures after the last prompt, indices that are stale |
| GPG collection and items, `src/gpg-backend.vala` | `_items`, `_content` | `load_items`, `import_*`, `generate_item`, `delete`, `edit`, `load_content` | gpg, list panel (signals) | overlapping async methods, the key ring changed by others, state read before a `yield` and used after it |
| Key editor, `src/gpg-editor.vala` | cached subkeys and user ids, reused edit widget | delete/add/expire/trust | items | indices computed from a cache, several edits at once |
| Key fetcher, `src/gpg-fetcher.vala` | one cancellable, one timeout id, store | search, select, import | key server through gpgme | stale completions, overwritten timeout id |
| gpgme main loop source, `gpgme-glib/gpgme-glib/gpgme-glib.c` | `GGpgSource`: descriptors, done flag | prepare, check, dispatch, io callbacks, cancel | gpgme, GLib | exactly one completion per task |
| gpgme wrapper objects, the rest of `gpgme-glib.c` | wrappers of keys, buffers and results, and what they point into | construct, get, unref, every `g_gpg_ctx_*` | gpgme's reference counts, the Vala client | borrowed pointers, arguments dropped while gpgme works on them |
| SSH collection, `src/ssh-backend.vala` | items by path, authorized keys, etags | load, monitor events, set comment, authorize, generate | files, monitor | lost updates guarded by etags, events about own writes |
| SSH key files, `src/ssh-parser.vala` | none | parse, to_bytes | | length arithmetic, embedded NULs |
| Secret collections, `src/secret-backend.vala` | items, collections, aliases | lock/unlock, load, notifications | Secret Service | order of notifications |
| Secret editor, `src/secret-editor.vala`, `src/editor.vala` | entries, three idle ids | load, edit, write, delete | items | compares with a cached value while a write is under way; writes all attributes at once; outlives its SecretItem |
| List panels and window, `src/list-panel.vala`, `src/window.vala` | store, filtered store, selection | search, select, delete, export, open | collections | row numbers of one store used in the other |
| Secure allocator, `egg/egg-secure-memory.c` | blocks, cells, rings, pool | alloc, realloc, free | mmap/mlock, fallback allocator | guard words as links, realloc under three locks |
| Entry buffer, `egg/egg-secure-entry-buffer.c` | text, size, bytes | insert, delete | allocator | growth of the buffer |

The hazards found while reading, with their lines, are in `PROJECT.json`; the
properties below are written against them.

## Modules

```
EditTransaction      what one key edit promises            (abstract)
GpgEditSession       six commands + gpg, refines it        TLC and TLAPS
SecureHeap           what the allocator promises           (abstract)
SecureMemory         the allocator, refines it             TLC and TLAPS
EntryText            what a text buffer promises           (abstract)
EntryBuffer          the entry buffer, refines it          TLC and TLAPS
GpgOperation         what an asynchronous gpg call promises (abstract)
GpgSource            the main loop source, refines it      TLC and TLAPS
GpgObjects           the wrappers and what they point into TLC and TLAPS
GpgCollection        collection, items, panel rows         TLC and TLAPS
GpgEditor            the editor of one key, its edits      TLC and TLAPS
GpgFetcher           key search, on top of GpgOperation    TLC and TLAPS
ListPanel            rows, search, selection, deletion     TLC and TLAPS
SshWire              the encoding of SSH public keys
SshCollection        ~/.ssh, authorized_keys, editors      TLC and TLAPS, on top of SshWire
SecretKeyring        collections, notifications, unlocking TLC and TLAPS
SecretEditor         the editor of one password            TLC and TLAPS, on top of SecretKeyring
..._proofs           the proofs about a module
Widgets_proofs       the proofs about GpgEditor and ListPanel
Dialogs_proofs       the proofs about GpgFetcher and EntryBuffer
Gpgme_proofs         the proofs about GpgSource and GpgObjects
MC...                instances for TLC
```

`ListPanel`, `EntryBuffer` and `GpgObjects` call their initial states, actions and specifications
by names of their own (`PanelSpec`, `EntrySpec`, `ObjectsSpec`, ...), so that one module of proofs
can extend both halves of a pair.

Definitions named `Slip_...` are plausible mistakes in the definition they precede; the
mutation entries of `PROJECT.json` name them, one for every property, to show that each
property can fail.

### GpgEditSession

*Code.* `edit_callback` (99-129) ignores a fixed set of statuses and otherwise runs
`transit` and `action` of the subclass; both may throw, `gpgme-glib.c:1950-1967` turns
that into an error of the operation and gpg stops. Each `...Transit` is the set of
`<<state, prompt, next state>>` of the subclass' `transit`, each `...Action` the line its
`action` sends in a state. `DelKey` and `Trust` have no `SAVE` state and answer the save
question from `CONFIRM`; `AddUid` answers *any* status after the comment with `quit`
(219-220). The indices a request is built with are those the editor can compute,
including one past the end.

*gpg* is external. It is a menu, a selection toggled by `uid N`/`key N`, prompts for the
values of a command, a set of pending changes, and the save question. Where gpg has
freedom the model has it: it may ask for a key length or not, refuse a value, give up a
command, report anything between two prompts, and ask to save a key it repaired while
loading. It is deliberately no more lenient than gpg: a value at the wrong prompt is
accepted, and becomes part of the change.

*Properties.* `SavedIsAllowed` (at most one change, the requested one),
`SmoothSessionSaves` (the types are right, and an undisturbed session neither fails nor ends
without the change),
`BogusChangeFails` (the "quit" that becomes a comment is never saved), `SessionEnds`, and
`ImplementsTransaction`, the refinement of `EditTransaction`: all or nothing, and nothing
after the outcome is reported. `AllowedChanges` states the one surprise openly: an expiry
edit of a subkey that has gone applies to the primary key.

*Fairness.* `WF_vars(Driver \/ Gpg)`: the main loop dispatches a pending status and gpg
goes on reading and printing. Nothing is assumed of which of its choices gpg takes;
`MaxTrouble` bounds refused values and informational statuses, without which `SessionEnds`
is false by definition (a value can be refused for ever).

*Bounds.* Two user ids and two subkeys: the first, the last, the primary key, and one past
the end are all different. Three disturbances: one before, one at and one after a prompt.

### SecureMemory

*Code.* One operator per C function under the lock, from heap to heap; one action per
section under `DO_LOCK`, so `egg_secure_realloc_full` that must leave its block is three
actions (`ReallocAlloc`, `ReallocCopy`, `ReallocFree`) and other threads run between them.
Words of memory are modelled: a neighbour is found by reading the guard next to a cell, so
a guard that is missing or stale leads the model astray as it would the program. Rings are
sets: the result of a search along a ring is any outcome some order would give.
Lengths are in words; what happens within a word is not modelled.

*Properties.* `HeapConsistent` is what `sec_validate` and `egg_secure_records` assert (they
are compiled in, and abort the program), and that no two free cells touch,
`UsedCellsAreBuffers` that cells and live buffers correspond one to one, also while a
reallocation is half way, `Scrubbed` that no word a thread wrote is found outside its
buffers, `NoIdleBlocks` that a mapped block is in use (with the two exceptions below), and
`ImplementsHeap` the refinement of `SecureHeap`: buffers are zeroed, private, and keep
their contents when they move.

*Exception, a defect.* `sec_block_create` rounds the caller's length up to pages without the
two guard words `sec_alloc` adds. A request of whole pages, from `DEFAULT_BLOCK_SIZE` on,
never fits its own block: the caller falls back to pageable memory, and an empty locked block
stays behind. `NoIdleBlocks` excuses blocks of such lengths (`Misfit`). Likewise a block that was
made for a request stays behind when the pool of meta data has no item left to split its first cell
(537): the history variable `starved` marks those, and `NoIdleBlocks` excuses no others.

*Bounds.* Two blocks of nine words, lengths 1 and 4, `WASTE` 1 for 4: three short cells
fill a block, so a cell can have a free neighbour on either side, a growing cell can eat
or rob its neighbour, move within the block, to another block, or fall back. Two threads,
three buffers. Six items of meta data: a block that is cut into three cells takes four of them
and a second block the other two, so that the pool is empty when that one's first cell has to be
split. States are identified up to the
numbering of meta data items and thread names.

### GpgCollection

*Code.* Each async method is a process of `ops`; between two of its steps the callbacks of
the others run. A listing shows the ring of the moment gpg started (`snap`) and delivers
its keys one by one (`ListItem`, the closure at 349-356), then sweeps what it has not seen
(357-369). `delete` announces the removal but leaves `_items` alone; `load_content` lists
secret keys, then looks at `has_secret`, then maybe lists public keys; `edit` is one gpg
run (`GpgEditSession`) followed by `load_content`. The rows are the panel's `_store`
handlers. `Outside` is another program changing the ring; `Fail` an error at any point.

*Properties.* `StoreShowsItems` (rows = items not deleted here, never two for one
fingerprint), `SettledItemsAreTheRing` (a load that no change and no older load overlaps
ends with exactly the keys of the ring), `ReloadIsExact` (a reload nothing else touched
shows what the ring has). Their side conditions are history variables of the model; each
names a real weakness: an older listing removes a key a newer one added, a deleted key
that is imported again has no row until a listing lacked it, and `has_secret` looks at the
content of the *previous* load: when the secret half of a key has been removed by another
program, the comment's promise ("If there is no corresponding secret key, load the public
key.", 179-180) is not kept, and `ReloadIsExact` excuses that load.

*Bounds.* Two keys, two operations, three versions written, two item objects. Three
objects were tried once (8 million states) without a difference.

### GpgEditor

*Code.* `key` is the key on disk, `cache` the item's `_content`, `ui` the editor widget with
its two reused pages, and each edit a process of `ops`: gpg reads the key (`GpgLoads`),
writes back what it read with the change (`GpgSaves`; `GpgEditSession` is this step in
detail), the reload lists and delivers the key, and `changed` rebuilds lists, page and combo
box (`Changed`). The user's actions are the callbacks of the widget; nothing in the code
keeps a second edit from starting while one runs. The key has its secret half.

*Properties.* `ChosenIsDeleted`: the index that `delete_subkey` and `delete_user_id` count
in the item's list is, in the key gpg has read, that of the element on the page, as long
as the key has only been added to. (If something was deleted meanwhile it may be another
element; the code cannot know.) `EditorShowsTheItem` and `ComboShowsTrust`: after any
overlap of edits the lists, the page and the combo box agree with the item; the second
names the exception, a trust edit that failed leaves its value in the box.

*Finding* (`gpg_editor_expiry`). The page of a subkey is made once and keeps the index it was
made with: the expiry changed on the page of the second subkey that is opened is sent to
gpg with the index of the first.

*Bounds.* A primary key, a subkey and one to be added, two user ids, two overlapping edits
and one change from outside: enough to have a page whose subkey has gone, an index behind
or ahead of the key, and reloads that overtake each other. The two edits and the two trust
values gpg accepts are interchangeable.

### GpgSource

*Code.* One record per operation holds the fields of `GGpgSource` and the references to it
and its `GTask`. The callbacks gpgme is given (`AddFd`, `RemoveFd`, `StartEvent`,
`DoneEvent`) are functions of that record; `Begin` is any of the `g_gpg_ctx_*` functions
(they differ in the gpgme call), and dispatch is taken apart into the walk over the
descriptors, in which handlers change the list that is being walked, the callback that
returns the task, and the destruction of the source. gpgme is external: a handler reads,
delivers a key, registers another descriptor, ends one, or fails.

*Properties.* `StaysAwake`: a source in the main loop is done or watches a descriptor;
otherwise nothing would ever wake it. `Released`: whoever has reported has let go of
source, task and cancellable. Its exception is the code's: when gpgme cannot start, the
function returns the error through the task and drops neither reference.
`EveryOperationReports`, and `ImplementsOperation`, the refinement of `GpgOperation`: an
operation ends once, reports once, after its keys, and with an error if it was cancelled.
Clients are modelled against that.

*Fairness.* `WF_vars` of the loop's actions together: the main loop polls and dispatches as
long as something is ready, and gpg closes its descriptors in the end. Without the second
half a listing may run for ever, which is what the cancellable is for.

*Bounds.* Three operations: two in a row on one context, as `load_content` has them, and
sharing the cancellable; one on another context without it. Two descriptors, so that a
handler can remove the one the walk comes to next. One cancellation (and resets), one key,
one read that does not end a descriptor: twice as many of each gives the same patterns at
many times the states.

*What the proof found.* An operation that is not cancellable can be cancelled all the same: while
the destroy notification of the last operation of its context runs, that one's source is still
connected to its cancellable and calls `gpgme_cancel` on the context the new operation was begun
on. Clients of this program give the operations of one context all the cancellable or none of
them; the refinement theorem assumes that (`ContextsAgree`).

### GpgObjects

*Code.* `heap.obj` are the GObject wrappers with their reference counts, `heap.native` gpgme's
structures with theirs. `Wrap` and `Unref` are construction, dispose and finalize of all classes:
the owning ones (`Owning`) reference or own what they point to, the others point into the
structure of the wrapper they were got from, and hold that wrapper. When the last reference to one
goes, so does its own to its owner (`LetGo`), and so on up a chain, which has at most three
wrappers: an element of a user id of a key. The signers of a context, the arguments of an operation
and the like are bags: the code takes and drops the references of a list in one go, in an order
that nothing depends on. `Start` is the common part
of the fourteen `g_gpg_ctx_*` operations, each of which says what its source references, what
gpgme uses meanwhile, and which results it leaves with the context; gpgme drops those when the
next operation of the context starts. The client, Vala code that holds and drops any wrapper at
any time, passes live buffers. A "listing" stands for the results of decrypt, sign and encrypt,
and one element for each list.

*Properties.* `LivePointers`: whatever the client lets go of and whatever the context does next,
a wrapper that is alive points into a live structure. `ArgumentsHeld`: so does what gpgme works
on while an operation runs. `EveryReferenceIsHeld` balances the reference counts: nothing is
released twice, and what stays without a holder is exactly what the code loses: the wrapper that
`g_gpg_data_free_to_bytes` leaves (`strays`), a listed key whose birth reference nobody adopts
(Vala borrows the callback's argument), and what the source of an operation that could not start
holds (`kept`).

*Exceptions, defects.* A notation is made as a `GGpgSubkey`, whose owner property does not take a
signature (3462-3478, against the comment at 3459-3460): it keeps nothing alive, and
`LivePointers` excuses it. The finalizer of an encryption frees an advanced pointer (4283-4294):
with recipients the program ends there, and so does the model (`aborted`). `clear_signers` leaves
gpgme's own list alone, so that the next signature still uses it (the keys are alive, since gpgme
references them). Besides, from reading only: `InvalidKey`'s dispose chains up to finalize,
`export_keys` leaks its array, the import status setter references an element, and the
engine-info property passes a raw pointer as an object.

*Bounds.* Three wrappers and three structures, two of them keys or buffers: a key, a result and
an element of either next to a running operation. One extra: a signer, or an operation that did
not start. The run needs `CHECK_DEADLOCK FALSE` since the program may have let go of everything,
or have aborted. That gpgme's `NEXT_KEY` event lends its key is gpgme's contract.

### EntryBuffer

*Code.* Characters are a model value and a width; `text` is the allocation byte by byte, with
the NUL and what is left behind it. `Insert` is `egg_secure_entry_buffer_real_insert_text`:
growth by doubling, the cut to `MAX_SIZE` and then back to whole characters, and the two
memmoves; `Delete` and `Finalize` likewise. Memory comes locked or, when none is left, from the
fallback, and growing may move it from the one to the other: what that leaves in pageable memory
is `left`, and `loose` remembers how.

*Properties.* `BufferIsSound`: bytes, characters, NUL and allocation agree after any sequence of
edits. `ImplementsText`: the buffer implements `EntryText`, the text of a GtkEntryBuffer, with
the characters an insertion had to refuse at its end. `FreedTextIsCleared`: what was freed in
pageable memory had been overwritten, except what `g_realloc` moves, and what a deletion leaves
behind the NUL, where `egg_secure_strfree` does not look.

*Bounds.* Sizes 2, 4 and 7 stand for 16, 32, ..., 32768 and 65535, the last one less than a
double; characters of one and two bytes, so that the cut falls into one; two characters at a
time, so that an insertion can double twice.

### SecretKeyring, SecretEditor

*Code.* `service` is the Secret Service, which other programs lock, unlock and change; `cache` is
libsecret's copy, which hears of the changes of a collection's items and of its lock separately
and in any order. `Synced` is `on_items_changed` with the panel's handlers, `Loaded` is
`load_items`. Every notification of `has-locked` shows a question for every collection that is
still locked (`TryUnlock`), also for those that already have one. A SecretItem is made anew when
its collection is unlocked; a deletion, an editor or a write may hold the old one, whose signals
no row follows (`dropped`). `SecretEditor` adds the dialog of one item: one idle callback per
field compares with libsecret's copy and calls the service; calls are answered in order, may
fail, and may be answered when the dialog has gone.

*Properties.* `ShowsTheKeyring`: once all has been told, in whatever order and whatever is under
way, the rows are the known items of the unlocked collections. `QuestionsEnd`. `EditsAreSaved`:
once callbacks and calls are done, what was typed in is in the item. Its exceptions are the
code's: a failed write is not tried again; a change *back* while the first write is on its way
compares equal to the old copy and is dropped, so the first write wins; and a password typed
before it has been loaded, or after that has failed, is not saved. `EditsLeaveTheRest`: a write
changes nothing else, except that all attributes with an entry are written as the entries show
them (a URL becomes its domain) and that what other programs changed meanwhile is overwritten.
`RowShowsTheItem`: the row follows the item through all of that.

*Fairness.* `WF_vars(Answering)`: the questions are modal dialogs, the user answers one way or
the other. Nothing is assumed of the service, which may never answer.

*Bounds.* A collection with a password, an item of an unknown schema and one to be generated, an
empty one and the session's; two unasked acts of the user or of other programs (an act and one
that interferes), one call of unlock at a time. One dialog at a time, opened when nothing of the
last is left. Item paths are not used again. A failed `load_collections` leaves the panel empty
and collections created or deleted later are not noticed; neither is a state of its own. After
its dialog has been destroyed a callback reads an entry GTK has disposed of: the model lets it
read the text or nothing.

### GpgFetcher

*Code.* Searches are operations of `GpgOperation` (the variables are the same, so nothing
has to be mapped); `Search` is `on_search_activate` as a whole, which cancels whatever is
running, resets the cancellable and begins again. A timeout per search turns the page to
"loading"; the id of only the last one is kept.

*Properties.* `MatchesAreOfTheLastSearch`: although the cancellable and the list are shared, the
matches are the last search's and an import is never cancelled by a search, since a cancelled
operation delivers nothing and a cleared search leaves no match to select; and a timeout that is
removed is pending, else GLib complains. `MatchesAreShown` has a condition, `lost`, which names a defect: a search
that begins within half a second of the previous one overwrites a pending timeout's id, no
report can remove that timeout, and it leaves "Loading" (`data/ui/gpg-fetcher-dialog.ui`) on
the screen when all searches have reported.

*Fairness.* `WF_vars(Loop)`: gpg ends and the main loop runs callbacks and timeouts.

*Bounds.* Three searches of up to two keys: one that has not reported, one whose timeout is
overwritten, and the last.

### ListPanel

*Code.* One panel with the window's search entry and selection bar. `Show` is `GtkListBox`
following the model it is bound to, with new rows, and so without check marks, for whatever
the model says has changed. `filter_items` connects a handler to the window's cancellable
with every search; the window cancels and resets it. `Recount` is what `selection_changed`
triggers: every binding of `selection-count` walks `_store` and the rows by number. One
deletion runs at a time, item by item, over the items selected when it began.

*Properties.* `RowsNumberTheStore` is why numbers may be used at all: without a search row
*n* is item *n*, through any sequence of sorted insertions, removals, changes, searches and
deletions; and stopping or clearing a search leads back there, whatever handlers are connected.
`DeletesTheChecked`: what is deleted was checked when the deletion began. `CountIsRight` names a weakness in its condition
`remade`: a checked row that is removed (a deletion does that) or made anew is not counted
again, so that label and buttons keep an old number.

*Exception, a defect.* While a search is on, the rows are those of the filtered store, and
selection and activation look their numbers up in the other one. Most often there are fewer rows
than items and the walk stops at a null row (`crashed`); when there are not (the item that
matched was removed by another program), the item that is deleted is not the one that was
clicked. `RowsNumberTheStore` is about the bound store, and `DeletesTheChecked` excuses a
deletion begun under a search (`filtered`).

*Bounds.* Two items and a third that is added, two changes, searches or removals: a match
before and after a hidden item, and an item that vanishes under a search.

### SshWire, SshCollection

*Code.* `SshWire` is `ssh-parser.vala` as operators on byte strings: `Parse` with the parsers of
the blobs, `ToLine` with their `to_bytes`. What is lossy in the code is lossy here: strings end
at their first zero byte, and `write_length` writes one byte of a length. gcrypt's MPIs are
external and keep every byte: those of keys have no superfluous zeros in front, which gcrypt
would drop. `SshCollection` is `ssh-backend.vala` with the writes of
`ssh-editor.vala`. Files are read and written synchronously, so that the methods are atomic,
although most are declared `async`; what takes time is a deletion, ssh-keygen, and the
reports of the two directory monitors (`news`). Other programs write and delete at any moment.
An etag is the number of a write (GIO's is the time of the last change in microseconds); null
is 0, and a write with a null etag is not checked, nor is one to a file that is not there.

*Properties.* `ShowsTheFiles`: once the monitors have reported, rows and switches agree with
the files; with the exception of an item deleted here whose file came back at once.
`CheckedWritesAreSafe`: an etag that is passed protects what was not read, unless the last read
ended in a parse error (the etag is kept, the content is not). The condition `checked` names how
far that goes: `authorized_keys` is unchecked until the first own write, since
`load_authorized_keys` does not store the etag it reads, and *any* failed write leaves a null
etag, so that the attempt after the first error overwrites the other program's change.
`KeysAreKept`: writing a comment leaves the key in the file as it was, byte by byte, and authorizing
one does not drop another; with two exceptions that are defects. A key whose encoding is not `Plain`
changes: a string with a zero byte is cut off there, the length of one of more than 255 bytes loses
its upper bytes, and what follows the last field is dropped. Entries without a comment are dropped.

*Bounds.* One key file, since the files of a directory do not interact except in the sweep that
`Gone` describes; keys of every type and three malformed files; two writes here (one that
fails and its retry) and two elsewhere; two objects, so that an editor can stay open on one that
has been replaced. Among the files are a plain Ed25519 key, one with a zero byte and one with a
byte behind its last field, so that both sides of `Plain` occur.

## Runs

| run | shows | states |
|---|---|---|
| `gpg_edit_session` | safety, liveness and refinement of the six commands | 5,530 |
| `secure_memory` | consistency, scrubbing, refinement of the allocator | 339,745 |
| `gpg_collection` | rows, items and key ring | 1,264,451 |
| `gpg_editor` | deletions, lists, page and combo box of the key editor | 2,450,869 |
| `gpg_editor_expiry` | violation: another subkey's expiry is changed | |
| `gpg_source` | one report per operation, references, refinement, liveness | 578,610 |
| `gpg_objects` | pointers, arguments and reference counts of the wrappers | 1,275,649 |
| `gpg_fetcher` | overlapping searches, timeout, import | 176,884 |
| `list_panel` | rows, search, count, deletion | 138,980 |
| `ssh_collection` | rows, etags and the encoding of keys | 290,500 |
| `entry_buffer` | bytes and characters, refinement, clearing | 14,103 |
| `secret` | panel, editor and service together; questions end | 1,060,774 |

Where a module has a type invariant it is a conjunct of one of its properties (`Released`,
`StoreShowsItems`, `HeapConsistent`, ...), and is checked with it.

## Proofs

`GpgEditSession_proofs` proves for every number of user ids, subkeys and disturbances:

- `TypeCorrect`: `Spec => []TypeOK`;
- `SavedAllowed`: `Spec => []SavedIsAllowed`;
- `SmoothSaves`: `Spec => []SmoothSessionSaves`;
- `SessionIsTransaction`: `Spec => ImplementsTransaction`.

`SavedIsAllowed` is not inductive: that what is pending is the requested change has to be
known from what the command and gpg did before. `IInv` says so in four parts, tables in
the command's state: `InStep` (which line a state can have sent, and at which prompt gpg
reads it), `Selection` (what gpg has selected, given that), `Work` (which command gpg is
carrying out, and which values it has accepted so far) and `Gains` (what is pending and
saved: nothing before the change, the change itself after it, and after a refused comment
the bogus one, in a state from which the save question throws). Each of the actions gets
one step; `Perform` is the only one that creates a change, so its lemma, `PerformGains`,
carries the argument. The refinement then follows: only `ReadSave` and a trust value change
`saved`, by an allowed change and once (`AtMostOneSaved`).

`SmoothSaves` adds `SmoothInv`: in a session that nothing disturbs, the command's table has an
answer to every prompt, so that it never fails and does not end without having saved.

Its only assumption is `SizeAssumption` (the constants are numbers and the key has a user id).

`Dialogs_proofs`, about `GpgFetcher`, for any set of searches and keys: `MatchesOfTheLastSearch` and `MatchesShown`.
Only the last search can run, and not while the cancellable is cancelled, which has also emptied
the list (`OnlyTheLast`); as long as no timeout has been lost there is one at most, of a search
that is still to report (`TimeoutsAreAhead`).

`Gpgme_proofs` is about the wrapper library. `GpgSource`, for any set of operations, descriptors and
contexts: `SourceStaysAwake`, `SourceReleased`, and `SourceIsOperation`, the last under
`ContextsAgree` (see GpgSource above). `Stages` tables the fields of a source by the stage of its
life (new, failed, running, leaving, gone), `EventsArrive` says that gpgme's events reach an
operation that has been begun, and for the refinement `Homes` and `Connected` say whose cancellable
a source can still be connected to.

`GpgObjects`, for any number of wrappers, structures and operations: `PointersLive`,
`ArgumentsAlive` and `ReferencesHeld`. The books are kept by double entry. A ledger says how many
references those outside the heap have of each address; `Balanced` says that the heap is well formed
(each wrapper is `Placed`: it points into a structure that is there, or has an owner of the right
class that points to the same) and that each count is the ledger's entry and the wrappers that own
the address. Each function on the heap keeps that balance against a ledger that changes in a known
way (`RefEachBalance`, `UnrefNativesBalance`, `WrapPartBalance`, ...). The hard one is `UnrefBalance`:
while a wrapper goes, its reference to its owner is nobody's, and stays in the ledger as what is
still to be dropped (`Dropping`); that three steps are enough is because owners nest by class, and
the depth of what is left falls with each (`LetGoStep`). Then each action has only to say that the
holders change as the ledger does. `ObjectsInv` is the balance with the ledgers `Held` and `Used` of
the client, the strays, the context, the operation and the failed starts, together with what its
steps need: `CtxHeld` (the count of the context: it is not finalized under an operation), `Turns` (a
running operation has no old results, which gpgme would release once more), `StraysAreEmpty` (a
buffer that was taken away is not taken again) and `UsesAreHeld` (what gpgme works on is pointed to
by an argument, or referenced by the source or the context). TLC had checked `ObjectsInv` on the
instance of the run. Of the abort of an encryption only the form of the heap is left.

`SecretEditor_proofs`, for any collections, items, attributes and formats: `PanelShowsTheKeyring`,
`RowShows`, `EditsSaved` and `EditorLeavesTheRest`, every safety property of the run.
- The panel: `TableFollows` (the table is libsecret's view of the open collections, at all
  times, which is why the order of notifications does not matter), `RowsFollow` (a row is missing
  only for an item deleted here, which is not in the service either) and `ButtonFollows`.
- The row: `CopyFollows` makes libsecret's copy part of the invariant, since a new row is made
  from it.
- What is written: `WrittenIsTyped`, `ShownIsTyped` and `HiddenIsKept` say what a write, and an
  entry that may be written, can hold; a write that comes back changes the item under the ones
  behind it, so that `OfThisDialog` and `InOrder` are needed: the calls under way are of one
  dialog, and agree on what was not typed in.
- What is saved: `EditsArrive`; of every part that was typed in, the last text is still
  scheduled, or in the last write of its field, or in the item, or excused.
`SecretKeyringAssumption` and `SecretEditorAssumption` say that the constants fit together: the
entries' attributes and the others are disjoint, formats map values to values, and what is opened
is an item of a known schema that was there before.

`GpgCollection_proofs`, for any keys and operations: `PanelShowsTheItems`, `LoadsSettle` and
`ReloadsAreExact`, the safety properties of the run.
- The panel: `RowsFollow` and `ItemsHaveTheirKeys` are the property itself; to stay true when a
  deletion or a reload ends they need `OpsKnowTheirItems` (an operation on an item names a key
  and an item that was made for it).
- Loads: `SettledFollows`: while the collection is settled, every load under way lists the ring as
  it is, and what a load that nothing disturbed has passed is tracked, so that its end removes
  nothing that is there.
- Reloads: `ReloadsAreRight` says what an undisturbed reload knows at each stage: what its listing
  will deliver, then what the item has, and why the second listing was left out.

`CollectionAssumption` asks for room for version 1, which the keys of the initial ring have.

`Widgets_proofs`, about `GpgEditor`, for keys of any size, any trust values and any number of edits:
`DeletionHitsTheChosen`, `EditorFollowsTheItem` and `ComboFollowsTrust`. `Hits` keeps, for every
deletion under way, that its index is that of the chosen element in the list it was taken from
(`EnumerateFinds`); that the list gpg reads begins with that one is the property's own condition.
`ListsFollow` and `ComboFollows` are the other two properties; a step of an edit can only disturb
them by ending a reload or a trust edit, which `EditStep` asks of each.

About `ListPanel`, for any items, order and searches: `RowsNumbered`, `CountRight` and
`CheckedDeleted`. The store is a sorted sequence that is changed in the middle, and the list box
follows by positions: lemmas say what `InsertAt` and `RemoveAt` do to elements and positions, and
what the walk of `selection_changed` meets. `PanelInv` has, besides the types and
`DeletesTheChecked`: the store holds exactly the items announced and not removed (`StoreFollows`),
only a search binds the filtered store and connects a handler, and the page crashes only under one
(`SearchFollows`), without a search the rows are the store, item by item (`RowsFollow`), and the
count is that of the checked rows unless they were `remade` (`CountFollows`). `PanelAssumption` asks
that the items at the start are finitely many, and the changes a number.

`SshCollection_proofs`, for any files, entries and number of items: `PanelShowsTheFiles`,
`EtagsProtect` and `KeysKept`. `RowsFollow`, `ItemsFollow` (with no news of the directory, a path has an item if
and only if its file can be parsed) and `SwitchesFollow` say what follows from the monitors being
read. `EtagsTell` is what the etags are for: an item whose etag is that of its file was read from
it, or its last reading ended in a parse error.

`KeysKept` is about the encoding, for keys of any size. `RoundTrip` is its
core: a line that parses and is `Plain` is written back with the same bytes. It goes by induction
over the fields: as far as the reading has come, what was read encodes to the bytes before the
offset. `KeysInv` is then relative to the other invariant: file contents are bytes, keys in memory
have the fields of their type (`KeysAreWhole`), a key in memory is the one of the file as long as the
etags agree (`KeysFollow`, and `LinesFollow` for authorized_keys), and `KeysAreKept`.
`WireAssumption` says that types are non-empty byte strings (`NoLine`, the line of a file that is not
there, has an empty one and must not parse), `CollectionAssumption` that files consist of bytes.

About `EntryBuffer`, in `Dialogs_proofs`, for any characters, widths and sizes: `BufferSound`,
`BufferIsText` and `FreedCleared`. `EntryInv` says that there is a text whose encoding is the
beginning of the allocation, with the offset of each character (`Holds`, offsets being partial sums
of widths), that counters and NUL are placed after it (`Placed`), and what is left behind it
(`Cleared`). The lemmas are about offsets, about reading characters off encoded bytes (`CharsOf`),
about the splice that an insertion or deletion is, and about `FindPrevChar`, which cuts back to the
end of a character. `EntryBufferAssumption`: characters have a width of at least one byte, and the
smallest size is below the largest.

`SecureMemory_proofs`, for any lengths, sizes of page, block and pool, limit of locked memory and
number of threads: `HeapIsConsistent`, `CellsAreBuffers`, `MemoryIsScrubbed`, `BlocksAreUsed` and
the refinement, `HeapImplemented`. The argument has four layers.
- The heap: `Sound` (each block is `Laid` out in cells between the guards that name them, the
  `Rings` link them, blocks are `Apart`) and `Private` (a word of data lies inside the requested
  words of a used cell). Each C function takes such a heap to such a heap, although halfway through
  `sec_alloc`, `sec_free` and `sec_realloc` it is neither.
- The view: what a function does, said without cells, as words at addresses.
- The store: the view together with the pageable buffers; a section under the lock changes it at the
  addresses of one buffer.
- The sections: `Inv` is `MemoryInv` (the heap is sound and private, pageable buffers are
  finitely many), `BufInv` (buffers are finitely many, with owners and lengths), `CallInv` (what a
  reallocation knows between its sections), `StoreInv` (the addresses stored are the live buffers,
  each with its owner's words, and a moved copy equals its original, which the refinement needs),
  `CauseInv` and `IdleInv` (why a buffer is pageable, a block empty).

TLC had checked `Inv` on an instance with five items of meta data (220,548 states).
`HeapAssumption` asks for positive sizes and a page with room for two guards.

Each proof module names its invariant's parts and proves one lemma per action. Every safety property
of the passing runs is proved, and every refinement. Only model-checked is liveness (`SessionEnds`,
`BogusChangeFails`, `EveryOperationReports`, `SearchesComeToRest`, `QuestionsEnd`), which is out of
the prover's reach. Induction over data by the library's theorems, which take an operator as a
parameter, is out of its reach too; where a recursive function or a sum had to be reasoned about, the
induction is over a set of numbers that has a least element (`Least`, from `WFMin`), and the models
use recursive functions and bags instead of folds with an operator for what is proved of them.

## Not modelled

- The property getters, enum tables and import statuses of the gpgme wrapper, its progress and
  passphrase callbacks: they pass values through, or are not used by this program.
- Generators, view adapters, formatting and schema tables (`gpg-utils.vala`,
  `secret-schema.vala`, `utils.vala`): construction of dialogs and lookups without state. The
  formats of attributes are a constant of `SecretEditor`.
- `strdup`, `strclear` and the valgrind annotations of the allocator, and the growth of its pool of
  meta data: the pool has a fixed size here, and runs out.
- The overlap of two reloads of one key that gpg answers in the other order: the models have the
  behaviour, and nothing says what should hold then.
- Export, publishing and passphrases of keys, which change no state of this program.
- Bindings, build files, data, translations and the tests, which only start the application.

`PROJECT.json` gives the reason for each component that is modelled in part or not at all.

## Open ends

What holds of two overlapping reloads of one key would have to be settled in the code first, and the
defects named above with it: each is a condition (`Misfit`, `starved`, `filtered`, `remade`,
`checked`, `strays`, `kept`, `aborted`, `Plain`, ...) that can go, and the property be proved without
it, once the code is mended.
