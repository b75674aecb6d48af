------------------------------ MODULE SshCollection ------------------------------
(***************************************************************************)
(* The SSH keys of ~/.ssh and its authorized_keys (src/ssh-backend.vala),   *)
(* with the rows of the panel and the editors opened for them.              *)
(*                                                                          *)
(* Other programs write the same files; GFile's etags are meant to keep the *)
(* program from overwriting what it has not read.  An etag is the number of *)
(* a write; 0 is null, with which a write is not checked at all.  The files *)
(* are read and written synchronously: the methods are atomic, but a        *)
(* deletion, ssh-keygen and the reports of the monitors take their time.    *)
(***************************************************************************)
EXTENDS SshWire

CONSTANTS
  Paths,         \* names of public keys
  InitialLines,  \* what key files contain at first
  Lines,         \* what other programs and ssh-keygen write
  Comments,      \* comments the user enters
  MaxItems,      \* bound: SshItem objects
  MaxWrites,     \* bound: writes and deletions of this program
  MaxOutside     \* bound: writes and deletions of other programs

ASSUME CollectionAssumption ==
  /\ {MaxItems, MaxWrites, MaxOutside} \subseteq Nat
  /\ \A l \in InitialLines \cup Lines : l.data \in Seq(Byte)

None == 0
Objects == 1..MaxItems

VARIABLES
  files,    \* the key files: what they contain and their etags
  auth,     \* authorized_keys: its lines and its etag
  clock,    \* the last etag given
  items,    \* _items: of each path, its SshItem
  object,   \* the SshItems: _content, path, _etag, and the etag _content was read with
  rows,     \* the SshItems the panel lists
  opened,   \* those an editor has been opened for
  deleting, \* those being deleted
  deleted,  \* those deleted here
  keygen,   \* ssh-keygen has written a key and not returned
  seen,     \* _authorized_keys_bytes, _authorized_keys_etag, and the etag they were read with
  news,     \* the monitors have something to report: of the directory, of authorized_keys
  losses,   \* what this program's writes have destroyed
  writes, outside

vars == <<files, auth, clock, items, object, rows, opened, deleting, deleted, keygen, seen,
          news, losses, writes, outside>>

NoFile == [line |-> NoLine, etag |-> None]
NoItem == [path |-> None, key |-> None, etag |-> None, read |-> None]

\* authorized_keys: a set of lines, each with a key's data and with the second space or not.
Entry(data, full) == [data |-> data, full |-> full]

Init ==
  /\ files \in [Paths -> {[line |-> l, etag |-> 1] : l \in InitialLines} \cup {NoFile}]
  /\ auth = [lines |-> {}, etag |-> None]
  /\ clock = 1
  /\ items = [p \in Paths |-> None]
  /\ object = [o \in Objects |-> NoItem]
  /\ rows = {} /\ opened = {} /\ deleting = {} /\ deleted = {}
  /\ keygen = FALSE
  /\ seen = [lines |-> {}, etag |-> None, read |-> None]
  /\ news = [dir |-> TRUE, auth |-> FALSE]
  /\ losses = {}
  /\ writes = 0 /\ outside = 0

Write == writes < MaxWrites /\ writes' = writes + 1 /\ UNCHANGED outside
Outside == outside < MaxOutside /\ outside' = outside + 1 /\ UNCHANGED writes

---------------------------------------------------------------------------
(* Files.                                                                   *)

SetFile(p, line) ==
  /\ clock' = clock + 1
  /\ files' = [files EXCEPT ![p] = [line |-> line, etag |-> clock + 1]]
  /\ news' = [news EXCEPT !.dir = TRUE]

SetAuth(lines) ==
  /\ clock' = clock + 1
  /\ auth' = [lines |-> lines, etag |-> clock + 1]
  /\ news' = [news EXCEPT !.auth = TRUE]

\* replace_contents with an etag: a file that is not there is made, one with another etag
\* is an error.
Replaceable(etag, file) == file.etag = None \/ etag = None \/ etag = file.etag

OutsideWrites(p) ==
  /\ Outside
  /\ \E l \in Lines : SetFile(p, l)
  /\ UNCHANGED <<auth, items, object, rows, opened, deleting, deleted, keygen, seen, losses>>

OutsideDeletes(p) ==
  /\ Outside
  /\ files[p] # NoFile
  /\ files' = [files EXCEPT ![p] = NoFile]
  /\ news' = [news EXCEPT !.dir = TRUE]
  /\ UNCHANGED <<auth, clock, items, object, rows, opened, deleting, deleted, keygen, seen,
                 losses>>

\* A key is authorized with or without a comment, or authorized_keys is deleted.
OutsideAuthorizes ==
  /\ Outside
  /\ \/ \E l \in Lines \ {NoLine}, full \in BOOLEAN :
          SetAuth(auth.lines \cup {Entry(l.data, full)})
     \/ /\ auth.etag # None
        /\ auth' = [lines |-> {}, etag |-> None]
        /\ news' = [news EXCEPT !.auth = TRUE]
        /\ UNCHANGED clock
  /\ UNCHANGED <<files, items, object, rows, opened, deleting, deleted, keygen, seen, losses>>

---------------------------------------------------------------------------
(* The collection.                                                          *)

\* SshItem.load_content: the etag is overwritten before the file is parsed, and with null
\* when it cannot be read.
Slip_LoadedOnce(item, file) ==
  IF Parses(file.line) /\ item.etag = None
  THEN [item EXCEPT !.etag = file.etag, !.key = Parse(file.line), !.read = file.etag]
  ELSE [item EXCEPT !.etag = file.etag]
Loaded(item, file) ==
  IF Parses(file.line)
  THEN [item EXCEPT !.etag = file.etag, !.key = Parse(file.line), !.read = file.etag]
  ELSE [item EXCEPT !.etag = file.etag]

\* load_items: a file that cannot be parsed is not there; a file whose item is known is
\* not looked at again.
Seen == {p \in Paths : Parses(files[p].line)}

Fresh == {p \in Seen : items[p] = None}

Slip_SweepNothing == {}
Gone == {p \in Paths : items[p] # None /\ p \notin Seen}

LoadItems ==
  LET fresh == Fresh
      unused == {o \in Objects : object[o] = NoItem}
  IN \E new \in [fresh -> unused] :
       /\ IsInjective(new)
       /\ \A o \in unused : o \in Range(new) \/ \A n \in Range(new) : n < o
       /\ items' = [p \in Paths |-> CASE p \in fresh -> new[p] [] p \in Gone -> None
                                      [] OTHER -> items[p]]
       /\ object' = [o \in Objects |->
            IF o \in Range(new)
            THEN LET p == CHOOSE q \in fresh : new[q] = o IN
                 Loaded([NoItem EXCEPT !.path = p], files[p])
            ELSE object[o]]
       /\ rows' = (rows \cup Range(new)) \ {items[p] : p \in Gone}

\* The directory's monitor reports; so does the panel when it begins.
MonitorChanged ==
  /\ news.dir
  /\ news' = [news EXCEPT !.dir = FALSE]
  /\ LoadItems
  /\ UNCHANGED <<files, auth, clock, opened, deleting, deleted, keygen, seen, losses, writes,
                 outside>>

\* generate_item: ssh-keygen, which does not overwrite a key unasked, and then load_items.
Keygen(p) ==
  /\ Write
  /\ ~keygen /\ files[p] = NoFile
  /\ \E l \in Lines \ {NoLine} : SetFile(p, l)
  /\ keygen' = TRUE
  /\ UNCHANGED <<auth, items, object, rows, opened, deleting, deleted, seen, losses>>

Generated ==
  /\ keygen
  /\ keygen' = FALSE
  /\ LoadItems
  /\ UNCHANGED <<files, auth, clock, opened, deleting, deleted, seen, news, losses, writes,
                 outside>>

---------------------------------------------------------------------------
(* Items.                                                                   *)

\* row_activated opens the editor whether the content could be loaded or not.
Open(o) ==
  /\ o \in rows
  /\ \E file \in {files[object[o].path], NoFile} :
       object' = [object EXCEPT ![o] = Loaded(@, file)]
  /\ opened' = opened \cup {o}
  /\ UNCHANGED <<files, auth, clock, items, rows, deleting, deleted, keygen, seen, news, losses,
                 writes, outside>>

\* What a write destroys: a key file that had not been read, the data of one that had been,
\* entries that had not been read, an entry that had been.
Loss(kind, checked, of) == [kind |-> kind, checked |-> checked, of |-> of]

CommentLosses(item, file, line) ==
  IF file.etag = None THEN {}
  ELSE IF file.etag # item.read THEN {Loss("unread", item.etag # None, file.line)}
  ELSE IF file.line.data # line.data THEN {Loss("data", item.etag # None, file.line)}
  ELSE {}

\* set_comment, from the editor: the comment is in _content before the file is written, and
\* an error leaves a null etag.  A file that has been written is loaded again.
WriteFailed(item) == [item EXCEPT !.etag = None]

SetComment(o, c) ==
  LET p == object[o].path
      item == [object[o] EXCEPT !.key.comment = c]
      line == ToLine(item.key)
      file == [line |-> line, etag |-> clock + 1]
  IN
  /\ Write
  /\ o \in opened
  /\ \/ /\ Replaceable(item.etag, files[p])
        /\ SetFile(p, line)
        /\ losses' = losses \cup CommentLosses(item, files[p], line)
        /\ \E read \in {file, NoFile} :
             object' = [object EXCEPT ![o] = Loaded([item EXCEPT !.read = clock + 1], read)]
     \/ /\ object' = [object EXCEPT ![o] = WriteFailed(item)]
        /\ UNCHANGED <<files, clock, news, losses>>
  /\ UNCHANGED <<auth, items, rows, opened, deleting, deleted, keygen, seen>>

\* delete: the file goes, and later the item is announced as removed; it stays in _items.
Delete(o) ==
  /\ Write
  /\ o \in rows \ deleting
  /\ files[object[o].path] # NoFile
  /\ files' = [files EXCEPT ![object[o].path] = NoFile]
  /\ news' = [news EXCEPT !.dir = TRUE]
  /\ deleting' = deleting \cup {o}
  /\ UNCHANGED <<auth, clock, items, object, rows, opened, deleted, keygen, seen, losses>>

Deleted(o) ==
  /\ o \in deleting
  /\ deleting' = deleting \ {o}
  /\ deleted' = deleted \cup {o}
  /\ rows' = rows \ {o}
  /\ UNCHANGED <<files, auth, clock, items, object, opened, keygen, seen, news, losses, writes,
                 outside>>

---------------------------------------------------------------------------
(* authorized_keys.                                                         *)

EntriesOf(o, lines) == {l \in lines : l.full /\ l.data = ToData(object[o].key)}
IsAuthorized(o) == EntriesOf(o, seen.lines) # {}

\* set_authorized rewrites what was read last; an entry without the second space is left
\* out.  A key that is there already is not written.
Slip_OnlyMine(o, on) == IF on THEN {Entry(ToData(object[o].key), TRUE)} ELSE {}
NewLines(o, on) ==
  ({l \in seen.lines : l.full} \ EntriesOf(o, seen.lines))
    \cup (IF on THEN {Entry(ToData(object[o].key), TRUE)} ELSE {})

AuthLosses(o, lines) ==
  IF auth.etag = None THEN {}
  ELSE IF auth.etag # seen.read THEN {Loss("unseen", seen.etag # None, NoLine)}
  ELSE {Loss("entry", seen.etag # None, l) :
          l \in auth.lines \ (lines \cup EntriesOf(o, auth.lines))}

SetAuthorized(o, on) ==
  LET lines == NewLines(o, on) IN
  /\ Write
  /\ o \in opened
  /\ ~(on /\ IsAuthorized(o))
  /\ \/ /\ Replaceable(seen.etag, auth)
        /\ SetAuth(lines)
        /\ seen' = [lines |-> lines, etag |-> clock + 1, read |-> clock + 1]
        /\ losses' = losses \cup AuthLosses(o, lines)
     \/ /\ seen' = WriteFailed(seen)
        /\ UNCHANGED <<auth, clock, news, losses>>
  /\ UNCHANGED <<files, items, object, rows, opened, deleting, deleted, keygen>>

\* load_authorized_keys: the etag it reads is not kept; an error, as that of a file which is
\* not there, is lost.
AuthorizedKeysChanged ==
  /\ news.auth
  /\ news' = [news EXCEPT !.auth = FALSE]
  /\ IF auth.etag \in {None, seen.etag} THEN UNCHANGED seen
     ELSE seen' = [seen EXCEPT !.lines = auth.lines, !.read = auth.etag]
  /\ UNCHANGED <<files, auth, clock, items, object, rows, opened, deleting, deleted, keygen,
                 losses, writes, outside>>

---------------------------------------------------------------------------
Others == OutsideAuthorizes \/ \E p \in Paths : OutsideWrites(p) \/ OutsideDeletes(p)
Editor == \E o \in Objects : \/ Open(o) \/ Delete(o) \/ Deleted(o)
                             \/ \E c \in Comments : SetComment(o, c)
                             \/ \E on \in BOOLEAN : SetAuthorized(o, on)

Next == \/ MonitorChanged \/ AuthorizedKeysChanged
        \/ (\E p \in Paths : Keygen(p)) \/ Generated
        \/ Editor \/ Others

Spec == Init /\ [][Next]_vars

---------------------------------------------------------------------------
(* Properties                                                               *)

\* The type of the state; every listed object is the item of its path.
TypeOK ==
  /\ \A p \in Paths : files[p].etag \in 0..clock
  /\ auth.etag \in 0..clock /\ seen.etag \in 0..clock /\ seen.read \in 0..clock
  /\ items \in [Paths -> {None} \cup Objects]
  /\ \A p \in Paths : items[p] # None => object[items[p]].path = p
  /\ rows \subseteq Range(items) \ {None}
  /\ opened \cup deleting \cup deleted \subseteq {o \in Objects : object[o] # NoItem}
  /\ \A o \in Objects :
       object[o] # NoItem => object[o].path \in Paths /\ object[o].key.magic \in Magics
  /\ {keygen, news.dir, news.auth} \subseteq BOOLEAN
  /\ writes \in 0..MaxWrites /\ outside \in 0..MaxOutside

\* When the monitors have nothing to report, whatever was written, deleted and generated
\* by whom: there is one row for every key file that can be parsed, except for an item that
\* was deleted here while its file came back; and the entries the switches look at are
\* those of authorized_keys, if there is one.
ShowsTheFiles ==
  /\ TypeOK
  /\ ~news.dir => /\ Range(items) \ {None} = {items[p] : p \in Seen} \ {None}
                  /\ \A p \in Seen : items[p] # None
                  /\ rows = Range(items) \ ({None} \cup deleted)
  /\ ~news.auth /\ auth.etag # None => seen.lines = auth.lines

\* A write that is checked by an etag does not destroy what another program wrote and this
\* one has not read: neither a key file, except when the last attempt to read it ended in a
\* parse error, nor authorized_keys.
CheckedWritesAreSafe ==
  \A l \in losses : /\ l.kind = "unread" /\ l.checked => ~Parses(l.of)
                    /\ l.kind = "unseen" => ~l.checked

\* A write to a file that had been read keeps the key it contains, byte by byte, unless a
\* string in it has a zero byte or a length of more than one byte, or bytes follow the last
\* field; and it drops an entry of another key only if that has no comment.
KeysAreKept ==
  \A l \in losses : /\ l.kind = "data" => ~Plain(l.of)
                    /\ l.kind = "entry" => ~l.of.full
=============================================================================
