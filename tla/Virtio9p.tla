------------------------------ MODULE Virtio9p ------------------------------
(***************************************************************************)
(* The virtio 9P device (virtio.c) on the file system over HTTP, and the   *)
(* transfers of the host's event loop (fs_wget.c).                         *)
(*                                                                         *)
(* One thread runs all: either the guest, which posts requests, or a chain *)
(* of callbacks.  An open that has waited for its content ends inside the  *)
(* callback of the transfer and handles the next requests there, so that   *)
(* they run in the middle of the loop over the members of an archive.      *)
(* stack holds what is left to do, the innermost first; the guest runs,    *)
(* and a transfer calls back, only when it is empty.                       *)
(***************************************************************************)
EXTENDS FsFile

CONSTANTS
  CmdNames,   \* names that commands written to .fscmd name
  CmdIDs,     \* files of the server that they ask for
  RootEntries,\* sequence of [name, file_id]: the files of the file list
  CmdName,    \* FSCMD_NAME
  MaxQueue,   \* requests posted and not handled
  Guests,     \* what a guest asks for: [requests, calls, names, start, encrypted],
              \* the kinds of request, how many that change the file system,
              \* the names it uses, its fids besides 1, the root, and 2, .fscmd, each
              \* with the file it is walked to first, and whether the server's
              \* files are encrypted
  MaxSize     \* size of a file the guest makes

VARIABLES
  fs,              \* the file system
  queue,           \* requests posted and not handled: each is chosen when it is read
  req_in_progress,
  stack,
  guest,           \* bounds the run: one of Guests
  calls            \* requests that have changed the file system

WorkFids == DOMAIN guest.start

vars == <<fs, queue, req_in_progress, stack, guest, calls>>

(***************************************************************************)
(* The file system once the file list is loaded: inode 1 is the root, 2 is *)
(* .fscmd, the files follow.  The guest has attached fid 1, opened fid 2   *)
(* on .fscmd and walked others to files, .fscmd again among them.          *)
(***************************************************************************)
fs_create_cmd(s) ==
  LET t == fs_delete(fs_create(fs_attach(s, 1), 1, CmdName, 2).s, 1)
  IN  [t EXCEPT !.node[2].is_fscmd = TRUE]

fs_mem_init ==
  LET slots(k) == FoldLeft(LAMBDA q, i : Append(q, Free), <<>>, [i \in 1 .. k |-> i])
      s == [node |-> slots(MaxInode), inode_count |-> 0, fs_blocks |-> 0,
            cache |-> <<>>, cache_size |-> 0, url_refs |-> 1,
            oi |-> slots(MaxOpenInfo), xhr |-> slots(MaxXhr), file |-> slots(MaxFile),
            encrypted |-> FALSE, stop |-> ""]
      t == inode_incref(inode_incref(inode_new(s, Root, "dir"), Root), Root)
  IN  inode_dir_add(inode_dir_add(t, Root, ".", Root), Root, "..", Root)

\* The files of the list, in the order of RootEntries.
filelist_load(s) ==
  FoldLeft(LAMBDA t, i :
             LET n == free_slot(t.node)
             IN  fs_net_set_url(inode_dir_add(inode_new(t, n, "reg"), Root,
                                              RootEntries[i].name, n),
                                n, RootEntries[i].file_id).s,
           s, Indices(RootEntries))

Init ==
  /\ guest \in Guests
  /\ LET s == fs_attach(filelist_load(fs_create_cmd(fs_mem_init)), 1)
         t == fs_open(fs_walk(s, 2, 1, CmdName), 2, "w").s
     IN  fs = [FoldSet(LAMBDA f, u : fs_walk(u, f, 1, guest.start[f]), t, WorkFids)
                 EXCEPT !.encrypted = guest.encrypted]
  /\ queue = 0
  /\ req_in_progress = FALSE
  /\ stack = <<>>
  /\ calls = 0

running == fs.stop = ""
top == Head(stack)
at(op) == running /\ stack # <<>> /\ top.op = op

(***************************************************************************)
(* Requests.                                                               *)
(***************************************************************************)
Serve == [op |-> "serve"]

\* The guest adds k requests and notifies the queue.
Post ==
  /\ running
  /\ stack = <<>>
  /\ \E k \in 1 .. MaxQueue - queue : queue' = queue + k
  /\ stack' = <<Serve>>
  /\ UNCHANGED <<fs, req_in_progress, guest, calls>>

\* queue_notify() stops at a request that is not accepted, and at the end.
ServeEnd ==
  /\ at("serve")
  /\ queue = 0 \/ req_in_progress
  /\ stack' = Tail(stack)
  /\ UNCHANGED <<fs, queue, req_in_progress, guest, calls>>

reading == at("serve") /\ queue > 0 /\ ~ req_in_progress

\* A request whose handler returns r and has changed the file system.
Handle(kind, r) ==
  /\ reading
  /\ kind \in guest.requests
  /\ r.s # fs
  /\ calls < guest.calls
  /\ fs' = r.s
  /\ calls' = calls + 1
  /\ queue' = queue - 1
  /\ req_in_progress' = (r.ret = 1)
  /\ UNCHANGED <<stack, guest>>

fids == {f \in {1, 2} \cup WorkFids : fs.file[f] # Free}
\* A request that has not: one that reads (read, statfs, getattr, readlink,
\* readdir, fsync, locks, version, flush) or that is answered with an error.
reads ==
  {fs_read(fs, f, offset).s :
     f \in {g \in fids : ~ inode_of(fs, g).is_fscmd}, offset \in 0 .. MaxSize - 1}

ReadRequest ==
  /\ reading
  /\ queue' = queue - 1
  /\ fs' \in {fs} \cup reads
  /\ UNCHANGED <<req_in_progress, stack, guest, calls>>

spare == {n \in Inodes : fs.node[n] = Free}
new_slot == CHOOSE n \in spare : \A m \in spare : n <= m

fid_set(s, f, made(_)) == made(IF s.file[f] = Free THEN s ELSE fs_delete(s, f))

\* The new FSFile is there before the one it replaces is deleted.
Walk ==
  \E f \in fids, newfid \in WorkFids, name \in guest.names \cup {".."} :
    LET n == inode_search(fs, fs.file[f].inode, name)
        to == IF n = 0 THEN fs.file[f].inode ELSE n
        made(t) == [t EXCEPT !.file[newfid] = [inode |-> to, is_opened |-> FALSE, wr |-> FALSE,
                                               req |-> ""]]
    IN  Handle("walk", Ret(fid_set(inode_inc_open(fs, to), newfid, made), 0))

Attach ==
  \E f \in WorkFids :
    LET made(t) == [t EXCEPT !.file[f] = [inode |-> Root, is_opened |-> FALSE, wr |-> FALSE,
                                          req |-> ""]]
    IN  Handle("attach", Ret(fid_set(inode_inc_open(fs, Root), f, made), 0))

Clunk == \E f \in WorkFids \cap fids : Handle("clunk", Ret(fs_delete(fs, f), 0))
Lopen ==
  \E f \in WorkFids \cap fids, flags \in {"r", "w", "trunc"} :
    Handle("open", fs_open(fs, f, flags))
Lcreate ==
  \E f \in fids, name \in guest.names :
    spare # {} /\ Handle("create", fs_create(fs, f, name, new_slot))
Mkdir ==
  \E f \in fids, name \in guest.names :
    spare # {} /\ Handle("mkdir", fs_mkdir(fs, f, name, new_slot))
Mknod ==
  \E f \in fids, name \in guest.names, type \in {"reg", "lnk"} :
    spare # {} /\ Handle("mknod", fs_mknod(fs, f, name, type, new_slot))
Link == \E df, f \in fids, name \in guest.names : Handle("link", fs_link(fs, df, f, name))
Rename ==
  \E f, new_f \in fids, name, new_name \in guest.names :
    Handle("rename", fs_renameat(fs, f, name, new_f, new_name))
Unlink == \E f \in fids, name \in guest.names : Handle("unlink", fs_unlinkat(fs, f, name))
SetSize ==
  \E f \in fids, size \in 0 .. MaxSize : Handle("setattr", fs_truncate(fs, fs.file[f].inode, size))
Write ==
  \E f \in fids, offset \in 0 .. MaxSize - 1 :
    ~ inode_of(fs, f).is_fscmd /\ Handle("write", fs_write(fs, f, offset, <<0>>))

\* A write to .fscmd.
fs_cmd_write(kind, r) ==
  \E f \in fids :
    /\ inode_of(fs, f).is_fscmd /\ fs.file[f].is_opened /\ fs.file[f].wr
    /\ Handle(kind, r[f])

\* Several commands may run at once, each with FSFiles of its own.
spare_cmd == {c \in CmdFiles : fs.file[c.root] = Free}

CmdXhr ==
  \E name \in CmdNames, post \in CmdNames \cup {""}, file_id \in CmdIDs :
    /\ spare # {} /\ spare_cmd # {}
    /\ fs_cmd_write("xhr", [f \in fids |-> fs_cmd_xhr(fs, f, name, post, file_id, new_slot,
                                                     CHOOSE c \in spare_cmd : TRUE)])

CmdSetUrl ==
  \E name \in CmdNames, file_id \in CmdIDs :
    fs_cmd_write("set_url", [f \in fids |-> fs_cmd_set_url(fs, name, file_id)])

CmdResetBaseUrl == fs_cmd_write("reset_base_url", [f \in fids |-> fs_net_reset_base_url(fs)])
CmdPbkdf2 == fs_cmd_write("pbkdf2", [f \in fids |-> fs_cmd_pbkdf2(fs, f)])

(***************************************************************************)
(* Transfers.                                                              *)
(***************************************************************************)
SetFrame(what, n) == [op |-> "set", what |-> what, n |-> n]
MembersFrame(what, list, el) == [op |-> "members", what |-> what, list |-> list, el |-> el]
EndFrame(o) == [op |-> "end", oi |-> o]
DoneFrame(x) == [op |-> "done", xhr |-> x]

first_member(o) == IF fs.oi[o].members = <<>> THEN 0 ELSE Head(fs.oi[o].members)

\* What fs_open_cb() does at the end of the content of o, good or not.
finish_open(o, what) ==
  (IF fs.oi[o].open_type = "ARCHIVE" THEN <<MembersFrame(what, o, first_member(o))>> ELSE <<>>)
  \o <<SetFrame(what, fs.oi[o].n)>>

\* Extraneous data is ignored.
fs_open_write_cb(s, o, data) ==
  LET n == s.oi[o].n
      len == IF Len(data) < s.node[n].size - s.oi[o].cur_pos THEN Len(data)
             ELSE s.node[n].size - s.oi[o].cur_pos
  IN  [file_buffer_write(s, n, s.oi[o].cur_pos, SubSeq(data, 1, len))
         EXCEPT !.oi[o].cur_pos = @ + len]

calling_back(x) == running /\ stack = <<>> /\ fs.xhr[x] # Free

\* One more byte of the content comes.
Data(x) ==
  /\ calling_back(x)
  /\ IF fs.xhr[x].type = "dangling"
     THEN fs' = stopped(fs, "opaque freed") /\ UNCHANGED stack
     ELSE LET rec == fs.xhr[x]
              byte == <<Server[rec.file_id][rec.sent + 1]>>
              s == [fs EXCEPT !.xhr[x].sent = @ + 1] IN
          /\ rec.sent < Len(Server[rec.file_id])
          /\ \/ /\ fs' = IF rec.type = "cmd" THEN fs_wget_file_on_load(s, x, 1, byte)
                         ELSE fs_open_write_cb(s, rec.oi, byte)
                /\ UNCHANGED stack
             \* it cannot be decrypted: the transfer goes on
             \/ /\ rec.type = "open" /\ fs.encrypted
                /\ fs' = s
                /\ stack' = finish_open(rec.oi, "error")
  /\ UNCHANGED <<queue, req_in_progress, guest, calls>>

\* A bug for the run to find: content that is too short is taken.
EndingsAnyLength(o, err) ==
  IF err < 0 THEN {"error"} ELSE IF fs.encrypted THEN {"error", "loaded"} ELSE {"loaded"}

\* The last block of an encrypted file may have no good padding.
endings(o, err) ==
  IF err < 0 \/ fs.oi[o].cur_pos # fs.node[fs.oi[o].n].size THEN {"error"}
  ELSE IF fs.encrypted THEN {"error", "loaded"} ELSE {"loaded"}

\* The transfer ends with an HTTP code: 0 is the code of one without answer.
End(x) ==
  /\ calling_back(x)
  /\ \E http_code \in {200, 404, 0} :
       LET rec == fs.xhr[x]
           err == - (IF http_code = 200 THEN 0 ELSE http_code) IN
       CASE rec.type = "dangling" -> fs' = stopped(fs, "opaque freed") /\ UNCHANGED stack
         [] rec.type = "cmd" ->
              /\ fs' = fs_wget_free(fs_wget_file_on_load(fs, x, err, <<>>), x)
              /\ UNCHANGED stack
         [] rec.type = "open" ->
              /\ fs' = fs
              /\ \E what \in endings(rec.oi, err) :
                   stack' = finish_open(rec.oi, what) \o <<DoneFrame(x)>>
  /\ UNCHANGED <<queue, req_in_progress, guest, calls>>

\* The event loop frees the transfer whose callback has returned.
Done ==
  /\ at("done")
  /\ fs' = IF fs.xhr[top.xhr] = Free THEN stopped(fs, "transfer freed")
           ELSE fs_wget_free(fs, top.xhr)
  /\ stack' = Tail(stack)
  /\ UNCHANGED <<queue, req_in_progress, guest, calls>>

\* The next member of the archive: fs_read_archive() or fs_error_archive().
next_member(list, el) ==
  LET m == fs.oi[list].members
      after == {i \in DOMAIN m : i > 1 /\ m[i - 1] = el}
  IN  IF after = {} THEN 0 ELSE m[CHOOSE i \in after : TRUE]

\* A record that is freed leaves the list; its slot may have been taken again.
is_member(list, el) ==
  fs.oi[list] # Free /\ \E i \in DOMAIN fs.oi[list].members : fs.oi[list].members[i] = el

copied(s, list, el) ==
  LET n1 == s.oi[el].n
      pos == s.oi[el].archive_offset
  IN  file_buffer_write(s, n1, 0, SubSeq(s.node[s.oi[list].n].fbuf, pos + 1,
                                         pos + s.node[n1].size))

Members ==
  /\ at("members")
  /\ LET list == top.list
         el == top.el IN
     CASE el = 0 -> fs' = fs /\ stack' = Tail(stack)
       [] el # 0 /\ ~ is_member(list, el) ->
            fs' = stopped(fs, "open record freed") /\ UNCHANGED stack
       [] el # 0 /\ is_member(list, el) ->
            /\ fs' = IF top.what = "loaded" THEN copied(fs, list, el) ELSE fs
            /\ stack' = <<SetFrame(top.what, fs.oi[el].n),
                          MembersFrame(top.what, list, next_member(list, el))>> \o Tail(stack)
  /\ UNCHANGED <<queue, req_in_progress, guest, calls>>

\* fs_wget_set_loaded() and fs_wget_set_error() up to the callback, if any;
\* the FSOpenInfo is freed when it returns.
set_state(n, what) ==
  LET o == fs.node[n].oi
      f == fs.oi[o].f
      t == [fs EXCEPT !.node[n].oi = 0] IN
  IF what = "error" THEN [t EXCEPT !.node[n].state = "UNLOADED", !.node[n].fbuf = <<>>]
  ELSE LET u == [t EXCEPT !.node[n].state = "LOADED", !.cache = <<n>> \o @,
                          !.cache_size = @ + t.node[n].size]
       IN  IF f = 0 THEN u ELSE opened(u, f)

SetContent ==
  /\ at("set")
  /\ IF fs.node[top.n].type # "reg"
     THEN fs' = stopped(fs, "inode freed") /\ UNCHANGED <<stack, req_in_progress>>
     ELSE IF fs.node[top.n].state # "LOADING"
     THEN fs' = stopped(fs, "assert") /\ UNCHANGED <<stack, req_in_progress>>
     ELSE LET o == fs.node[top.n].oi IN
          /\ fs' = set_state(top.n, top.what)
          /\ stack' = (IF fs.oi[o].f = 0 THEN <<>> ELSE <<Serve>>) \o <<EndFrame(o)>> \o Tail(stack)
          /\ req_in_progress' = (req_in_progress /\ fs.oi[o].f = 0)
  /\ UNCHANGED <<queue, guest, calls>>

OpenEnd ==
  /\ at("end")
  /\ fs' = fs_open_end(fs, top.oi)
  /\ stack' = Tail(stack)
  /\ UNCHANGED <<queue, req_in_progress, guest, calls>>

Request ==
  \/ ReadRequest \/ Walk \/ Attach \/ Clunk \/ Lopen \/ Lcreate \/ Mkdir \/ Mknod \/ Link
  \/ Rename \/ Unlink \/ SetSize \/ Write
  \/ CmdXhr \/ CmdSetUrl \/ CmdResetBaseUrl \/ CmdPbkdf2

Callback == ServeEnd \/ Members \/ SetContent \/ OpenEnd \/ Done

Stopped == ~ running /\ UNCHANGED vars

Next ==
  \/ Post \/ Request \/ Callback \/ Stopped
  \/ \E x \in 1 .. MaxXhr : Data(x) \/ End(x)

Spec == Init /\ [][Next]_vars

(***************************************************************************)
(* Properties.                                                             *)
(***************************************************************************)
held == Inodes \ spare
links == UNION {{<<d, e.name, e.inode>> : e \in fs.node[d].entries} : d \in held}
open_files == {f \in Files : fs.file[f] # Free}

\* The references of an inode (inode_incref, inode_inc_open and their
\* opposites) are the names that lead to it, "." and ".." included, and the
\* FSFiles on it; nothing leads to an inode that inode_free() has freed.
CountsAreUses ==
  running =>
    LET all == links IN
    /\ \A n \in held :
         LET refcount == Cardinality({l \in all : l[3] = n}) + (IF n = Root THEN 1 ELSE 0)
             open_count == Cardinality({f \in open_files : fs.file[f].inode = n})
         IN  /\ fs.node[n].refcount = refcount
             /\ fs.node[n].open_count = open_count
             /\ refcount + open_count > 0
    /\ {l[3] : l \in all} \cup {fs.file[f].inode : f \in open_files} \subseteq held
    /\ fs.inode_count = Cardinality(held)

\* The cache list is the inodes that are LOADED, each once, and the sizes the
\* device keeps are those of what it holds (the asserts of inode_free and
\* fs_trim_cache).
SizesAccounted ==
  running =>
    LET cached == {fs.cache[i] : i \in DOMAIN fs.cache}
        sum(S, size(_)) == FoldSet(LAMBDA n, z : z + size(n), 0, S)
        blocks(n) == to_blocks(IF fs.node[n].type = "dir" THEN dir_size(fs.node[n])
                               ELSE fs.node[n].size)
    IN  /\ cached = {n \in held : fs.node[n].type = "reg" /\ fs.node[n].state = "LOADED"}
        /\ Len(fs.cache) = Cardinality(cached)
        /\ fs.cache_size = sum(cached, LAMBDA n : fs.node[n].size)
        /\ fs.fs_blocks = sum(held, blocks)

\* A file that is loaded, alone or from an archive, has the bytes the server
\* has for its file id (fs_open_cb, fs_read_archive), however it was shortened
\* before, but for a file that was given its URL while a fid had it open, which
\* may write to it while it is loaded.
LoadedIsTheServers ==
  running =>
    \A i \in DOMAIN fs.cache :
      LET x == fs.node[fs.cache[i]]
      IN  /\ Len(x.fbuf) >= x.size
          /\ x.lent \/ SubSeq(x.fbuf, 1, x.size) = SubSeq(Server[x.file_id], 1, x.size)

\* Between two callbacks a file is LOADING exactly when it has an open record,
\* each open record has a transfer that ends it, its own or its archive's,
\* and the device waits exactly when one of them has the FSFile of an open.
OpensEnd ==
  running /\ stack = <<>> =>
    LET oi == {o \in DOMAIN fs.oi : fs.oi[o] # Free}
        waiting == {o \in oi : fs.oi[o].f # 0}
        transferred(o) ==
          IF fs.oi[o].open_type = "ARCHIVE_FILE"
          THEN \E a \in oi : fs.oi[a].open_type = "ARCHIVE" /\ is_member(a, o)
          ELSE LET x == fs.xhr[fs.oi[o].xhr] IN x.type = "open" /\ x.oi = o
    IN  /\ {n \in held : fs.node[n].type = "reg" /\ fs.node[n].state = "LOADING"}
             = {fs.oi[o].n : o \in oi}
        /\ \A o \in oi : fs.node[fs.oi[o].n].oi = o /\ transferred(o)
        /\ Cardinality(waiting) = IF req_in_progress THEN 1 ELSE 0
        /\ \A o \in waiting :
             fs.oi[o].f \in open_files /\ fs.file[fs.oi[o].f].inode = fs.oi[o].n

\* A request or a transfer never uses an inode, a transfer, an open record or
\* a buffer that is gone, nor does an assertion fail, but for what this code does:
\* a file posted that is not local (fs_cmd_xhr), a name added to what is not a
\* directory (inode_dir_add), an archive freed while the callback of a member
\* runs or a member unlinked by that of another (fs_error_archive), a name
\* renamed to itself (fs_renameat), a file created in a directory that was removed
\* while a fid is open on it (inode_free), the transfer of a file that could not
\* be decrypted (fs_open_cb), a base URL reset until it is gone
\* (fs_net_reset_base_url), and a file that is given its URL while a fid has it
\* open: that fid reads and writes a buffer that is not there (fs_net_set_url).
FaultsKnown ==
  fs.stop \in {"", "posted", "not a directory", "directory not empty", "not loading",
              "open record freed", "entry freed"}
              \cup (IF fs.encrypted THEN {"opaque freed"} ELSE {})
              \cup (IF "set_url" \in guest.requests THEN {"no buffer"} ELSE {})
              \cup (IF "reset_base_url" \in guest.requests THEN {"base URL freed"} ELSE {})
=============================================================================
