------------------------------- MODULE FsNet -------------------------------
(***************************************************************************)
(* The file system over HTTP (fs_net.c) as operators on its state s, a     *)
(* record: each returns the state its C function leaves.  Inodes, FSFiles, *)
(* FSOpenInfos and transfers are numbered slots, 0 stands for NULL and a   *)
(* free slot holds Free.  A failed assertion, and the use of a record that *)
(* has been freed or of a buffer that is not there, stop the program:      *)
(* s.stop says which, "" while it runs.                                    *)
(***************************************************************************)
EXTENDS Integers, Sequences, FiniteSets, SequencesExt

CONSTANTS
  MaxInode,        \* inode slots
  MaxOpenInfo,     \* FSOpenInfo slots
  MaxXhr,          \* transfer slots
  MaxFile,         \* FSFile slots: the fids of the guest and those of commands
  CmdFiles,        \* of the latter, those an xhr command takes: a set of [root, fd, post]
  FileIDs,         \* file ids of the server
  Server,          \* [FileIDs -> the content]
  Preload,         \* [FileIDs -> sequence of [is_archive, name]]: fs.preload_list
  Archives,        \* [archive name -> sequence of [name, file_id, size]]
  BlockSize,       \* fs.block_size
  MaxBlocks,       \* fs.fs_max_blocks
  CacheLimit       \* fs.inode_cache_size_limit

ASSUME FsNetAssumption ==
  /\ {MaxInode, MaxOpenInfo, MaxXhr, MaxFile, BlockSize} \subseteq Nat \ {0}
  /\ {MaxBlocks, CacheLimit} \subseteq Nat
  /\ DOMAIN Server = FileIDs
  /\ \A k \in FileIDs : Len(Server[k]) > 0

Inodes == 1 .. MaxInode
Root == 1
Files == 1 .. MaxFile

Indices(seq) == [i \in DOMAIN seq |-> i]
Free == [type |-> "free"]

\* A transfer whose opaque has been freed.
Dangling == [type |-> "dangling"]

\* What realloc() leaves in the bytes it adds.
Undefined == -1

stopped(s, why) == IF s.stop = "" THEN [s EXCEPT !.stop = why] ELSE s
free_slot(f) == CHOOSE k \in DOMAIN f : f[k] = Free /\ \A j \in 1 .. k - 1 : f[j] # Free

to_blocks(size) == (size + BlockSize - 1) \div BlockSize

\* The name of a directory entry costs one byte, whatever its length.
dir_size(x) == Cardinality(x.entries)

(***************************************************************************)
(* Inodes, their references, and directories.                              *)
(***************************************************************************)
inode_incref(s, n) == [s EXCEPT !.node[n].refcount = @ + 1]
inode_inc_open(s, n) == [s EXCEPT !.node[n].open_count = @ + 1]

\* Bugs for the run to find, one per definition that follows.
UncachedKeepsSize(s, n) == [s EXCEPT !.cache = SelectSeq(@, LAMBDA m : m # n)]
ErrorArchiveForgets(s, o) == s

fs_base_url_decref(s) ==
  IF s.url_refs = 0 THEN stopped(s, "base URL freed")
  ELSE [s EXCEPT !.url_refs = @ - 1]

\* Without the entry of fs.inode_cache_list.
uncached(s, n) ==
  [s EXCEPT !.cache = SelectSeq(@, LAMBDA m : m # n), !.cache_size = @ - s.node[n].size]

\* The record is freed: it leaves the list of its archive, and a transfer
\* that still has it as its opaque is left with a pointer to nothing.
fs_open_end(s, o) ==
  LET unlinked(t, p) ==
        IF t.oi[p] = Free THEN t
        ELSE [t EXCEPT !.oi[p].members = SelectSeq(@, LAMBDA q : q # o)]
      dropped(t, x) ==
        IF t.xhr[x].type = "open" /\ t.xhr[x].oi = o THEN [t EXCEPT !.xhr[x] = Dangling] ELSE t
  IN  FoldLeft(dropped, FoldLeft(unlinked, [s EXCEPT !.oi[o] = Free], Indices(s.oi)),
               Indices(s.xhr))

fs_wget_free(s, x) == [s EXCEPT !.xhr[x] = Free]

\* fs_error_archive() when no open waits for a member: fs_wget_set_error()
\* of each, whose FSOpenInfo is then freed.
fs_error_archive_quiet(s, o) ==
  FoldLeft(LAMBDA t, p :
             IF t.stop # "" THEN t
             ELSE IF t.oi[p] = Free THEN stopped(t, "open record freed")
             ELSE LET m == t.oi[p].n IN
                  IF t.node[m].state # "LOADING" THEN stopped(t, "not loading")
                  ELSE IF t.oi[t.node[m].oi].f # 0 THEN stopped(t, "reentered")
                  ELSE fs_open_end([t EXCEPT !.node[m].state = "UNLOADED",
                                             !.node[m].fbuf = <<>>,
                                             !.node[m].oi = 0],
                                   t.node[m].oi),
           s, s.oi[o].members)

\* A bug for the run to find: the transfer goes on.
FreeKeepsTransfer(s, n) ==
  LET x == s.node[n]
      t == [s EXCEPT !.fs_blocks = @ - to_blocks(x.size)] IN
  CASE x.state = "LOADED" -> fs_base_url_decref(uncached(t, n))
    [] x.state = "LOADING" -> fs_base_url_decref(fs_open_end(t, x.oi))
    [] x.state = "UNLOADED" -> fs_base_url_decref(t)
    [] x.state = "LOCAL" -> t

inode_free_reg(s, n) ==
  LET x == s.node[n]
      t == [s EXCEPT !.fs_blocks = @ - to_blocks(x.size)] IN
  CASE x.state = "LOADED" -> fs_base_url_decref(uncached(t, n))
    [] x.state = "LOADING" ->
         LET t1 == IF t.oi[x.oi].xhr # 0 THEN fs_wget_free(t, t.oi[x.oi].xhr) ELSE t
             t2 == IF t.oi[x.oi].open_type = "ARCHIVE"
                   THEN fs_error_archive_quiet(t1, x.oi) ELSE t1
         IN  fs_base_url_decref(fs_open_end(t2, x.oi))
    [] x.state = "UNLOADED" -> fs_base_url_decref(t)
    [] x.state = "LOCAL" -> t

inode_free(s, n) ==
  LET x == s.node[n]
      t == CASE x.type = "reg" -> inode_free_reg(s, n)
             [] x.type = "dir" -> IF x.entries # {} THEN stopped(s, "directory not empty") ELSE s
             [] x.type = "lnk" -> s
  IN  [t EXCEPT !.node[n] = Free, !.inode_count = @ - 1]

inode_decref(s, n) ==
  LET t == [s EXCEPT !.node[n].refcount = @ - 1] IN
  IF t.node[n].refcount <= 0 /\ t.node[n].open_count <= 0 THEN inode_free(t, n) ELSE t

inode_dec_open(s, n) ==
  LET t == [s EXCEPT !.node[n].open_count = @ - 1] IN
  IF t.node[n].open_count <= 0 /\ t.node[n].refcount <= 0 THEN inode_free(t, n) ELSE t

\* lent remembers that a file was given its URL while a FSFile had it open.
new_inode(type) ==
  [type |-> type, refcount |-> 1, open_count |-> 0, entries |-> {}, state |-> "LOCAL",
   size |-> 0, fbuf |-> <<>>, file_id |-> 0, oi |-> 0, is_fscmd |-> FALSE,
   lent |-> FALSE]

\* n is the slot it takes.
inode_new(s, n, type) ==
  [s EXCEPT !.node[n] = new_inode(type), !.inode_count = @ + 1]

inode_dir_add(s, d, name, n) ==
  IF s.node[d].type # "dir" THEN stopped(s, "not a directory")
  ELSE LET x == [s.node[d] EXCEPT !.entries = @ \cup {[name |-> name, inode |-> n]}]
       IN  [s EXCEPT !.node[d] = x,
                     !.fs_blocks = @ + to_blocks(dir_size(x)) - to_blocks(dir_size(s.node[d]))]

inode_search(s, d, name) ==
  IF s.node[d].type # "dir" THEN 0
  ELSE IF \E e \in s.node[d].entries : e.name = name
       THEN (CHOOSE e \in s.node[d].entries : e.name = name).inode
       ELSE 0

inode_search_path(s, name) == inode_search(s, Root, name)

is_empty_dir(s, d) == \A e \in s.node[d].entries : e.name \in {".", ".."}

inode_dirent_delete_no_decref(s, d, name) ==
  LET x == [s.node[d] EXCEPT !.entries = {e \in @ : e.name # name}]
  IN  [s EXCEPT !.node[d] = x,
                !.fs_blocks = @ + to_blocks(dir_size(x)) - to_blocks(dir_size(s.node[d]))]

inode_dirent_delete(s, d, name) ==
  inode_decref(inode_dirent_delete_no_decref(s, d, name), inode_search(s, d, name))

\* A bug for the run to find: the parent keeps a reference.
FlushDirKeepsParent(s, d) == inode_dirent_delete_no_decref(inode_dirent_delete(s, d, "."), d, "..")

\* Of an empty directory: "." and ".." are all it has.
flush_dir(s, d) == inode_dirent_delete(inode_dirent_delete(s, d, "."), d, "..")

(***************************************************************************)
(* FSFiles.  req is the FSCMDRequest: "" for NULL, "wait" while its        *)
(* transfer has not ended, "reply" when the reply is there.                *)
(***************************************************************************)
fs_cmd_close(s, f) ==
  FoldLeft(LAMBDA t, x : IF t.xhr[x].type = "cmd" /\ t.xhr[x].req_fd = f
                         THEN [t EXCEPT !.xhr[x].req_fd = 0] ELSE t,
           [s EXCEPT !.file[f].req = ""], Indices(s.xhr))

fs_close(s, f) == fs_cmd_close([s EXCEPT !.file[f].is_opened = FALSE], f)

fs_delete(s, f) ==
  LET t == inode_dec_open(fs_close(s, f), s.file[f].inode) IN [t EXCEPT !.file[f] = Free]

fid_create(s, f, n) ==
  [inode_inc_open(s, n) EXCEPT
     !.file[f] = [inode |-> n, is_opened |-> FALSE, wr |-> FALSE, req |-> ""]]

(***************************************************************************)
(* The cache and the transfers that fill it.                               *)
(***************************************************************************)
fs_trim_cache(s, added) ==
  FoldRight(LAMBDA n, t :
              IF t.cache_size + added <= CacheLimit \/ t.node[n].open_count # 0 THEN t
              ELSE [uncached(t, n) EXCEPT !.node[n].state = "UNLOADED",
                                          !.node[n].fbuf = <<>>],
            s.cache, s)

fs_wget2(s, x, rec) == [s EXCEPT !.xhr[x] = rec]

\* The buffer holds Undefined until the content comes.
fs_open_wget(s, n, open_type) ==
  LET t == fs_trim_cache(s, s.node[n].size)
      o == free_slot(t.oi)
      x == IF open_type = "ARCHIVE_FILE" THEN 0 ELSE free_slot(t.xhr)
      rec == [type |-> "oi", n |-> n, open_type |-> open_type, xhr |-> x, cur_pos |-> 0,
              archive_offset |-> 0, members |-> <<>>, f |-> 0]
      t1 == [t EXCEPT !.node[n].state = "LOADING",
                      !.node[n].fbuf = [i \in 1 .. s.node[n].size |-> Undefined],
                      !.node[n].oi = o,
                      !.oi[o] = rec]
  IN  IF x = 0 THEN t1
      ELSE fs_wget2(IF t.url_refs = 0 THEN stopped(t1, "base URL freed") ELSE t1, x,
                    [type |-> "open", oi |-> o, file_id |-> s.node[n].file_id, sent |-> 0])

unloaded(s, n) == n # 0 /\ s.node[n].type = "reg" /\ s.node[n].state = "UNLOADED"

fs_preload_file(s, name) ==
  LET n == inode_search_path(s, name) IN
  IF unloaded(s, n) THEN fs_open_wget(s, n, "REG") ELSE s

archive_size(members, i) == FoldLeft(LAMBDA z, p : z + p.size, 0, SubSeq(members, 1, i))

\* The i-th file of the archive that inode n is: it joins the transfer, or is
\* loaded alone when it is not the file the archive was made with.
preload_member(s, n, members, i) ==
  LET paf == members[i]
      m == inode_search_path(s, paf.name) IN
  IF ~ unloaded(s, m) THEN s
  ELSE IF s.node[m].size # paf.size \/ s.node[m].file_id # paf.file_id
       THEN fs_preload_file(s, paf.name)
       ELSE LET t == fs_open_wget(s, m, "ARCHIVE_FILE")
                o == t.node[m].oi IN
            [t EXCEPT !.oi[t.node[n].oi].members = Append(@, o),
                      !.oi[o].archive_offset = archive_size(members, i - 1)]

fs_preload_archive(s, name) ==
  LET members == Archives[name]
      n == inode_search_path(s, name)
      one_by_one == FoldLeft(LAMBDA t, paf : fs_preload_file(t, paf.name), s, members) IN
  IF name \notin DOMAIN Archives THEN s
  ELSE IF ~ unloaded(s, n) THEN one_by_one
  ELSE IF ~ \E i \in DOMAIN members : unloaded(s, inode_search_path(s, members[i].name)) THEN s
  ELSE IF archive_size(members, Len(members)) # s.node[n].size THEN one_by_one
  ELSE FoldLeft(LAMBDA t, i : preload_member(t, n, members, i),
                fs_open_wget(s, n, "ARCHIVE"), Indices(members))

fs_preload_files(s, file_id) ==
  IF file_id \notin DOMAIN Preload THEN s
  ELSE FoldLeft(LAMBDA t, pf : IF pf.is_archive THEN fs_preload_archive(t, pf.name)
                               ELSE fs_preload_file(t, pf.name),
                s, Preload[file_id])
=============================================================================
