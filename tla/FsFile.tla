------------------------------- MODULE FsFile -------------------------------
(***************************************************************************)
(* The operations of the file system over HTTP on FSFiles (fs_net.c), and  *)
(* the transfers into a file (fs_wget.c).  An operation that can fail      *)
(* returns [s, ret]: ret is 0 when it succeeds, -1 for any error and 1     *)
(* when an open will end with the callback.                                *)
(***************************************************************************)
EXTENDS FsNet

Ret(s, r) == [s |-> s, ret |-> r]

inode_of(s, f) == s.node[s.file[f].inode]

fs_attach(s, f) == fid_create(s, f, Root)

\* Of one name: a name that is not there leaves the new FSFile where f is.
fs_walk(s, new, f, name) ==
  LET n == inode_search(s, s.file[f].inode, name)
  IN  fid_create(s, new, IF n = 0 THEN s.file[f].inode ELSE n)

(***************************************************************************)
(* Content.                                                                *)
(***************************************************************************)
now_local(s, n) ==
  IF s.node[n].state = "LOADED" THEN [uncached(s, n) EXCEPT !.node[n].state = "LOCAL"] ELSE s

grown(fbuf, old, size) ==
  LET more == (Len(fbuf) * 5) \div 4
      alloc == IF size <= Len(fbuf) THEN Len(fbuf) ELSE IF size > more THEN size ELSE more
  IN  [i \in 1 .. alloc |-> IF i > old /\ i <= size THEN 0
                            ELSE IF i <= Len(fbuf) THEN fbuf[i] ELSE Undefined]

shrunk(fbuf, size) ==
  LET less == (Len(fbuf) * 4) \div 5 IN
  IF size <= less THEN SubSeq(fbuf, 1, less) ELSE fbuf

fs_truncate(s, n, size) ==
  LET x == s.node[n]
      diff_blocks == to_blocks(size) - to_blocks(x.size)
      sized(t) == [t EXCEPT !.fs_blocks = @ + diff_blocks, !.node[n].size = size] IN
  CASE x.type # "reg" -> Ret(s, -1)
    [] x.type = "reg" /\ size = x.size -> Ret(s, 0)
    [] x.type = "reg" /\ size # x.size /\ x.state = "LOADING" -> Ret(s, -1)
    [] x.type = "reg" /\ size # x.size /\ x.state = "UNLOADED" ->
         Ret(sized(IF size = 0 THEN [s EXCEPT !.node[n].state = "LOCAL"] ELSE s), 0)
    [] x.type = "reg" /\ size > x.size /\ x.state \in {"LOADED", "LOCAL"} ->
         IF s.fs_blocks + diff_blocks > MaxBlocks THEN Ret(s, -1)
         ELSE Ret(sized([now_local(s, n) EXCEPT !.node[n].fbuf = grown(@, x.size, size)]), 0)
    [] x.type = "reg" /\ size < x.size /\ x.state \in {"LOADED", "LOCAL"} ->
         Ret(sized([now_local(s, n) EXCEPT !.node[n].fbuf = shrunk(@, size)]), 0)

\* file_buffer_write() at an offset the buffer does not have is a fault.
file_buffer_write(s, n, offset, data) ==
  IF offset + Len(data) > Len(s.node[n].fbuf) THEN stopped(s, "no buffer")
  ELSE [s EXCEPT !.node[n].fbuf =
          [i \in DOMAIN @ |-> IF i > offset /\ i <= offset + Len(data) THEN data[i - offset]
                              ELSE @[i]]]

\* Of a file that is not .fscmd.
fs_write(s, f, offset, data) ==
  LET n == s.file[f].inode
      end == offset + Len(data)
      grow == IF end > s.node[n].size THEN fs_truncate(s, n, end) ELSE Ret(s, 0) IN
  IF ~ s.file[f].is_opened \/ inode_of(s, f).type # "reg" \/ ~ s.file[f].wr THEN Ret(s, -1)
  ELSE IF data = <<>> THEN Ret(s, 0)
  ELSE IF grow.ret < 0 THEN grow
  ELSE Ret(file_buffer_write(now_local(grow.s, n), n, offset, data), 0)

fs_read(s, f, offset) ==
  LET x == inode_of(s, f) IN
  IF ~ s.file[f].is_opened \/ x.type # "reg" THEN Ret(s, -1)
  ELSE IF offset < x.size /\ offset >= Len(x.fbuf) THEN Ret(stopped(s, "no buffer"), 0)
  ELSE Ret(s, 0)

(***************************************************************************)
(* Opening.  oi.f # 0 stands for oi.cb # NULL.                             *)
(***************************************************************************)
opened(s, f) == [s EXCEPT !.file[f].is_opened = TRUE]

wait_open(s, n, f) ==
  IF s.oi[s.node[n].oi].f # 0 THEN Ret(s, -1)
  ELSE Ret([s EXCEPT !.oi[s.node[n].oi].f = f], 1)

loading(s, n) == IF s.node[n].state = "LOADING" THEN s ELSE fs_open_wget(s, n, "REG")

fs_open_reg(s, n, f) ==
  CASE s.node[n].state = "UNLOADED" ->
         wait_open(loading(fs_preload_files(s, s.node[n].file_id), n), n, f)
    [] s.node[n].state = "LOADING" -> wait_open(s, n, f)
    [] s.node[n].state = "LOCAL" -> Ret(opened(s, f), 0)
    [] s.node[n].state = "LOADED" ->
         Ret(opened([s EXCEPT !.cache = <<n>> \o SelectSeq(@, LAMBDA m : m # n)], f), 0)

\* flags: "r", "w", or "trunc" for P9_O_RDWR | P9_O_TRUNC.
fs_open(s, f, flags) ==
  LET n == s.file[f].inode
      t == fs_close(s, f)
      t1 == [t EXCEPT !.file[f].wr = flags # "r"] IN
  CASE s.node[n].type = "lnk" -> Ret(t, -1)
    [] s.node[n].type = "dir" -> Ret(opened(t1, f), 0)
    [] s.node[n].type = "reg" ->
         fs_open_reg(IF flags = "trunc" THEN fs_truncate(t1, n, 0).s ELSE t1, n, f)

\* n is the slot of the new inode.
fs_create(s, f, name, n) ==
  LET d == s.file[f].inode
      t == inode_dir_add(inode_new(fs_close(s, f), n, "reg"), d, name, n) IN
  IF s.node[d].type # "dir" \/ inode_search(s, d, name) # 0 THEN Ret(s, -1)
  ELSE Ret([inode_inc_open(inode_dec_open(t, d), n) EXCEPT
              !.file[f].inode = n, !.file[f].is_opened = TRUE, !.file[f].wr = TRUE], 0)

(***************************************************************************)
(* The tree.                                                               *)
(***************************************************************************)
fs_mkdir(s, f, name, n) ==
  LET d == s.file[f].inode
      t == inode_dir_add(inode_incref(inode_new(s, n, "dir"), n), n, ".", n) IN
  IF s.node[d].type # "dir" \/ inode_search(s, d, name) # 0 THEN Ret(s, -1)
  ELSE Ret(inode_dir_add(inode_dir_add(inode_incref(t, d), n, "..", d), d, name, n), 0)

\* fs_symlink() for "lnk", fs_mknod() for "reg".
fs_mknod(s, f, name, type, n) ==
  LET d == s.file[f].inode IN
  IF inode_search(s, d, name) # 0 THEN Ret(s, -1)
  ELSE Ret(inode_dir_add(inode_new(s, n, type), d, name, n), 0)

fs_link(s, df, f, name) ==
  LET n == s.file[f].inode
      d == s.file[df].inode IN
  IF s.node[n].type = "dir" \/ inode_search(s, d, name) # 0 THEN Ret(s, -1)
  ELSE Ret(inode_dir_add(inode_incref(s, n), d, name, n), 0)

\* A name renamed to itself: the entry it has found is freed before it is used.
fs_renameat(s, f, name, new_f, new_name) ==
  LET d == s.file[f].inode
      new_d == s.file[new_f].inode
      n == inode_search(s, d, name)
      n1 == inode_search(s, new_d, new_name)
      t == IF n1 # 0 THEN inode_dirent_delete_no_decref(s, new_d, new_name) ELSE s
      t1 == inode_dirent_delete(inode_dir_add(inode_incref(t, n), new_d, new_name, n), d, name) IN
  IF n = 0 \/ (n1 # 0 /\ s.node[n1].type = "dir") THEN Ret(s, -1)
  ELSE IF d = new_d /\ name = new_name THEN Ret(stopped(s, "entry freed"), 0)
  ELSE Ret(IF n1 # 0 THEN inode_decref(t1, n1) ELSE t1, 0)

fs_unlinkat(s, f, name) ==
  LET d == s.file[f].inode
      n == inode_search(s, d, name) IN
  IF n = 0 \/ name \in {".", ".."} \/ (s.node[n].type = "dir" /\ ~ is_empty_dir(s, n))
  THEN Ret(s, -1)
  ELSE Ret(inode_dirent_delete(IF s.node[n].type = "dir" THEN flush_dir(s, n) ELSE s, d, name), 0)

(***************************************************************************)
(* Commands written to .fscmd through FSFile f.                            *)
(***************************************************************************)
fs_net_set_url(s, n, file_id) ==
  IF s.url_refs = 0 \/ s.node[n].type # "reg" \/ s.node[n].state # "LOCAL"
     \/ s.node[n].fbuf # <<>>
  THEN Ret(s, -1)
  ELSE LET size == Len(Server[file_id])
           has_open(f) == s.file[f] # Free /\ s.file[f].inode = n /\ s.file[f].is_opened IN
       Ret([s EXCEPT !.node[n].state = "UNLOADED", !.node[n].size = size,
                     !.node[n].file_id = file_id, !.url_refs = @ + 1,
                     !.node[n].lent = \E f \in Files : has_open(f),
                     !.fs_blocks = @ + to_blocks(size)], 0)

fs_cmd_set_url(s, name, file_id) ==
  LET n == inode_search_path(s, name) IN
  IF n = 0 THEN Ret(s, -1) ELSE fs_net_set_url(s, n, file_id)

fs_net_reset_base_url(s) ==
  IF s.url_refs = 0 THEN Ret(s, -1) ELSE Ret(fs_base_url_decref(s), 0)

fs_cmd_pbkdf2(s, f) ==
  IF s.file[f].req # "" THEN Ret(s, -1) ELSE Ret([s EXCEPT !.file[f].req = "reply"], 0)

\* The FSFiles of a command, c, that there are.
delete_cmd_files(s, c) ==
  LET drop(t, f) == IF t.file[f] = Free THEN t ELSE fs_delete(t, f)
  IN  drop(drop(drop(s, c.fd), c.post), c.root)

fs_wget_file2(s, f, c, file_id) ==
  Ret(fs_wget2([s EXCEPT !.file[f].req = "wait"], free_slot(s.xhr),
               [type |-> "cmd", file_id |-> file_id, sent |-> 0, pos |-> 0, req_fd |-> f,
                files |-> c]), 0)

xhr_failed(s, c) == Ret(delete_cmd_files(s, c), -1)

\* The file to post is opened, with r: it must be one that is LOCAL, and that
\* is asserted.
xhr_with_post(r, f, c, file_id) ==
  LET x == inode_of(r.s, c.post) IN
  IF r.ret < 0 THEN xhr_failed(r.s, c)
  ELSE IF x.type = "reg" /\ x.state = "LOCAL" THEN fs_wget_file2(r.s, f, c, file_id)
  ELSE Ret(stopped(r.s, "posted"), 0)

\* The file to load into is created, with r.
xhr_with_file(r, f, c, post, file_id) ==
  LET p == inode_search_path(r.s, post) IN
  IF r.ret < 0 \/ (post # "" /\ p = 0) THEN xhr_failed(r.s, c)
  ELSE IF post = "" THEN fs_wget_file2(r.s, f, c, file_id)
  ELSE xhr_with_post(fs_open(fid_create(r.s, c.post, p), c.post, "r"), f, c, file_id)

\* The content is loaded into a new file, name, at the root; post is a name,
\* or "" when nothing is posted.  n is the slot of the file's inode, c holds
\* those of the command's FSFiles.
fs_cmd_xhr(s, f, name, post, file_id, n, c) ==
  LET t == fs_walk(fs_attach(s, c.root), c.fd, c.root, ".") IN
  IF s.file[f].req # "" THEN Ret(s, -1)
  ELSE xhr_with_file(fs_create(fs_unlinkat(t, c.fd, name).s, c.fd, name, n),
                     f, c, post, file_id)

\* The end of the transfer x of a command: it has an answer for the FSFile
\* that asked, if that is still open.
fs_cmd_xhr_on_load(s, x) ==
  LET t == delete_cmd_files(s, s.xhr[x].files)
      f == s.xhr[x].req_fd
  IN  [t EXCEPT !.xhr[x] = Dangling,
                !.file = IF f = 0 THEN @ ELSE [@ EXCEPT ![f].req = "reply"]]

fs_wget_file_on_load(s, x, err, data) ==
  LET w == fs_write(s, s.xhr[x].files.fd, s.xhr[x].pos, data) IN
  IF err < 0 \/ w.ret < 0 THEN fs_cmd_xhr_on_load(IF err < 0 THEN s ELSE w.s, x)
  ELSE IF err = 0 THEN fs_cmd_xhr_on_load(w.s, x)
  ELSE [w.s EXCEPT !.xhr[x].pos = @ + Len(data)]
=============================================================================
