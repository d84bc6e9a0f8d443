----------------------------- MODULE MCVirtio9p -----------------------------
(***************************************************************************)
(* An instance of Virtio9p for TLC: a file list of an archive and of the   *)
(* two files it holds; opening the first preloads the archive, opening the *)
(* second preloads the first alone.  The cache has room for the archive    *)
(* only.                                                                   *)
(***************************************************************************)
EXTENDS Virtio9p

MCCmdFiles == {[root |-> 5, fd |-> 6, post |-> 7], [root |-> 8, fd |-> 9, post |-> 10]}
MCServer == <<<<1>>, <<2>>, <<1, 2>>>>
MCPreload == <<<<[is_archive |-> TRUE, name |-> "a"]>>, <<[is_archive |-> FALSE, name |-> "f"]>>>>
MCArchives == [x \in {"a"} |-> <<[name |-> "f", file_id |-> 1, size |-> 1],
                                 [name |-> "g", file_id |-> 2, size |-> 1]>>]
MCRootEntries == <<[name |-> "a", file_id |-> 3], [name |-> "f", file_id |-> 1],
                   [name |-> "g", file_id |-> 2]>>
MCGuests ==
  LET content == {"walk", "clunk", "open", "unlink", "setattr", "write"}
      tree == {"walk", "clunk", "attach", "create", "mkdir", "mknod", "link", "rename", "unlink"}
      on(name) == [fid \in {3} |-> name]
      on2(name, name2) == [fid \in {3, 4} |-> IF fid = 3 THEN name ELSE name2]
      mix(asks, number, names, start, encrypted) ==
        [requests |-> asks, calls |-> number, names |-> names, start |-> start,
         encrypted |-> encrypted]
      commands == {"open", "setattr", "unlink", "xhr", "set_url", "pbkdf2"}
  IN  {mix(content, 3, {"a", "f"}, on("f"), FALSE), mix(content, 3, {"a", "g"}, on("g"), FALSE),
       mix(content, 2, {"f", "g"}, on("f"), TRUE),
       mix(tree, 4, {"f", "n"}, on("f"), FALSE),
       mix(commands, 3, {"n"}, on("g"), FALSE),
       mix({"open", "setattr", "write", "set_url"}, 5, {}, on2("f", "g"), FALSE),
       mix({"open", "unlink", "xhr", "set_url"}, 4, {"n"}, on(".fscmd"), FALSE),
       mix({"open", "unlink", "reset_base_url"}, 5, {"f"}, on("f"), FALSE)}
=============================================================================
