------------------------------ MODULE MCFileWalk ------------------------------
(* A small file system: a directory with files, one of them unreadable in one  *)
(* of its subdirectories, a directory that cannot be listed, links.            *)
EXTENDS FileWalk, TLC

File(p)        == p :> [kind |-> "file", fault |-> "none", target |-> p]
Unreadable(p)  == p :> [kind |-> "file", fault |-> "open", target |-> p]
Dir(p, fault)  == p :> [kind |-> "dir", fault |-> fault, target |-> p]
Link(p, target) == p :> [kind |-> "link", fault |-> "none", target |-> target]

(* 1/     a file 2, a directory 3 with the files 1 and 2, a link 5 to 7         *)
(* 2/, 8/ cannot be listed, cannot be opened; 9 is an unreadable file         *)
(* 3      a file; 4 a link to 1, 6 to 3; 7/ has an unreadable file             *)
(* 10/    in it 1, a link to 10 itself                                        *)
MCEntry ==
    Dir(<<1>>, "none") @@ File(<<1, 2>>) @@ Dir(<<1, 3>>, "none")
    @@ File(<<1, 3, 1>>) @@ File(<<1, 3, 2>>) @@ Link(<<1, 5>>, <<7>>)
    @@ Dir(<<2>>, "list") @@ File(<<2, 1>>)
    @@ File(<<3>>) @@ Link(<<4>>, <<1>>) @@ Link(<<6>>, <<3>>)
    @@ Dir(<<7>>, "none") @@ File(<<7, 1>>) @@ Unreadable(<<7, 2>>) @@ File(<<7, 3>>)
    @@ Dir(<<8>>, "open") @@ Unreadable(<<9>>)
    @@ Dir(<<10>>, "none") @@ Link(<<10, 1>>, <<10>>)

(* 5 does not exist.                                                          *)
MCPaths == {<<1>>, <<1, 3>>, <<2>>, <<3>>, <<4>>, <<5>>, <<6>>, <<7>>, <<8>>, <<9>>,
            <<10>>}
MCRequests ==
    {<<p>> : p \in MCPaths} \union {<<p, q>> : p \in {<<1>>, <<2>>, <<7>>}, q \in MCPaths}
=============================================================================
