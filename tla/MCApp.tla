------------------------------- MODULE MCApp --------------------------------
(* Small instance of App.  Two objects of one application ("a-b", "a-c"), a  *)
(* Deployment among them, a Namespace, an object that cannot be processed,   *)
(* and a document that does not decode.  Inputs from stdin end in every way  *)
(* a reader can end; files hold the same documents, in a small file system.  *)
EXTENDS App, TLC

MCDocs == {"deployment", "service", "namespace", "faulty", "garbage"}
MCDecodable == MCDocs \ {"garbage"}
MCChar == {"a", "b", "c", "d", "-"}
MCSeparators == {"-"}
MCNames == {<<"a", "-", "b">>, <<"a", "-", "c">>, <<"b">>}
MCNamespaces == {<< >>, <<"b">>}
MCObject ==
    [d \in MCDecodable |->
        CASE d = "deployment" -> [kind |-> "other", name |-> <<"a", "-", "b">>, ns |-> <<"b">>]
          [] d = "service"    -> [kind |-> "other", name |-> <<"a", "-", "c">>, ns |-> << >>]
          [] d = "faulty"     -> [kind |-> "other", name |-> <<"a", "-", "b">>, ns |-> << >>]
          [] d = "namespace"  -> [kind |-> "namespace", name |-> <<"b">>, ns |-> << >>]]
MCDeployments == {"deployment"}
MCFaulty == {"faulty"}
MCDeploymentFile == <<"d">>

Holding(docs, end) == [docs |-> docs, ending |-> end]
Lists(S, n) == UNION {[1..k -> S] : k \in 0..n}

MCStdinStreams ==
    {Holding(docs, end) : docs \in Lists(MCDocs, MaxDocs), end \in {"eof", "error", "open"}}

(* 1/  with the files 1 and 2, a directory 3 with the file 1, a link 4 to 2/   *)
(* 2/  with a file 1 whose reader breaks; 3, 4 files, 4 cannot be opened;      *)
(* 5   a link to 1/                                                           *)
Node(p, kind, fault, target) == p :> [kind |-> kind, fault |-> fault, target |-> target]
Plain(p, kind) == Node(p, kind, "none", p)
MCEntry ==
    Plain(<<1>>, "dir") @@ Plain(<<1, 1>>, "file") @@ Plain(<<1, 2>>, "file")
    @@ Plain(<<1, 3>>, "dir") @@ Plain(<<1, 3, 1>>, "file")
    @@ Node(<<1, 4>>, "link", "none", <<2>>)
    @@ Plain(<<2>>, "dir") @@ Plain(<<2, 1>>, "file")
    @@ Plain(<<3>>, "file") @@ Node(<<4>>, "file", "open", <<4>>)
    @@ Node(<<5>>, "link", "none", <<1>>)
MCContents ==
    <<1, 1>> :> Holding(<<"namespace", "service">>, "eof")
    @@ <<1, 2>> :> Holding(<<"garbage", "deployment">>, "eof")
    @@ <<1, 3, 1>> :> Holding(<<"deployment">>, "eof")
    @@ <<2, 1>> :> Holding(<<"service">>, "error")
    @@ <<3>> :> Holding(<<"service", "namespace">>, "eof")
    @@ <<4>> :> Holding(<<"faulty">>, "eof")

(* 6 does not exist.                                                         *)
MCRequests ==
    {<< >>, <<<<1>>>>, <<<<2>>>>, <<<<5>>>>, <<<<1, 3>>, <<3>>>>, <<<<3>>, <<3>>>>,
     <<<<6>>, <<3>>>>, <<<<3>>, <<4>>>>}
=============================================================================
