----------------------------- MODULE MCDataPath -----------------------------
(* An instance of DataPath for TLC. *)
EXTENDS DataPath

CONSTANTS c, d

\* /1 with a directory, another file system mounted on it, and two files whose
\* names are not UTF-8 and have the same text; /2, and /3, a name no archive may
\* hold; and /4, a name no listing may hold.
Places == {<<1>>, <<2>>, <<3>>, <<4>>, <<1, 1>>, <<1, 4>>, <<1, 5>>, <<1, 1, 1>>}
OtherFileSystems == {<<1, 1>>}
NotUtf8 == {4, 5}
Replaced == (4 :> 6) @@ (5 :> 6)

\* At most one thing that cannot be captured or listed.  The second of the names
\* with one text comes with the first, these with no /2 and no /3, and /4 with no /1.
MCServers ==
    LET holds == [p \in Places |-> {q \in Places : Len(q) = Len(p) + 1 /\ SubSeq(q, 1, Len(p)) = p}]
    IN  {s \in [Places -> {"none", "dir", "file", "link"}] :
            /\ {s[<<2>>], s[<<3>>], s[<<4>>], s[<<1, 4>>], s[<<1, 5>>], s[<<1, 1, 1>>]} \subseteq {"none", "file"}
            /\ \A p \in Places : s[p] # "dir" => \A q \in holds[p] : s[q] = "none"
            /\ s[<<1, 4>>] = "none" => s[<<1, 5>>] = "none"
            /\ s[<<1, 4>>] = "file" => s[<<2>>] = "none" /\ s[<<3>>] = "none"
            /\ s[<<4>>] = "file" => s[<<1>>] = "none"
            /\ Cardinality({p \in Places : s[p] = "link" \/ (p \in {<<3>>, <<4>>} /\ s[p] # "none")}) <= 1}
Mounts == {<<2>>, <<1, 1>>}

Bind(p) == [type |-> "bind", source |-> p]
Volume(p) == [type |-> "volume", source |-> p]
Tmpfs(p) == [type |-> "tmpfs", source |-> p]
Other(p) == [type |-> "other", source |-> p]

\* A container without data, two with data, one that shares a mount of the
\* other, and a mount of an unknown type.
MCInventories ==
    {(c :> {Bind(<<1, 1>>)}) @@ (d :> {Tmpfs(<<2>>)}),
     (c :> {Bind(<<1, 1>>)}) @@ (d :> {Volume(<<2>>)}),
     (c :> {Bind(<<1, 1>>), Bind(<<2>>)}) @@ (d :> {Volume(<<2>>)}),
     (c :> {Bind(<<1, 1>>)}) @@ (d :> {Other(<<2>>)})}
TwoContainers == {c, d}
=============================================================================
