----------------------------- MODULE Selection -----------------------------
(***************************************************************************)
(* What the operator selects on a server: pages of a directory listing,    *)
(* the normalisation of a selection into capture roots, and the layout of  *)
(* containers recorded with them.  Operators only.                         *)
(*                                                                         *)
(* A path is the sequence of its names and <<>> is "/"; a name is a        *)
(* number, in the order of the names, and all names are equally long.      *)
(***************************************************************************)
EXTENDS Naturals, FiniteSets, SequencesExt

CONSTANTS
    Container,   \* containers of the server, all of one Compose project
    Limit,       \* entries of one page
    MaxItems,    \* items of one selection
    MaxRoots     \* roots of one plan

\* The members of S in the order of the pairs in before: the place of each is the
\* number of those before it.
Sorted(S, before) ==
    [i \in 1..Cardinality(S) |->
        CHOOSE x \in S : Cardinality({y \in S : <<y, x>> \in before}) = i - 1]

-----------------------------------------------------------------------------
(* Directory listings. *)

\* list_directory: what find prints for "/" of tree, sorted by name.  The
\* record has the kind, and the size and time of the entry as its stamp.
Listing(tree) ==
    LET there == {p \in DOMAIN tree : Len(p) = 1 /\ tree[p].kind # "none"}
        byName == {ab \in there \X there : ab[1][1] < ab[2][1]}
    IN  [i \in 1..Cardinality(there) |->
            LET p == Sorted(there, byName)[i]
            IN  [name |-> p[1], kind |-> tree[p].kind, stamp |-> tree[p].stamp]]

\* Mutant: the time of an entry is not part of the digest.
Digest_NoTime(listing) == [i \in DOMAIN listing |-> <<listing[i].name, listing[i].kind>>]

\* listing_digest, without collisions.
Digest(listing) == listing

NoCursor == [offset |-> 0, digest |-> "none"]

\* parse_cursor.
CursorFits(cursor, listing) == cursor = NoCursor \/ cursor.digest = Digest(listing)

\* parse_listing: the page at the cursor and the cursor of the next one.
PageEnd(cursor, listing) == Min({cursor.offset + Limit, Len(listing)})
PageOf(cursor, listing) == SubSeq(listing, cursor.offset + 1, PageEnd(cursor, listing))
NextCursor(cursor, listing) ==
    IF PageEnd(cursor, listing) < Len(listing)
    THEN [offset |-> PageEnd(cursor, listing), digest |-> Digest(listing)] ELSE NoCursor

-----------------------------------------------------------------------------
(* Selections.  docker[c] is what docker inspect says of the mounts of     *)
(* container c; an inventory gives each container the host paths of them.  *)

MountTypes == {"bind", "volume", "tmpfs"}

\* into_mount and capturable_path: a tmpfs has no data on the host.
CapturablePaths(mounts) == {m.source : m \in {x \in mounts : x.type # "tmpfs"}}

\* inspect and parse_inspect_json: one mount of a type it does not know
\* rejects the whole answer.
Readable(docker) == \A c \in Container : \A m \in docker[c] : m.type \in MountTypes
Inventory(docker) == [c \in Container |-> CapturablePaths(docker[c])]

PathItem(p) == [kind |-> "path", ids |-> {}, paths |-> {p}]
MountItem(c, p) == [kind |-> "mount", ids |-> {c}, paths |-> {p}]
GroupItem(ps) == [kind |-> "group", ids |-> Container, paths |-> ps]

\* validate_selection.
ValidSelection(items) ==
    /\ Len(items) \in 1..MaxItems
    /\ \A i \in DOMAIN items : items[i].kind = "group" => items[i].paths # {}

\* resolve_mount and resolve_group: still what the server says.
Resolves(item, inventory) ==
    CASE item.kind = "path" -> TRUE
      [] item.kind = "mount" -> \A c \in item.ids : item.paths \subseteq inventory[c]
      [] item.kind = "group" -> item.paths = UNION {inventory[c] : c \in Container}

\* covers: parent itself or something below it.
Covers(parent, child) == IsPrefix(parent, child)

\* The order normalize_roots sorts by.
Shorter(p, q) ==
    \/ Len(p) < Len(q)
    \/ /\ Len(p) = Len(q)
       /\ \E i \in DOMAIN p : p[i] < q[i] /\ SubSeq(p, 1, i - 1) = SubSeq(q, 1, i - 1)

Keep(kept, p) ==
    IF \E k \in DOMAIN kept : Covers(kept[k], p) THEN kept ELSE Append(kept, p)

Selected(items) == UNION {items[i].paths : i \in DOMAIN items}

\* resolve_roots and normalize_roots.
NormalizeRoots(items) ==
    LET paths == Selected(items)
    IN  FoldLeft(Keep, <<>>, Sorted(paths, {pq \in paths \X paths : Shorter(pq[1], pq[2])}))

\* selected_container_ids.
SelectedContainers(items) == UNION {items[i].ids : i \in DOMAIN items}

\* SourceLayout::from_inventory and snapshot: the mounts the roots cover.
SourceLayout(roots, ids, inventory) ==
    [c \in ids |-> {m \in inventory[c] : \E r \in DOMAIN roots : Covers(roots[r], m)}]

\* SourceLayout::validate, with snapshot's refusal of a container without mounts.
ValidLayout(roots, layout) ==
    Len(roots) \in 1..MaxRoots /\ \A c \in DOMAIN layout : layout[c] # {}

\* selection_inventory: docker is asked only about containers.
AsksDocker(items) == \E i \in DOMAIN items : items[i].kind # "path"

\* preview_capture_selection.
Accepted(items, inventory) ==
    /\ ValidSelection(items) /\ \A i \in DOMAIN items : Resolves(items[i], inventory)
    /\ LET roots == NormalizeRoots(items)
       IN  ValidLayout(roots, SourceLayout(roots, SelectedContainers(items), inventory))

\* db: the selection also names a database file.
Preview(items, db, inventory) ==
    LET roots == NormalizeRoots(items)
    IN  [items |-> items, roots |-> roots, db |-> db,
         layout |-> SourceLayout(roots, SelectedContainers(items), inventory)]

\* Mutant: the items are not part of the phrase.
Confirmation_RootsOnly(preview) == preview.roots

\* confirmation: what the phrase binds; the layout is not in it.
Confirmation(preview) == <<preview.items, preview.roots, preview.db>>
=============================================================================
