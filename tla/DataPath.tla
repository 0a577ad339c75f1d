------------------------------ MODULE DataPath ------------------------------
(***************************************************************************)
(* The way of the data: an operator browses a server or selects what to    *)
(* back up, confirms the preview, the plan is captured as a tar archive,   *)
(* encrypted, sealed with its manifest, possibly damaged, listed page by   *)
(* page, decrypted and extracted.  The server changes whenever it likes up *)
(* to the capture.                                                         *)
(***************************************************************************)
EXTENDS Selection, Manifest

CONSTANTS
    Place,       \* the paths of the server's files and directories
    BadName,     \* names no RemotePath has: not UTF-8, a line break, a backslash
    Boundary,    \* the places other file systems are mounted on
    MountPath,   \* the ones containers mount
    Inventories, \* what the containers may mount
    Servers,     \* what may be on the server at first
    DbName,      \* the name a restored database gets
    EntryLimit,  \* entries of one page of an archive
    MaxChanges,  \* bound on changes of the server
    MaxDamage    \* bound on damages of the stored file

Path == Place \cup {<<>>}

\* RemotePath::parse.
RemotePath == {p \in Path : \A i \in DOMAIN p : p[i] \notin BadName}

\* "other" is a type of mount that is not known here.
Mount == [type : {"bind", "volume", "tmpfs", "other"}, source : MountPath]

ASSUME PlaceAssumption ==
    /\ IsFiniteSet(Place) /\ Place \subseteq Seq(Nat) \ {<<>>}
    /\ \A p \in Place : Parents(p) \subseteq Place
    /\ MountPath \subseteq Place \cap RemotePath /\ Boundary \subseteq Place
    /\ Servers \subseteq [Place -> {"none", "dir", "file", "link"}]
    /\ Inventories # {} /\ Inventories \subseteq [Container -> SUBSET Mount]
ASSUME NameAssumption ==
    DOMAIN Lossy \subseteq BadName /\ Lossy \in [DOMAIN Lossy -> Nat \ DOMAIN Lossy]
ASSUME LimitAssumption ==
    /\ {Limit, EntryLimit, MaxIndex} \subseteq Nat \ {0}
    /\ {MaxItems, MaxEntries, MaxChanges, MaxDamage} \subseteq Nat

VARIABLES
    pc,         \* the step that is next
    server,     \* server[p]: what is at p
    docker,     \* docker[c]: the mounts of container c
    changes,    \* changes of the server so far
    cursor,     \* the cursor of the next page
    pages,      \* the pages shown so far
    shown,      \* the preview the operator has seen
    plan,       \* the saved plan
    entries,    \* the entries of the captured archive
    want,       \* what a restore should give back
    file,       \* the stored envelope
    manifest,   \* the manifest beside it
    damage,     \* damages so far
    tree        \* the restored destination

site == <<server, docker, changes>>
view == <<cursor, pages>>
choice == <<shown, plan>>
payload == <<entries, want, file, manifest, damage>>
vars == <<pc, site, view, choice, payload, tree>>

Kinds == {"none", "dir", "file", "link"}
Thing == [kind : Kinds, stamp : 0..MaxChanges]
Absent == [kind |-> "none", stamp |-> 0]

\* Parents are directories.
Proper(s) ==
    \A p \in Place : s[p].kind # "none" => \A q \in Parents(p) : s[q].kind = "dir"

Fresh(s) == [p \in Place |-> [kind |-> s[p], stamp |-> 0]]
ASSUME ServersAssumption == \A s \in Servers : Proper(Fresh(s))

Item == {PathItem(p) : p \in RemotePath} \cup {MountItem(c, p) : c \in Container, p \in MountPath}
        \cup {GroupItem(ps) : ps \in SUBSET MountPath}
TooMany == [1..MaxItems + 1 -> {PathItem(p) : p \in RemotePath}]
SelectionOf == UNION {[1..n -> Item] : n \in 0..MaxItems}

NoContainer == [c \in Container |-> {}]
NoPreview == [items |-> <<>>, roots |-> <<>>, layout |-> <<>>, db |-> FALSE]
NoFile == [ok |-> FALSE, nonce |-> "none", frames |-> <<>>]

\* What the state may hold.
TypeOK ==
    /\ pc \in {"browse", "browsed", "select", "confirm", "capture", "encrypt", "list",
               "decrypt", "extract", "restored", "refused", "lost"}
    /\ server \in [Place -> Thing] /\ Proper(server)
    /\ docker \in Inventories \cup {NoContainer} /\ changes \in 0..MaxChanges
    /\ shown.items \in SelectionOf /\ plan.items \in SelectionOf /\ plan.db \in BOOLEAN
    /\ \A r \in DOMAIN plan.roots : plan.roots[r] \in Path
    /\ damage \in 0..MaxDamage

Init ==
    /\ pc \in {"browse", "select"} /\ changes = 0
    /\ \E s \in Servers : server = Fresh(s)
    /\ docker \in (IF pc = "select" THEN Inventories ELSE {NoContainer})
    /\ cursor = NoCursor /\ pages = <<>> /\ shown = NoPreview /\ plan = NoPreview
    /\ entries = <<>> /\ want = {} /\ file = NoFile /\ damage = 0 /\ tree = {}
    /\ manifest = NewManifest(TRUE)

Go(step) == pc' = step

-----------------------------------------------------------------------------
(* The server. *)

Changing ==
    /\ changes < MaxChanges /\ changes' = changes + 1
    /\ UNCHANGED <<pc, view, choice, payload, tree>>

\* A file or directory is made, removed, replaced or written to while the
\* operator browses; for a capture it is as if it had always been so.
Modify(p, kind) ==
    /\ pc = "browse"
    /\ server' = [server EXCEPT ![p] = [kind |-> kind,
                                        stamp |-> IF kind = "none" THEN 0 ELSE changes + 1]]
    /\ Proper(server') /\ Changing /\ UNCHANGED docker

\* A file grows before the capture.
Grow(p) ==
    /\ pc = "capture" /\ server[p].kind = "file"
    /\ server' = [server EXCEPT ![p].stamp = @ + 1] /\ Changing /\ UNCHANGED docker

\* Containers are made anew with other mounts.
Recreate ==
    /\ pc = "confirm" /\ docker' \in Inventories \ {docker} /\ Changing
    /\ UNCHANGED server

-----------------------------------------------------------------------------
(* Browsing. *)

\* parse_record: one name that no RemotePath has rejects the whole listing.
Listable == \A p \in Place : Len(p) = 1 /\ server[p].kind # "none" => p \in RemotePath

\* browse, BrowseRemoteDirectoryUseCase and list_directory.  A rejected cursor
\* makes the operator read the directory again from its first page.
Browse ==
    /\ pc = "browse" /\ Listable
    /\ LET listing == Listing(server)
       IN  IF CursorFits(cursor, listing)
           THEN /\ pages' = pages \o PageOf(cursor, listing)
                /\ cursor' = NextCursor(cursor, listing)
                /\ Go(IF cursor' = NoCursor THEN "browsed" ELSE "browse")
           ELSE pages' = <<>> /\ cursor' = NoCursor /\ Go("browse")
    /\ UNCHANGED <<site, choice, payload, tree>>

-----------------------------------------------------------------------------
(* Planning. *)

\* What a preview accepts with the inventory of this moment.
Acceptable(items) ==
    /\ AsksDocker(items) => Readable(docker)
    /\ Accepted(items, Inventory(docker))

\* preview.
ShowPreview(items, db) ==
    /\ pc = "select"
    /\ IF Acceptable(items)
       THEN shown' = Preview(items, db, Inventory(docker)) /\ Go("confirm")
       ELSE UNCHANGED shown /\ Go("refused")
    /\ UNCHANGED <<site, view, plan, payload, tree>>

\* The request that follows a preview: its items, or one of them only.
Requests == {shown.items} \cup {<<shown.items[i]>> : i \in DOMAIN shown.items}

\* save_confirmed_selection: the request is previewed again, and its phrase
\* compared with the one the operator confirmed.
SavePlan(items, db) ==
    /\ pc = "confirm"
    /\ LET preview == Preview(items, db, Inventory(docker))
       IN  IF Acceptable(items) /\ Confirmation(preview) = Confirmation(shown)
           THEN plan' = preview /\ Go("capture")
           ELSE UNCHANGED plan /\ Go("refused")
    /\ UNCHANGED <<site, view, shown, payload, tree>>

-----------------------------------------------------------------------------
(* Capture. *)

There(p) == p = <<>> \/ server[p].kind # "none"

\* Parents before what they hold.
Before(p, q) ==
    \/ IsStrictPrefix(p, q)
    \/ \E i \in DOMAIN p \cap DOMAIN q :
           p[i] < q[i] /\ SubSeq(p, 1, i - 1) = SubSeq(q, 1, i - 1)

Entry(p) ==
    IF p = <<>> THEN Node(p, "dir", 0)
    ELSE Node(p, server[p].kind, IF server[p].kind = "file" THEN 1 + server[p].stamp ELSE 0)

\* --one-file-system: tar does not go into a directory another file system is
\* mounted on, unless it is the root itself.
OnFileSystem(root, p) ==
    \A m \in Boundary : ~ (IsStrictPrefix(root, m) /\ IsStrictPrefix(m, p))

\* tar writes a root and everything below it on its file system.
Below(root) == {p \in Path : There(p) /\ Covers(root, p) /\ OnFileSystem(root, p)}
Walk(root) ==
    LET order == {pq \in Below(root) \X Below(root) : Before(pq[1], pq[2])}
    IN  [i \in 1..Cardinality(Below(root)) |-> Entry(Sorted(Below(root), order)[i])]

\* What was selected: everything at or below a selected path that is on the file
\* system of each selected path above it, and the directories above it, with the
\* text of their names.
Chosen ==
    LET below == {p \in Place :
            /\ There(p) /\ \E s \in Selected(plan.items) : Covers(s, p)
            /\ \A s \in Selected(plan.items) : Covers(s, p) => OnFileSystem(s, p)}
    IN  {Parsed(Entry(p)) : p \in below}
            \cup {Node(q, "dir", 0) : q \in UNION {Parents(TextPath(p)) : p \in below}}

\* remote_command, and the inspection of what arrived.
Capture ==
    /\ pc = "capture"
    /\ LET archive == FlattenSeq([r \in DOMAIN plan.roots |-> Walk(plan.roots[r])])
       IN  IF (\A r \in DOMAIN plan.roots : There(plan.roots[r])) /\ Inspect(archive)
           THEN entries' = archive /\ want' = Chosen /\ Go("encrypt")
           ELSE UNCHANGED <<entries, want>> /\ Go("refused")
    /\ UNCHANGED <<site, view, choice, file, manifest, damage, tree>>

\* The payload is encrypted under its own key and nonce for its own path.
Mine(chunks) == Encrypt("k", "n", "a", chunks)

\* The payloads are registered, the manifest composed from them and the saved
\* plan, and sealed.  The operator's session is over; what was selected does
\* not matter any more.
Seal ==
    /\ pc = "encrypt"
    /\ LET composed == Composed(Registered(plan.db), ValidLayout(plan.roots, plan.layout))
       IN  IF Mine(entries).ok /\ Composes(Registered(plan.db)) /\ CanSeal(composed)
           THEN file' = Mine(entries) /\ manifest' = SealManifest(composed) /\ Go("list")
           ELSE UNCHANGED <<file, manifest>> /\ Go("refused")
    /\ server' = [p \in Place |-> Absent] /\ docker' = NoContainer
    /\ changes' = 0 /\ shown' = NoPreview /\ plan' = [NoPreview EXCEPT !.db = plan.db]
    /\ UNCHANGED <<view, entries, want, damage, tree>>

-----------------------------------------------------------------------------
(* Storage. *)

\* Frames of other payloads: another run of the same plan, the database of
\* this one, and a later frame of a longer one.
Foreign ==
    {Frame("k2", "n2", "a", 0, FALSE, "foreign"), Frame("k", "n2", "a", 0, FALSE, "foreign"),
     Frame("k2", "n2", "a2", 0, TRUE, Empty)}

\* A frame is lost, doubled, overwritten, exchanged with another or marked as
\* the last, or the header is another one's.
Damage ==
    /\ pc = "list" /\ damage < MaxDamage /\ damage' = damage + 1
    /\ \/ \E i \in DOMAIN file.frames :
              \/ file' = [file EXCEPT !.frames = RemoveAt(@, i)]
              \/ file' = [file EXCEPT !.frames = InsertAt(@, i, @[i])]
              \/ file' = [file EXCEPT !.frames[i].flag = ~@]
              \/ \E f \in Foreign : file' = [file EXCEPT !.frames[i] = f]
              \/ \E j \in DOMAIN file.frames :
                     i < j /\ file' = [file EXCEPT !.frames[i] = file.frames[j],
                                                   !.frames[j] = file.frames[i]]
       \/ file' = [file EXCEPT !.nonce = "n2"]
    /\ UNCHANGED <<pc, site, view, choice, entries, want, manifest, tree>>

-----------------------------------------------------------------------------
(* Reading back. *)

\* inspect_backup: one page of the archive's entries after another; each
\* decrypts the whole file.
List ==
    /\ pc = "list" /\ ValidSealed(manifest) /\ Cardinality(FilesystemPayloads(manifest)) = 1
    /\ Decrypts(file, "k", "n", "a")
    /\ LET offset == Len(pages)
           page == EntryPage(Plaintext(file), offset, EntryLimit)
       IN  /\ pages' = pages \o page
           /\ Go(IF offset + Len(page) < Len(Plaintext(file)) THEN "list" ELSE "decrypt")
    /\ UNCHANGED <<site, cursor, choice, payload, tree>>

\* A restore needs no listing before it, and follows one that was refused.
SkipList ==
    /\ pc = "list" /\ Go("decrypt") /\ pages' = <<>>
    /\ UNCHANGED <<site, cursor, choice, payload, tree>>

\* The restore plan is built from the manifest; then decrypt_reader_to with the
\* nonce of the manifest.
Decrypt ==
    /\ pc = "decrypt"
    /\ Go(IF Restorable(manifest) /\ Decrypts(file, "k", "n", "a") THEN "extract" ELSE "lost")
    /\ UNCHANGED <<site, view, choice, payload, tree>>

\* extract_tar_zstd, then the file of the database the manifest has, if any.
ExtractAll ==
    /\ pc = "extract"
    /\ LET whole == Extract(Plaintext(file))
           last == IF whole.ok /\ DatabasePayloads(manifest) # {} THEN AddFile(whole.tree, <<DbName>>, 1) ELSE whole
       IN  tree' = last.tree /\ Go(IF last.ok THEN "restored" ELSE "lost")
    /\ UNCHANGED <<site, view, choice, payload>>

-----------------------------------------------------------------------------
Next ==
    \/ \E p \in Place, kind \in Kinds : Modify(p, kind)
    \/ \E p \in Place : Grow(p)
    \/ Recreate \/ Browse
    \/ \E items \in SelectionOf \cup TooMany, db \in BOOLEAN : ShowPreview(items, db)
    \/ \E items \in Requests, db \in BOOLEAN : SavePlan(items, db)
    \/ Capture \/ Seal \/ Damage \/ List \/ SkipList \/ Decrypt \/ ExtractAll

Spec == Init /\ [][Next]_vars

-----------------------------------------------------------------------------
(* Properties. *)

\* The pages an operator has gone through are one listing, with no entry twice
\* and none left out, although the directory changed between them; and the
\* pages of a backup's entries are all of them.
PagesAreOneListing ==
    /\ pc = "browsed" => pages = Listing(server)
    /\ pc = "decrypt" /\ pages # <<>> => pages = Summaries(entries)

\* The roots of a saved plan cover every selected path, and none covers another.
RootsNormalized ==
    pc = "capture" =>
        /\ \A p \in Selected(plan.items) :
               Cardinality({r \in DOMAIN plan.roots : Covers(plan.roots[r], p)}) = 1
        /\ \A r, s \in DOMAIN plan.roots : Covers(plan.roots[r], plan.roots[s]) => r = s

\* What is saved is what the operator confirmed, and the container layout, which
\* is read again and not confirmed, has the selected mounts and nothing outside
\* the roots.
PlanIsConfirmed ==
    pc = "capture" =>
        /\ plan.items = shown.items /\ plan.roots = shown.roots /\ plan.db = shown.db
        /\ \A c \in DOMAIN plan.layout : \A m \in plan.layout[c] :
               \E r \in DOMAIN plan.roots : Covers(plan.roots[r], m)
        /\ \A i \in DOMAIN plan.items : plan.items[i].kind = "mount" =>
               \A c \in plan.items[i].ids : plan.items[i].paths \subseteq plan.layout[c]

\* The plan that is saved is well formed, is what the operator confirmed and
\* covers it exactly, whatever happened to the server since the preview.
PlanSafe == TypeOK /\ RootsNormalized /\ PlanIsConfirmed

\* No two frames that encryption writes are sealed under the same key and
\* nonce, however long the payload is, also when it gives up in the end.
NonceOnce ==
    \A f \in {Mine(entries)} : \A i, j \in DOMAIN f.frames :
        /\ f.frames[i].under.key = f.frames[j].under.key
        /\ f.frames[i].under.nonce = f.frames[j].under.nonce
        => i = j

\* Only the envelope as it was written is decrypted, whichever frames are lost,
\* doubled, exchanged, marked or taken from another one.
DamageFound == pc \in {"extract", "restored"} => file = Mine(entries)

\* The envelope keeps what it promises: encrypt_reader_to never repeats a nonce,
\* and decrypt_frames_to accepts no other sequence of frames than it wrote.
EnvelopeSound == NonceOnce /\ DamageFound

\* Two names of an archive with the same text.
Merges(archive) ==
    \E i, j \in DOMAIN archive : i # j /\ TextPath(archive[i].path) = TextPath(archive[j].path)

\* What is restored is what was selected, as it was on the server when it was
\* captured, under the text of its names, and the database.  What is below a
\* selected path on another file system than that path is not part of it.
RestoredIsSelected ==
    pc = "restored" =>
        tree = want \cup (IF plan.db THEN {Node(<<DbName>>, "file", 1)} ELSE {})

\* A capture that was accepted can be restored: inspection lets nothing pass
\* that extraction refuses, prepare_for_seal refuses no manifest a capture has
\* composed, and validate_sealed and select_payloads take what was sealed.  Two
\* captures are accepted that can never be restored: one with two entries whose
\* names have the same text, and one with a file or directory that has the name of
\* the restored database, next to a database.
CapturedIsRestorable ==
    /\ pc = "refused" /\ entries # <<>> => ~Mine(entries).ok
    /\ pc = "lost" => \/ file # Mine(entries) \/ Merges(entries)
                      \/ plan.db /\ \E n \in want : n.path = <<DbName>>
=============================================================================
