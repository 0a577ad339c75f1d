------------------------------ MODULE Payload ------------------------------
(***************************************************************************)
(* The formats of a payload: a tar archive, which is inspected when it is  *)
(* captured and extracted much later, and the chunked AES-GCM envelope     *)
(* around it.  Operators only.                                             *)
(*                                                                         *)
(* An entry of an archive is a path (a sequence of names), a kind and a    *)
(* size.  A frame of an envelope is the byte that marks the last frame and *)
(* the sealed values; ideal encryption opens a frame under exactly the     *)
(* key, nonce and associated data it was sealed with.                      *)
(***************************************************************************)
EXTENDS Naturals, FiniteSets, SequencesExt

CONSTANTS
    Odd,          \* names a server may use and an archive path may not
    Lossy,        \* Lossy[n]: the text of n, a name that is not UTF-8
    MaxEntries, MaxFile, MaxExpanded,   \* ArchiveLimits
    MaxIndex      \* the largest frame index (u32::MAX)

-----------------------------------------------------------------------------
(* Archives. *)

\* to_string_lossy: what is not UTF-8 is replaced, and several names may become
\* one.  Where the path of an entry has to be UTF-8 (on Windows), Lossy[n] is an
\* odd name.
Text(name) == IF name \in DOMAIN Lossy THEN Lossy[name] ELSE name
TextPath(p) == [i \in DOMAIN p |-> Text(p[i])]

\* parse_entry_path and ArchivePath::parse; "/" is archived as ".".
SafePath(p) == p # <<>> /\ \A i \in DOMAIN p : Text(p[i]) \notin Odd

\* What the tar stream takes: a header and the data of each entry.
Bytes(entries) == FoldLeft(LAMBDA n, e : n + 1 + e.size, 0, entries)

\* inspect_entry_header.
SafeEntry(e) == e.kind \in {"file", "dir"} /\ (e.kind = "file" => e.size <= MaxFile)

\* inspect_tar_zstd.
Inspect(entries) ==
    /\ Len(entries) <= MaxEntries /\ Bytes(entries) <= MaxExpanded
    /\ \A i \in DOMAIN entries : SafePath(entries[i].path) /\ SafeEntry(entries[i])

\* Proper prefixes of p below the destination.
Parents(p) == Prefixes(p) \ {<<>>, p}

Node(p, kind, size) == [path |-> p, kind |-> kind, size |-> size]

\* An entry, and those of an archive, with the paths that are read from them.
Parsed(e) == Node(TextPath(e.path), e.kind, e.size)
Summaries(entries) == [i \in DOMAIN entries |-> Parsed(entries[i])]

\* list_tar_entries: the entries after offset, at most limit of them.
EntryPage(entries, offset, limit) ==
    SubSeq(Summaries(entries), offset + 1, Min({offset + limit, Len(entries)}))

\* ensure_parent_directories: what is missing is created, a file is in the way.
CanCreate(tree, e) ==
    /\ \A n \in tree : n.path \in Parents(e.path) => n.kind = "dir"
    /\ \A n \in tree : n.path # e.path

Failed == [ok |-> FALSE, count |-> 0, tree |-> {}]

\* Mutant: parents are expected to be there.
ExtractEntry_NoParents(state, entry) ==
    LET e == Parsed(entry)
    IN  IF /\ state.ok /\ SafePath(entry.path) /\ state.count < MaxEntries /\ SafeEntry(entry)
           /\ \A p \in Parents(e.path) : Node(p, "dir", 0) \in state.tree
           /\ \A n \in state.tree : n.path # e.path
        THEN [ok |-> TRUE, count |-> state.count + 1, tree |-> state.tree \cup {e}]
        ELSE Failed

\* Mutant: an entry is put under its own name only.
ExtractEntry_NameOnly(state, entry) ==
    LET e == Parsed(entry)
    IN  IF /\ state.ok /\ SafePath(entry.path) /\ state.count < MaxEntries
           /\ CanCreate(state.tree, e) /\ SafeEntry(entry)
        THEN [ok |-> TRUE, count |-> state.count + 1,
              tree |-> state.tree \cup {Node(<<e.path[Len(e.path)]>>, e.kind, e.size)}]
        ELSE Failed

\* extract_entry: create_dir or create_new, never over something.
ExtractEntry(state, entry) ==
    LET e == Parsed(entry)
    IN  IF /\ state.ok /\ SafePath(entry.path) /\ state.count < MaxEntries
           /\ CanCreate(state.tree, e) /\ SafeEntry(entry)
        THEN [ok |-> TRUE, count |-> state.count + 1,
              tree |-> state.tree \cup {Node(p, "dir", 0) : p \in Parents(e.path)} \cup {e}]
        ELSE Failed

\* extract_tar_zstd: a failure removes the whole destination.
Extract(entries) ==
    IF Bytes(entries) <= MaxExpanded
    THEN FoldLeft(ExtractEntry, [ok |-> TRUE, count |-> 0, tree |-> {}], entries)
    ELSE Failed

\* decompress_zstd_file into the same destination: create_new.
AddFile(tree, path, size) ==
    IF \E n \in tree : n.path = path THEN Failed
    ELSE [ok |-> TRUE, count |-> 1, tree |-> tree \cup {Node(path, "file", size)}]

-----------------------------------------------------------------------------
(* Envelopes. *)

Empty == "empty"

\* chunk_nonce and frame_aad: the values a frame is sealed under.
Sealing(key, nonce, aad, index, final) ==
    [key |-> key, nonce |-> <<nonce, index>>, aad |-> <<aad, index, final>>]

Frame(key, nonce, aad, index, final, data) ==
    [flag |-> final, under |-> Sealing(key, nonce, aad, index, final), data |-> data]

\* encrypt_reader_to: one frame per chunk and an empty last one.  When the index
\* would overflow it stops, with the frames so far written.
Encrypt(key, nonce, aad, chunks) ==
    [ok |-> Len(chunks) <= MaxIndex, nonce |-> nonce,
     frames |-> [i \in 1..Min({Len(chunks), MaxIndex}) + 1 |->
         IF i <= Len(chunks) THEN Frame(key, nonce, aad, i - 1, FALSE, chunks[i])
         ELSE Frame(key, nonce, aad, i - 1, TRUE, Empty)]]

\* Mutant: the position of a frame is not part of what it is sealed under.
OpensAt_AnyIndex(frame, key, nonce, aad, index) ==
    \E i \in 0..MaxIndex : frame.under = Sealing(key, nonce, aad, i, frame.flag)

\* decrypt_frame.
OpensAt(frame, key, nonce, aad, index) ==
    frame.under = Sealing(key, nonce, aad, index, frame.flag)

\* decrypt_reader_to: frames in order up to the last, which is empty and ends
\* the file.
Decrypts(file, key, nonce, aad) ==
    LET n == Len(file.frames)
    IN  /\ file.nonce = nonce /\ n \in 1..MaxIndex + 1
        /\ \A i \in 1..n : /\ OpensAt(file.frames[i], key, nonce, aad, i - 1)
                           /\ file.frames[i].flag = (i = n)
        /\ file.frames[n].data = Empty

Plaintext(file) == [i \in 1..Len(file.frames) - 1 |-> file.frames[i].data]
=============================================================================
