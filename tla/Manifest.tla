------------------------------ MODULE Manifest ------------------------------
(***************************************************************************)
(* The manifest of a backup: how a capture builds it, what it must satisfy *)
(* to be sealed and to be read again, and how a restore finds its payloads *)
(* in it.  Operators only.                                                 *)
(*                                                                         *)
(* verification_state, sealed_at and signature are set together and are    *)
(* one flag here.  Labels, digests and identifiers the program makes       *)
(* itself, and checks for their form, are left out.                        *)
(***************************************************************************)
EXTENDS Payload

CurrentFormat == 1
EncryptedFormat == 2

\* FILESYSTEM_PAYLOAD_PATH and DATABASE_PAYLOAD_PATH, as far as
\* PayloadEntry::validate looks at a path.
FilesystemPath == [name |-> "filesystem-000", inPayload |-> TRUE, enc |-> TRUE]
DatabasePath == [name |-> "database-000", inPayload |-> TRUE, enc |-> TRUE]

-----------------------------------------------------------------------------
(* Entries. *)

\* wrap_payload_key: the 32 bytes of a payload's key in an envelope of their
\* own, under the recovery key and for the payload's path.
KeyBytes == 32
WrappedBytes == 95      \* WRAPPED_PAYLOAD_KEY_ENVELOPE_BYTES
WrapKey(path) == Encrypt("recovery", "n0", <<"wrap", path>>, <<"key">>)

\* A header of 21 bytes; a flag, a length and a tag around the data of a frame.
EnvelopeBytes(envelope, chunkBytes) ==
    FoldLeft(LAMBDA n, f : n + 21 + (IF f.data = Empty THEN 0 ELSE chunkBytes),
             21, envelope.frames)

\* encrypt_and_register_payload_file.
EncryptedEntry(role, path, media) ==
    [role |-> role, path |-> path, media |-> media, encrypted |-> TRUE,
     wrapped |-> EnvelopeBytes(WrapKey(path), KeyBytes)]

\* PayloadEncryption::validate knows the length of a wrapped key.
ValidEncryption(e) == e.wrapped = WrappedBytes

\* PayloadEntry::validate.
ValidEntry(e) ==
    /\ e.path.inPayload
    /\ e.encrypted => ValidEncryption(e) /\ e.path.enc

-----------------------------------------------------------------------------
(* Manifests. *)

NewManifest(layoutOk) ==
    [version |-> CurrentFormat, payloads |-> <<>>, sealed |-> FALSE, layoutOk |-> layoutOk]

\* add_payload refuses a path that is there already.
CanAdd(m, e) == \A i \in DOMAIN m.payloads : m.payloads[i].path # e.path

\* add_payload: the first encrypted payload makes it an encrypted manifest.
AddPayload(m, e) ==
    [m EXCEPT !.payloads = Append(@, e),
              !.version = IF e.encrypted /\ @ = CurrentFormat THEN EncryptedFormat ELSE @]

\* validate_common: every payload is encrypted, or none is.
ValidCommon(m) ==
    /\ m.version \in {CurrentFormat, EncryptedFormat} /\ m.payloads # <<>> /\ m.layoutOk
    /\ \A i \in DOMAIN m.payloads :
           /\ ValidEntry(m.payloads[i])
           /\ m.payloads[i].encrypted <=> m.version = EncryptedFormat
    /\ \A i, j \in DOMAIN m.payloads : m.payloads[i].path = m.payloads[j].path => i = j

\* validate_for_verification, asked for again by prepare_for_seal.
CanSeal(m) == ValidCommon(m) /\ ~m.sealed

\* prepare_for_seal.
SealManifest(m) == [m EXCEPT !.sealed = TRUE]

\* validate_sealed.
ValidSealed(m) == ValidCommon(m) /\ m.sealed

\* The entries a capture registers and adds: the filesystem's and, in the same
\* staging run, the database's.
Registered(db) ==
    <<EncryptedEntry("filesystem", FilesystemPath, "zstd")>>
        \o (IF db THEN <<EncryptedEntry("database", DatabasePath, "sqlite3+zstd")>> ELSE <<>>)

\* execute and seal_combined up to storage.seal ...
Composed(added, layoutOk) == FoldLeft(AddPayload, NewManifest(layoutOk), added)

\* ... which an entry that cannot be added does not let them reach.
Composes(added) ==
    \A i \in DOMAIN added : CanAdd(Composed(SubSeq(added, 1, i - 1), TRUE), added[i])

-----------------------------------------------------------------------------
(* Reading. *)

\* select_payloads: the filesystem by its media type, the database by its role.
FilesystemPayloads(m) == {e.path : e \in {x \in ToSet(m.payloads) : x.media = "zstd"}}
DatabasePayloads(m) == {e.path : e \in {x \in ToSet(m.payloads) : x.role = "database"}}

\* RestorePlan::build, but for the destination.
Restorable(m) ==
    /\ ValidSealed(m)
    /\ Cardinality(FilesystemPayloads(m)) = 1 /\ Cardinality(DatabasePayloads(m)) <= 1
=============================================================================
