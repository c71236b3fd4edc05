------------------------- MODULE RecordingMetadata --------------------------
(***************************************************************************)
(* The metadata of one uploaded recording in the object store.             *)
(* uploadClientRecording stores the file and creates the metadata;         *)
(* updateRecordingChapters, called by a request or by                      *)
(* fetchAndSaveChaptersFromRAG, reads it, replaces the chapters and writes *)
(* it back.  The store is external: a read or a write may fail, and a      *)
(* write that failed may have had its effect.                              *)
(***************************************************************************)

CONSTANTS
  Updates,     \* updates of the chapters; an update also names the chapters it carries
  NoChapters   \* the empty list

VARIABLES
  upload,    \* "none", "storing" (the file), "describing" (its metadata), "returned"
  stored,    \* the metadata in the store
  update,    \* update -> "idle", "fetching", "reading", "writing", "saved" or "over"
  brings,    \* update -> the chapters it carries: a list of its own, or the empty one
  draft,     \* update -> the metadata object it has in hand
  blind,     \* updates that could not read metadata that was there
  after      \* history: update -> the updates that ended after it was saved

vars == <<upload, stored, update, brings, draft, blind, after>>

\* described: with the fileSize and the recordingStartTime of the upload.
NoMetadata == [exists |-> FALSE, described |-> FALSE, chapters |-> NoChapters]
Created == [exists |-> TRUE, described |-> TRUE, chapters |-> NoChapters]
Blank == [exists |-> TRUE, described |-> FALSE, chapters |-> NoChapters]

Init ==
  /\ upload = "none"
  /\ stored = NoMetadata
  /\ update = [f \in Updates |-> "idle"]
  /\ brings = [f \in Updates |-> NoChapters]
  /\ draft = [f \in Updates |-> NoMetadata]
  /\ blind = {}
  /\ after = [f \in Updates |-> {}]

-----------------------------------------------------------------------------
UploadClientRecording ==
  /\ upload = "none"
  /\ upload' = "storing"
  /\ UNCHANGED <<stored, update, brings, draft, blind, after>>

\* A failure to store is thrown, and the client may upload the file again.
FileStored ==
  /\ upload = "storing"
  /\ upload' \in {"describing", "none"}
  /\ UNCHANGED <<stored, update, brings, draft, blind, after>>

\* createRecordingMetadata does not look whether its save succeeded.
MetadataCreated ==
  /\ upload = "describing"
  /\ stored' \in {Created, stored}
  /\ upload' = "returned"
  /\ UNCHANGED <<update, brings, draft, blind, after>>

\* The file name is known once the upload has returned.  A request may carry any array.
RequestUpdate(f) ==
  /\ upload = "returned"
  /\ update[f] = "idle"
  /\ \/ update' = [update EXCEPT ![f] = "fetching"] /\ UNCHANGED brings
     \/ /\ update' = [update EXCEPT ![f] = "reading"]
        /\ \E chapters \in {f, NoChapters} : brings' = [brings EXCEPT ![f] = chapters]
  /\ UNCHANGED <<upload, stored, draft, blind, after>>

\* The RAG service has chapters, has none, or fails.
ChaptersFetched(f) ==
  /\ update[f] = "fetching"
  /\ \/ update' = [update EXCEPT ![f] = "reading"] /\ brings' = [brings EXCEPT ![f] = f]
     \/ update' = [update EXCEPT ![f] = "over"] /\ UNCHANGED brings
  /\ UNCHANGED <<upload, stored, draft, blind, after>>

\* getRecordingMetadata returns null for what is not there and for what it cannot read.
ReadOutcomes == {stored, NoMetadata}

Base(metadata) == IF metadata.exists THEN metadata ELSE Blank

MetadataRead(f) ==
  /\ update[f] = "reading"
  /\ \E metadata \in ReadOutcomes :
       /\ draft' = [draft EXCEPT ![f] = [Base(metadata) EXCEPT !.chapters = brings[f]]]
       /\ blind' = IF metadata = stored THEN blind ELSE blind \cup {f}
  /\ update' = [update EXCEPT ![f] = "writing"]
  /\ UNCHANGED <<upload, stored, brings, after>>

Ended(f) == after' = [g \in Updates |-> IF update[g] = "saved" THEN after[g] \cup {f} ELSE {}]

WriteSkipped(f) ==
  /\ update[f] = "writing"
  /\ update' = [update EXCEPT ![f] = "saved"]
  /\ Ended(f)
  /\ UNCHANGED <<upload, stored, brings, draft, blind>>

MetadataWritten(f) ==
  /\ update[f] = "writing"
  /\ stored' = draft[f]
  /\ update' = [update EXCEPT ![f] = "saved"]
  /\ Ended(f)
  /\ UNCHANGED <<upload, brings, draft, blind>>

MetadataWriteFails(f) ==
  /\ update[f] = "writing"
  /\ stored' \in {stored, draft[f]}
  /\ update' = [update EXCEPT ![f] = "over"]
  /\ Ended(f)
  /\ UNCHANGED <<upload, brings, draft, blind>>

Next ==
  \/ UploadClientRecording \/ FileStored \/ MetadataCreated
  \/ \E f \in Updates :
       \/ RequestUpdate(f) \/ ChaptersFetched(f)
       \/ MetadataRead(f) \/ MetadataWritten(f) \/ MetadataWriteFails(f)

Spec == Init /\ [][Next]_vars

-----------------------------------------------------------------------------
Metadata == [exists : BOOLEAN, described : BOOLEAN, chapters : Updates \cup {NoChapters}]

\* Every variable has its shape; what is going to be written is metadata.
TypeOK ==
  /\ upload \in {"none", "storing", "describing", "returned"}
  /\ stored \in Metadata
  /\ update \in [Updates -> {"idle", "fetching", "reading", "writing", "saved", "over"}]
  /\ draft \in [Updates -> Metadata]
  /\ \A f \in Updates : update[f] = "writing" => draft[f].exists
  /\ brings \in [Updates -> Updates \cup {NoChapters}]
  /\ blind \subseteq Updates
  /\ after \in [Updates -> SUBSET Updates]

\* The size and the start time of a recording, once stored, are lost only after an update
\* that could not read them has written: however many updates overlap or fail, those that
\* read what was stored never cost them.  (An update that read the loss may repeat it over
\* a description that another one has put back.)
DescriptionKept ==
  [][stored.described /\ ~stored'.described =>
       \E f \in blind : update'[f] \in {"saved", "over"}]_vars

\* What updateRecordingChapters reported as saved is stored, whole, or an update that ended
\* after it has put its own list, which may be empty, in its place: an update that ended
\* before it, or one that found no chapters to bring, never takes it away.
SavedChaptersStay ==
  \A f \in Updates :
    update[f] = "saved" => stored.chapters \in {brings[g] : g \in {f} \cup after[f]}

\* "Create the metadata if there is none" (recording.service.ts:482): a description that was
\* stored stays.  It does not hold: metadata that cannot be read counts as none.
DescriptionSurvives == [][stored.described => stored'.described]_vars
=============================================================================
