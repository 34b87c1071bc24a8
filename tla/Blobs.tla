------------------------------- MODULE Blobs -------------------------------
(***************************************************************************)
(* Files in blob storage and the rows that point at them: a user's avatar  *)
(* (backend/src/routes/users/avatar.ts) and the attachments of a card      *)
(* (routes/cards/attachments.ts, frontend hooks/card-features/             *)
(* use-attachments.ts), stored by config/azure-storage.ts.                 *)
(*                                                                         *)
(* A blob and its row are written in separate steps, on the server or on   *)
(* the client, and any of them may be the last.                            *)
(***************************************************************************)
EXTENDS Integers

CONSTANTS
  Picture,   \* avatars, by the digest that names their blob
  Path,      \* blob paths of attachments: the card, the millisecond and the name
  File,      \* attachment rows, given out once
  BlobCall,  \* slots for calls being served
  NoFile, UsedFile, NoPicture,
  MaxBlobCalls, MaxBlobFails  \* bounds: calls ever served, steps that fail

\* The two are kept in two containers.
ASSUME BlobConstants ==
  /\ Picture \cap Path = {}
  /\ NoFile \notin Path /\ UsedFile \notin Path /\ NoPicture \notin Picture /\ NoFile # UsedFile
  /\ MaxBlobCalls \in Nat /\ MaxBlobFails \in Nat

VARIABLES
  avatar,     \* profiles.avatar_url and auth_users.image, written in one transaction
  files,      \* card_attachments: row -> path
  blobs,      \* what the two containers hold
  blobCalls,
  blobServed, blobFailed,
  shared      \* history: paths asked for twice

blobVars == <<avatar, files, blobs, blobCalls, blobServed, blobFailed, shared>>

AtEase == [pc |-> "idle", picture |-> NoPicture, previous |-> NoPicture, path |-> NoFile, file |-> NoFile]

BlobTypeOK ==
  /\ avatar \in Picture \cup {NoPicture}
  /\ files \in [File -> Path \cup {NoFile, UsedFile}]
  /\ blobs \subseteq Picture \cup Path
  /\ blobCalls \in [BlobCall ->
       [pc: {"idle", "upload", "set", "discard", "put", "finalize", "load", "delete row", "delete blob"},
        picture: Picture \cup {NoPicture}, previous: Picture \cup {NoPicture},
        path: Path \cup {NoFile}, file: File \cup {NoFile}]]
  /\ blobServed \in 0..MaxBlobCalls /\ blobFailed \in 0..MaxBlobFails
  /\ shared \subseteq Path

BlobInit ==
  /\ avatar = NoPicture
  /\ files = [f \in File |-> NoFile]
  /\ blobs = {}
  /\ blobCalls = [k \in BlobCall |-> AtEase]
  /\ blobServed = 0 /\ blobFailed = 0
  /\ shared = {}

BlobStart(k, q) ==
  /\ blobCalls[k].pc = "idle"
  /\ blobServed < MaxBlobCalls /\ blobServed' = blobServed + 1
  /\ blobCalls' = [blobCalls EXCEPT ![k] = q]
  /\ UNCHANGED <<avatar, files, blobs, blobFailed>>

BlobGo(k, q) == blobCalls' = [blobCalls EXCEPT ![k] = q] /\ UNCHANGED <<blobServed, blobFailed, shared>>

-----------------------------------------------------------------------------
(* The avatar.                                                              *)

\* A new picture, or none.
ChangeAvatar(k) == \E p \in Picture \cup {NoPicture} :
  /\ BlobStart(k, [AtEase EXCEPT !.pc = IF p = NoPicture THEN "set" ELSE "upload", !.picture = p])
  /\ UNCHANGED shared

UploadAvatar(k) ==
  /\ blobCalls[k].pc = "upload"
  /\ blobs' = blobs \cup {blobCalls[k].picture}
  /\ BlobGo(k, [blobCalls[k] EXCEPT !.pc = "set"])
  /\ UNCHANGED <<avatar, files>>

\* Slip: the picture that was there before is returned, as the comment has it.
setAvatarUrlBefore(k) ==
  /\ blobCalls[k].pc = "set"
  /\ avatar' = blobCalls[k].picture
  /\ BlobGo(k, [blobCalls[k] EXCEPT !.pc = "discard", !.previous = avatar])
  /\ UNCHANGED <<files, blobs>>

\* UPDATE ... RETURNING image answers the image just written.
setAvatarUrl(k) ==
  /\ blobCalls[k].pc = "set"
  /\ avatar' = blobCalls[k].picture
  /\ BlobGo(k, [blobCalls[k] EXCEPT !.pc = "discard", !.previous = avatar'])
  /\ UNCHANGED <<files, blobs>>

discardPreviousAvatar(k) ==
  LET q == blobCalls[k]
  IN  /\ q.pc = "discard"
      /\ blobs' = IF q.previous \in {NoPicture, q.picture} THEN blobs ELSE blobs \ {q.previous}
      /\ BlobGo(k, AtEase)
      /\ UNCHANGED <<avatar, files>>

-----------------------------------------------------------------------------
(* Attachments.                                                             *)

\* The upload URL.  A name sent twice in a millisecond is one path.
AskUploadUrl(k) == \E p \in Path :
  /\ BlobStart(k, [AtEase EXCEPT !.pc = "put", !.path = p])
  /\ shared' = IF p \in blobs \/ \E j \in BlobCall : blobCalls[j].path = p
               THEN shared \cup {p} ELSE shared

\* The client puts the bytes in storage ...
PutBlob(k) ==
  /\ blobCalls[k].pc = "put"
  /\ blobs' = blobs \cup {blobCalls[k].path}
  /\ BlobGo(k, [blobCalls[k] EXCEPT !.pc = "finalize"])
  /\ UNCHANGED <<avatar, files>>

\* ... and has the row inserted.
Finalize(k) == \E f \in File :
  /\ blobCalls[k].pc = "finalize" /\ files[f] = NoFile
  /\ files' = [files EXCEPT ![f] = blobCalls[k].path]
  /\ BlobGo(k, AtEase)
  /\ UNCHANGED <<avatar, blobs>>

listed(f) == files[f] \in Path

DeleteAttachment(k) == \E f \in File :
  /\ listed(f)
  /\ BlobStart(k, [AtEase EXCEPT !.pc = "load", !.file = f])
  /\ UNCHANGED shared

LoadAttachment(k) ==
  LET q == blobCalls[k]
  IN  /\ q.pc = "load"
      /\ BlobGo(k, IF listed(q.file) THEN [q EXCEPT !.pc = "delete row", !.path = files[q.file]] ELSE AtEase)
      /\ UNCHANGED <<avatar, files, blobs>>

\* The row goes first.
DeleteRow(k) ==
  LET q == blobCalls[k]
  IN  /\ q.pc = "delete row"
      /\ files' = [files EXCEPT ![q.file] = UsedFile]
      /\ BlobGo(k, [q EXCEPT !.pc = "delete blob"])
      /\ UNCHANGED <<avatar, blobs>>

DeleteBlob(k) ==
  LET q == blobCalls[k]
  IN  /\ q.pc = "delete blob"
      /\ blobs' = blobs \ {q.path}
      /\ BlobGo(k, AtEase)
      /\ UNCHANGED <<avatar, files>>

\* The card is deleted, its rows with it; nobody deletes their blobs.
DropFiles ==
  /\ blobServed < MaxBlobCalls /\ blobServed' = blobServed + 1
  /\ \E f \in File : listed(f)
  /\ files' = [f \in File |-> IF listed(f) THEN UsedFile ELSE files[f]]
  /\ UNCHANGED <<avatar, blobs, blobCalls, blobFailed, shared>>

\* A step fails, or server or client is gone.  A blob that cannot be deleted is
\* only logged.
BlobFails(k) ==
  /\ blobCalls[k].pc # "idle"
  /\ blobFailed < MaxBlobFails /\ blobFailed' = blobFailed + 1
  /\ blobCalls' = [blobCalls EXCEPT ![k] = AtEase]
  /\ UNCHANGED <<avatar, files, blobs, blobServed, shared>>

BlobNext ==
  \/ \E k \in BlobCall :
       \/ ChangeAvatar(k) \/ UploadAvatar(k) \/ setAvatarUrl(k) \/ discardPreviousAvatar(k)
       \/ AskUploadUrl(k) \/ PutBlob(k) \/ Finalize(k)
       \/ DeleteAttachment(k) \/ LoadAttachment(k) \/ DeleteRow(k) \/ DeleteBlob(k) \/ BlobFails(k)
  \/ DropFiles

BlobSpec == BlobInit /\ [][BlobNext]_blobVars

-----------------------------------------------------------------------------
(* Properties.                                                              *)

\* What is shown can be loaded, whatever uploads, replacements and deletions run
\* at once and wherever they stop: the avatar, and every attachment whose path no
\* other upload was given.
NothingDangles ==
  /\ avatar # NoPicture => avatar \in blobs
  /\ \A f \in File : listed(f) /\ files[f] \notin shared => files[f] \in blobs

\* An avatar that was replaced or removed is discarded: "returns whatever was
\* there before" (avatar.ts:110), which discardPreviousAvatar then deletes.
ReplacedAvatarsGo ==
  (blobFailed = 0 /\ \A k \in BlobCall : blobCalls[k].pc = "idle") => blobs \cap Picture \subseteq {avatar}
=============================================================================
