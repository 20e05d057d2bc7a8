----------------------------- MODULE MediaStore -----------------------------
(***************************************************************************)
(* The pictures of stored messages: placeholder rows filled by a download  *)
(* that nobody waits for, content-addressed blobs, the description a media *)
(* worker writes later, the text of a message frozen when the Agent Core   *)
(* first renders it, the sticker pool, and the daily retention sweep       *)
(* (media/*.ts, jobs/generate-description.ts, database/retention.ts,       *)
(* agent/tools/collect-sticker.ts).                                        *)
(*                                                                         *)
(* Each media row belongs to one message, so both carry the same number.   *)
(* The text of a message is the description it was rendered with.          *)
(***************************************************************************)
EXTENDS Integers, FiniteSets

CONSTANTS
    Media,
    InView,       \* media of messages the watcher lets through to the Agent
    Blobs,        \* contents, by hash
    NoBlob,
    Descriptions, \* what a description model may answer
    NoCaption,       \* no description, or no frozen text
    Undescribed,  \* a message rendered without a description
    Oversize,     \* the description a file above 20 MB is stored with
    MaxMediaFaults

ASSUME MediaAssumption ==
    /\ InView \subseteq Media
    /\ NoBlob \notin Blobs
    /\ {NoCaption, Undescribed, Oversize} \cap Descriptions = {}
    /\ Cardinality({NoCaption, Undescribed, Oversize}) = 3
    /\ MaxMediaFaults \in Nat

VARIABLES
    media,       \* [Media -> "none", "row", "deleted"]: the media table
    messages,    \* the messages whose row exists
    blobOf,      \* [Media -> blob id of the row]
    blobs,       \* the media_blobs table
    touched,     \* blobs touched within the last hour
    describedAs, \* [Media -> description_raw]
    written,     \* history: [Media -> descriptions written]
    downloads,   \* pendingMediaDownloads
    generation,  \* [Media -> "no", "queued", "working"] in the media worker
    frozen,      \* [Media -> resolved_text]
    rendering,   \* [Media -> text resolved but not yet frozen]
    shown,       \* history: [Media -> texts the Agent was given]
    unfrozen,    \* history: messages whose text could not be kept
    oldMedia,    \* rows created before the retention cutoff
    sweep, spared, \* purgeOldData: its last step, and protectedIds
    collecting,  \* collect_sticker calls that found the media row
    stickers,    \* the sticker pool
    lateStickers,  \* history: stickers added while a sweep ran
    mediaFaults

pictureVars == <<media, messages, blobOf, blobs, touched, downloads>>
descriptionVars == <<describedAs, written, generation>>
textVars == <<frozen, rendering, shown, unfrozen>>
sweepVars == <<oldMedia, sweep, spared>>
stickerVars == <<collecting, stickers, lateStickers>>
mediaVars == <<pictureVars, descriptionVars, textVars, sweepVars, stickerVars, mediaFaults>>

MediaRows == {i \in Media : media[i] = "row"}
MediaFault == mediaFaults < MaxMediaFaults /\ mediaFaults' = mediaFaults + 1

MediaInit ==
    /\ media = [i \in Media |-> "none"] /\ messages = {}
    /\ blobOf = [i \in Media |-> NoBlob] /\ blobs = {} /\ touched = {}
    /\ describedAs = [i \in Media |-> NoCaption] /\ written = [i \in Media |-> 0]
    /\ downloads = {} /\ generation = [i \in Media |-> "no"]
    /\ frozen = [i \in Media |-> NoCaption] /\ rendering = [i \in Media |-> NoCaption]
    /\ shown = [i \in Media |-> {}] /\ unfrozen = {}
    /\ oldMedia = {} /\ sweep = "idle" /\ spared = {}
    /\ collecting = {} /\ stickers = {} /\ lateStickers = {} /\ mediaFaults = 0

-----------------------------------------------------------------------------
(* Pictures arrive.                                                        *)

NewRow(i) ==
    /\ media[i] = "none"
    /\ media' = [media EXCEPT ![i] = "row"]
    /\ messages' = messages \cup {i}

AttachBlob(i, b) ==
    /\ blobOf' = [blobOf EXCEPT ![i] = b]
    /\ blobs' = blobs \cup {b}
    /\ touched' = touched \cup {b}

(* The worker's scheduler hands a request for a picture that is queued or  *)
(* being described the promise of that generation.                         *)
Requested(i) == [generation EXCEPT ![i] = IF @ = "no" THEN "queued" ELSE @]

(* cacheMediaSegment: a placeholder, and a download of its own.            *)
StorePlaceholder(i) ==
    /\ NewRow(i)
    /\ downloads' = downloads \cup {i}
    /\ UNCHANGED <<blobOf, blobs, touched, descriptionVars, textVars, sweepVars, stickerVars,
                   mediaFaults>>

(* Files known to be too large keep their metadata only.                   *)
StoreOversize(i) ==
    /\ NewRow(i)
    /\ describedAs' = [describedAs EXCEPT ![i] = Oversize]
    /\ UNCHANGED <<blobOf, blobs, touched, downloads, written, generation, textVars, sweepVars,
                   stickerVars, mediaFaults>>

(* Feishu resources are downloaded before their message is stored.         *)
StoreDownloaded(i, b) ==
    /\ NewRow(i)
    /\ AttachBlob(i, b)
    /\ generation' = Requested(i)
    /\ UNCHANGED <<downloads, describedAs, written, textVars, sweepVars, stickerVars, mediaFaults>>

(* attachMediaBlob upserts the blob and updates the row in one transaction, *)
(* which fails as a whole when the row is gone.                            *)
DownloadEnds(i, b) ==
    /\ i \in downloads /\ i \in MediaRows
    /\ downloads' = downloads \ {i}
    /\ AttachBlob(i, b)
    /\ generation' = Requested(i)
    /\ UNCHANGED <<media, messages, describedAs, written, textVars, sweepVars, stickerVars,
                   mediaFaults>>

DownloadFails(i) ==
    /\ i \in downloads
    /\ \/ i \notin MediaRows /\ UNCHANGED mediaFaults
       \/ MediaFault
    /\ downloads' = downloads \ {i}
    /\ UNCHANGED <<media, messages, blobOf, blobs, touched, descriptionVars, textVars, sweepVars,
                   stickerVars>>

-----------------------------------------------------------------------------
(* Descriptions.                                                           *)

(* inspect_media asks for a description that is missing.                   *)
InspectMedia(i) ==
    /\ i \in MediaRows \cap InView /\ describedAs[i] = NoCaption /\ generation[i] = "no"
    /\ generation' = Requested(i)
    /\ UNCHANGED <<pictureVars, describedAs, written, textVars, sweepVars, stickerVars, mediaFaults>>

(* doGenerate reads the row; one without a blob, described or deleted is   *)
(* left alone.                                                             *)
StartDescribing(i) ==
    /\ generation[i] = "queued"
    /\ generation' = [generation EXCEPT ![i] =
          IF i \in MediaRows /\ describedAs[i] = NoCaption /\ blobOf[i] # NoBlob THEN "working" ELSE "no"]
    /\ UNCHANGED <<pictureVars, describedAs, written, textVars, sweepVars, stickerVars, mediaFaults>>

(* The answer is written without looking at the row again; an update of a  *)
(* deleted row throws.                                                     *)
Describe(i, text) ==
    /\ generation[i] = "working"
    /\ generation' = [generation EXCEPT ![i] = "no"]
    /\ IF i \in MediaRows
       THEN /\ describedAs' = [describedAs EXCEPT ![i] = text]
            /\ written' = [written EXCEPT ![i] = @ + 1]
       ELSE UNCHANGED <<describedAs, written>>
    /\ UNCHANGED <<pictureVars, textVars, sweepVars, stickerVars, mediaFaults>>

(* No answer, an invalid one, or the worker restarts.                      *)
DescribeFails(i) ==
    /\ generation[i] # "no"
    /\ MediaFault
    /\ generation' = [generation EXCEPT ![i] = "no"]
    /\ UNCHANGED <<pictureVars, describedAs, written, textVars, sweepVars, stickerVars>>

-----------------------------------------------------------------------------
(* ensureMessageReadyForAgent, called by the replay and the watcher, never *)
(* by both for one row at a time.                                          *)

Rendered(i) == IF describedAs[i] = NoCaption THEN Undescribed ELSE describedAs[i]
Show(i, text) == shown' = [shown EXCEPT ![i] = @ \cup {text}]

BeginRender(i) ==
    /\ i \in messages \cap InView /\ frozen[i] = NoCaption /\ rendering[i] = NoCaption
    /\ rendering' = [rendering EXCEPT ![i] = Rendered(i)]
    /\ UNCHANGED <<pictureVars, descriptionVars, frozen, shown, unfrozen, sweepVars, stickerVars,
                   mediaFaults>>

(* freezeResolvedTextIfUnset; a failure of it is logged and the text goes  *)
(* to the Agent all the same.                                              *)
FinishRender(i) ==
    /\ rendering[i] # NoCaption
    /\ \/ /\ frozen' = [frozen EXCEPT ![i] = IF i \in messages /\ @ = NoCaption THEN rendering[i] ELSE @]
          /\ Show(i, rendering[i])
          /\ UNCHANGED <<unfrozen, mediaFaults>>
       \/ /\ MediaFault
          /\ Show(i, rendering[i])
          /\ unfrozen' = unfrozen \cup {i}
          /\ UNCHANGED frozen
    /\ rendering' = [rendering EXCEPT ![i] = NoCaption]
    /\ UNCHANGED <<pictureVars, descriptionVars, sweepVars, stickerVars>>

(* Seeded fault: the text is rendered anew.                                *)
RenderedAnew(i) == Rendered(i)
(* A row rendered before is shown with the text of then.                   *)
FrozenText(i) == frozen[i]
RenderFrozen(i) ==
    /\ i \in messages /\ frozen[i] # NoCaption
    /\ Show(i, FrozenText(i))
    /\ UNCHANGED <<pictureVars, descriptionVars, frozen, rendering, unfrozen, sweepVars, stickerVars,
                   mediaFaults>>

-----------------------------------------------------------------------------
(* Stickers.                                                               *)

(* collect looks the media up, and adds the sticker after an await.        *)
BeginCollect(i) ==
    /\ i \in MediaRows \cap InView /\ i \notin collecting
    /\ collecting' = collecting \cup {i}
    /\ UNCHANGED <<pictureVars, descriptionVars, textVars, sweepVars, stickers, lateStickers, mediaFaults>>

FinishCollect(i) ==
    /\ i \in collecting
    /\ collecting' = collecting \ {i}
    /\ stickers' = stickers \cup {i}
    /\ lateStickers' = IF i \notin stickers /\ (sweep # "idle" \/ i \notin MediaRows)
                       THEN lateStickers \cup {i} ELSE lateStickers
    /\ UNCHANGED <<pictureVars, descriptionVars, textVars, sweepVars, mediaFaults>>

RemoveSticker(i) ==
    /\ i \in stickers
    /\ stickers' = stickers \ {i}
    /\ lateStickers' = lateStickers \ {i}
    /\ UNCHANGED <<pictureVars, descriptionVars, textVars, sweepVars, collecting, mediaFaults>>

-----------------------------------------------------------------------------
(* Retention: four statements with awaits in between.                      *)

MediaAges(i) ==
    /\ i \in MediaRows \ oldMedia
    /\ oldMedia' = oldMedia \cup {i}
    /\ UNCHANGED <<pictureVars, descriptionVars, textVars, sweep, spared, stickerVars, mediaFaults>>

BlobAges(b) ==
    /\ b \in touched
    /\ touched' = touched \ {b}
    /\ UNCHANGED <<media, messages, blobOf, blobs, downloads, descriptionVars, textVars, sweepVars,
                   stickerVars, mediaFaults>>

ListProtected ==
    /\ sweep = "idle"
    /\ sweep' = "listed" /\ spared' = stickers
    /\ UNCHANGED <<pictureVars, descriptionVars, textVars, oldMedia, stickerVars, mediaFaults>>

(* A message's created_at is the time it was sent, at or before the row of *)
(* its media was made.                                                     *)
DeleteMessages ==
    /\ sweep = "listed"
    /\ \E gone \in SUBSET messages :
          /\ messages \cap oldMedia \subseteq gone
          /\ messages' = messages \ gone
    /\ sweep' = "messages"
    /\ UNCHANGED <<media, blobOf, blobs, touched, downloads, descriptionVars, textVars, oldMedia,
                   spared, stickerVars, mediaFaults>>

DeleteMedia ==
    /\ sweep = "messages"
    /\ LET gone == MediaRows \cap (oldMedia \ spared)
       IN  /\ media' = [i \in Media |-> IF i \in gone THEN "deleted" ELSE media[i]]
           /\ blobOf' = [i \in Media |-> IF i \in gone THEN NoBlob ELSE blobOf[i]]
           /\ oldMedia' = oldMedia \ gone
    /\ sweep' = "media"
    /\ UNCHANGED <<messages, blobs, touched, downloads, descriptionVars, textVars, spared,
                   stickerVars, mediaFaults>>

(* Blobs of no row, not touched for an hour.                               *)
DeleteBlobs ==
    /\ sweep = "media"
    /\ blobs' = {b \in blobs : b \in touched \/ \E i \in MediaRows : blobOf[i] = b}
    /\ sweep' = "idle" /\ spared' = {}
    /\ UNCHANGED <<media, messages, blobOf, touched, downloads, descriptionVars, textVars, oldMedia,
                   stickerVars, mediaFaults>>

SweepFails ==
    /\ sweep # "idle"
    /\ MediaFault
    /\ sweep' = "idle" /\ spared' = {}
    /\ UNCHANGED <<pictureVars, descriptionVars, textVars, oldMedia, stickerVars>>

MediaNext ==
    \/ \E i \in Media :
          \/ StorePlaceholder(i) \/ StoreOversize(i)
          \/ \E b \in Blobs : StoreDownloaded(i, b) \/ DownloadEnds(i, b)
          \/ DownloadFails(i)
          \/ InspectMedia(i) \/ StartDescribing(i) \/ DescribeFails(i)
          \/ \E text \in Descriptions : Describe(i, text)
          \/ BeginRender(i) \/ FinishRender(i) \/ RenderFrozen(i)
          \/ BeginCollect(i) \/ FinishCollect(i) \/ RemoveSticker(i)
          \/ MediaAges(i)
    \/ \E b \in Blobs : BlobAges(b)
    \/ ListProtected \/ DeleteMessages \/ DeleteMedia \/ DeleteBlobs \/ SweepFails

MediaSpec == MediaInit /\ [][MediaNext]_mediaVars

-----------------------------------------------------------------------------
(* Properties.                                                             *)

(* The text of a message never changes once the Agent has seen it, though  *)
(* the description of its picture comes later, unless the text could not   *)
(* be kept.                                                                *)
ShownTextStays == \A i \in Media \ unfrozen : Cardinality(shown[i]) <= 1

(* A description is written once, and not over one made at ingress.        *)
DescribedOnce ==
    \A i \in Media : written[i] <= 1 /\ (written[i] = 1 => describedAs[i] \in Descriptions)

(* The sweep takes nothing in use: a row's blob stays, also while another  *)
(* message attaches the same content, and so does the picture of a sticker *)
(* that was in the pool when the sweep began.                              *)
UsedMediaIsKept ==
    /\ \A i \in MediaRows : blobOf[i] # NoBlob => blobOf[i] \in blobs
    /\ \A i \in stickers \ lateStickers : i \in MediaRows

MediaIsStable == ShownTextStays /\ DescribedOnce /\ UsedMediaIsKept
=============================================================================
