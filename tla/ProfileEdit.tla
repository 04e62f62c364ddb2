---------------------------- MODULE ProfileEdit ----------------------------
(***************************************************************************)
(* Editing one's own profile: EditProfileController with                   *)
(* UserService.saveUserData and updateProfileImage, the image in Storage   *)
(* (ImageUploaderService), the User document and the copies of the image   *)
(* URL that the user's posts carry.                                        *)
(*                                                                         *)
(* A change of the image is a chain: delete the old image, upload the new  *)
(* one, ask for its URL, store the URL in the User document, then query    *)
(* the posts and rewrite their copies.  Done stays enabled while a chain   *)
(* runs, Cancel does not stop it, and the screen can be opened again from  *)
(* a profile that the chain has not updated yet.                           *)
(***************************************************************************)
EXTENDS Naturals, Sequences, FiniteSets, SequencesExt

CONSTANTS Names,        \* what the name fields can hold
          FirstName,    \* what they hold at the start
          OwnPosts,     \* the user's posts
          OldPosts,     \* those that exist from the start
          FirstImages,  \* the images to start with: Foreign, 1 or either
          MaxEditors,   \* bound on the edit screens opened
          MaxEvents     \* bound on the taps on Done and on Share, the refused
                        \* writes, failed calls and restarts, taken together

(***************************************************************************)
(* The URLs of images.  0 is one that is not in this app's Storage: the    *)
(* picture of a Google account, which Storage.reference(forURL:) traps on. *)
(***************************************************************************)
Foreign == 0
Images == 0 .. MaxEvents + 1

ASSUME ProfileEditAssumption ==
  /\ FirstName \in Names
  /\ OldPosts \subseteq OwnPosts /\ IsFiniteSet(OldPosts)
  /\ FirstImages \subseteq {Foreign, 1}
  /\ MaxEditors \in Nat
  /\ MaxEvents \in Nat

VARIABLES doc,        \* the User document
          copies,     \* ownerProfileImage of every post that exists
          stored,     \* the images in Storage
          outbox,     \* the write pipeline of the Firestore client
          handlers,   \* completions of writes waiting for the main queue
          deleting,   \* images whose deletion was asked for
          uploads,    \* uploads that run
          queries,    \* queries of the posts not yet answered, each an image
          profile,    \* ProfileController.user, what the profile shows
          tab,        \* MainTabController.user, what new posts are made of
          editors,    \* the edit screens opened so far, by age
          made,       \* the youngest image uploaded
          dones,      \* taps on Done and on Share so far
          mishaps,    \* faults so far
          disturbed,  \* auxiliary: a fault or a stale URL spoilt the last change
          late        \* auxiliary: posts shared since then with an old image

server == <<doc, copies, stored>>
storage == <<deleting, uploads, made>>
auxiliary == <<disturbed, late>>
editVars == <<server, outbox, handlers, storage, queries, profile, tab, editors,
             dones, mishaps, auxiliary>>

User == [name : Names, image : Images]

(* An edit screen; "picking" is the image picker in front of it. *)
Editor == [open : BOOLEAN, picking : BOOLEAN, user : User, infoChanged : BOOLEAN,
           picked : BOOLEAN]

(***************************************************************************)
(* A write, or the completion of one.  "editor" is the screen the          *)
(* completion belongs to, 0 when there is none.  "save" stores the whole   *)
(* user, "saveFirst" does so before a change of the image, "image" stores  *)
(* the new URL, "copy" stores it in a post and "post" adds a post.         *)
(***************************************************************************)
Write == [kind : {"save", "saveFirst", "image"}, user : User,
            editor : 0 .. MaxEditors]
           \cup [kind : {"copy", "post"}, post : OwnPosts, image : Images,
                   editor : {0}]

Callback == [kind : {"save", "saveFirst", "image"}, user : User,
               editor : 1 .. MaxEditors, failed : BOOLEAN]

Upload == [image : Images, editor : 1 .. MaxEditors, phase : {"put", "url"}]

EditInit ==
  /\ doc \in [name : {FirstName}, image : FirstImages]
  /\ copies = [p \in OldPosts |-> doc.image]
  /\ stored = {doc.image} \ {Foreign}
  /\ outbox = <<>>
  /\ handlers = <<>>
  /\ deleting = {}
  /\ uploads = {}
  /\ queries = <<>>
  /\ profile = doc
  /\ tab = doc
  /\ editors = <<>>
  /\ made = 1
  /\ dones = 0
  /\ mishaps = 0
  /\ disturbed = FALSE
  /\ late = {}

(* One more fault. *)
Fault == dones + mishaps < MaxEvents /\ mishaps' = mishaps + 1

(* Nothing is on its way, neither to the backend nor from it. *)
Quiet ==
  /\ outbox = <<>> /\ handlers = <<>> /\ queries = <<>>
  /\ deleting = {} /\ uploads = {}

(* ProfileController.showEditProfileController *)
ShowEditProfileController ==
  /\ Len(editors) < MaxEditors
  /\ \A e \in DOMAIN editors : ~editors[e].open
  /\ editors' = Append(editors, [open |-> TRUE, picking |-> FALSE,
                                 user |-> profile, infoChanged |-> FALSE,
                                 picked |-> FALSE])
  /\ UNCHANGED <<server, outbox, handlers, storage, queries, profile, tab,
                 dones, mishaps, auxiliary>>

(* The screen is there and nothing is in front of it. *)
InFront(e) == editors[e].open /\ ~editors[e].picking

HandleCancel(e) ==
  /\ InFront(e)
  /\ editors' = [editors EXCEPT ![e].open = FALSE]
  /\ UNCHANGED <<server, outbox, handlers, storage, queries, profile, tab,
                 dones, mishaps, auxiliary>>

(* A name field ends editing, with the same text or with another one. *)
UpdateUserInfo(e, n) ==
  /\ InFront(e)
  /\ editors' = [editors EXCEPT ![e].infoChanged = TRUE, ![e].user.name = n]
  /\ UNCHANGED <<server, outbox, handlers, storage, queries, profile, tab,
                 dones, mishaps, auxiliary>>

(* The image picker comes up, over the screen. *)
DidTapChangeProfilePhoto(e) ==
  /\ InFront(e)
  /\ editors' = [editors EXCEPT ![e].picking = TRUE]
  /\ UNCHANGED <<server, outbox, handlers, storage, queries, profile, tab,
                 dones, mishaps, auxiliary>>

(* It goes, with a picture or, having been cancelled, without one. *)
DidFinishPicking(e) ==
  /\ editors[e].picking
  /\ \E chosen \in BOOLEAN :
       editors' = [editors EXCEPT ![e].picking = FALSE, ![e].picked = @ \/ chosen]
  /\ UNCHANGED <<server, outbox, handlers, storage, queries, profile, tab,
                 dones, mishaps, auxiliary>>

----------------------------------------------------------------------------
(* What a write makes of the User document and of the copies. *)
Store(user, w) ==
  IF w.kind \in {"save", "saveFirst"} THEN w.user
  ELSE IF w.kind = "image" THEN [user EXCEPT !.image = w.user.image]
  ELSE user

StoreCopy(cs, w) ==
  IF w.kind = "post" \/ (w.kind = "copy" /\ w.post \in DOMAIN cs)
    THEN [p \in DOMAIN cs \cup {w.post} |-> IF p = w.post THEN w.image ELSE cs[p]]
    ELSE cs

(* The User document and the posts as the client sees them: pending writes  *)
(* count, and the youngest one of a field is the one that shows.            *)
Pending(kinds) == {i \in DOMAIN outbox : outbox[i].kind \in kinds}

LocalName ==
  LET names == Pending({"save", "saveFirst"})
  IN  IF names = {} THEN doc.name ELSE outbox[Max(names)].user.name

LocalImage ==
  LET images == Pending({"save", "saveFirst", "image"})
  IN  IF images = {} THEN doc.image ELSE outbox[Max(images)].user.image

LocalDoc == [name |-> LocalName, image |-> LocalImage]

LocalPosts == DOMAIN copies \cup {outbox[i].post : i \in Pending({"post"})}

(* The process ends and is started again: writes are restored from disk,   *)
(* completions, Storage tasks, queries and screens are gone, and fetchUser *)
(* reads the user again.                                                   *)
Die ==
  /\ outbox' = [i \in DOMAIN outbox |-> [outbox[i] EXCEPT !.editor = 0]]
  /\ handlers' = <<>>
  /\ deleting' = {}
  /\ uploads' = {}
  /\ queries' = <<>>
  /\ profile' = LocalDoc
  /\ tab' = LocalDoc
  /\ editors' = [e \in DOMAIN editors |-> [editors[e] EXCEPT !.open = FALSE,
                                                             !.picking = FALSE]]
  /\ disturbed' = (disturbed \/ ~Quiet)
  /\ UNCHANGED <<server, made, late>>

Kill == Fault /\ Die /\ UNCHANGED dones

(* UserService.updateProfileImage up to its first callback: the image the *)
(* editor knows of is deleted, then the new one is uploaded.              *)
UpdateProfileImage(e) ==
  /\ editors[e].user.image # Foreign
  /\ deleting' = deleting \cup {editors[e].user.image}
  /\ uploads' = uploads \cup {[image |-> made + 1, editor |-> e, phase |-> "put"]}
  /\ made' = made + 1
  /\ UNCHANGED <<server, outbox, queries, profile, tab, editors>>

(* Its Storage.reference(forURL:) traps on the URL of a foreign image. *)
Trap(e) == editors[e].user.image = Foreign /\ Die

SaveUserData(e, kind) ==
  outbox' = Append(outbox, [kind |-> kind, user |-> editors[e].user, editor |-> e])

(* A change of the image will restate everything about it. *)
Afresh == disturbed' = FALSE /\ late' = {}

(* Done with a new picture only. *)
DoneImage(e) ==
  /\ editors[e].picked /\ ~editors[e].infoChanged
  /\ \/ UpdateProfileImage(e) /\ Afresh /\ UNCHANGED handlers
     \/ Trap(e)

(* Done with new names only: the image URL the editor was opened with is *)
(* stored again, even when it has been replaced since.                   *)
DoneInfo(e) ==
  /\ editors[e].infoChanged /\ ~editors[e].picked
  /\ SaveUserData(e, "save")
  /\ disturbed' = (disturbed \/ editors[e].user.image # LocalImage)
  /\ UNCHANGED <<late, server, handlers, storage, queries, profile, tab, editors>>

(* Done with both: the names are stored first. *)
DoneBoth(e) ==
  /\ editors[e].infoChanged /\ editors[e].picked
  /\ SaveUserData(e, "saveFirst")
  /\ Afresh
  /\ UNCHANGED <<server, handlers, storage, queries, profile, tab, editors>>

HandleDone(e) ==
  /\ InFront(e)
  /\ dones + mishaps < MaxEvents
  /\ dones' = dones + 1
  /\ UNCHANGED mishaps
  /\ DoneImage(e) \/ DoneInfo(e) \/ DoneBoth(e)

(* A post is shared; it carries the image of MainTabController.user. *)
SharePost(p) ==
  /\ p \notin LocalPosts
  /\ dones + mishaps < MaxEvents
  /\ dones' = dones + 1
  /\ outbox' = Append(outbox,
       [kind |-> "post", post |-> p, image |-> tab.image, editor |-> 0])
  /\ late' = IF tab.image = LocalImage THEN late ELSE late \cup {p}
  /\ UNCHANGED <<server, handlers, storage, queries, profile, tab, editors,
                 mishaps, disturbed>>

----------------------------------------------------------------------------
(* Storage.  The deletion has no completion. *)
DeleteAnswer(i) ==
  /\ i \in deleting
  /\ deleting' = deleting \ {i}
  /\ stored' = stored \ {i}
  /\ UNCHANGED <<doc, copies, outbox, handlers, uploads, made, queries, profile,
                 tab, editors, dones, mishaps, auxiliary>>

DeleteError(i) ==
  /\ Fault
  /\ i \in deleting
  /\ deleting' = deleting \ {i}
  /\ UNCHANGED <<server, outbox, handlers, uploads, made, queries, profile,
                 tab, editors, dones, auxiliary>>

(* putData is through; its completion asks for the download URL. *)
PutAnswer(t) ==
  /\ t \in uploads /\ t.phase = "put"
  /\ stored' = stored \cup {t.image}
  /\ uploads' = (uploads \ {t}) \cup {[t EXCEPT !.phase = "url"]}
  /\ UNCHANGED <<doc, copies, outbox, handlers, deleting, made, queries, profile,
                 tab, editors, dones, mishaps, auxiliary>>

(* putData or downloadURL fails: the chain ends without a word. *)
UploadError(t) ==
  /\ Fault
  /\ t \in uploads
  /\ uploads' = uploads \ {t}
  /\ disturbed' = TRUE
  /\ UNCHANGED <<server, outbox, handlers, deleting, made, queries, profile,
                 tab, editors, dones, late>>

(* Mutant: the URL stored is the one the user had before. *)
UrlAnswerOld(t) ==
  /\ t \in uploads /\ t.phase = "url"
  /\ uploads' = uploads \ {t}
  /\ outbox' = Append(outbox, [kind |-> "image", editor |-> t.editor,
                               user |-> editors[t.editor].user])
  /\ UNCHANGED <<server, handlers, deleting, made, queries, profile, tab,
                 editors, dones, mishaps, auxiliary>>

(* The URL arrives and is written into the User document. *)
UrlAnswer(t) ==
  /\ t \in uploads /\ t.phase = "url"
  /\ uploads' = uploads \ {t}
  /\ outbox' = Append(outbox, [kind |-> "image", editor |-> t.editor,
       user |-> [editors[t.editor].user EXCEPT !.image = t.image]])
  /\ UNCHANGED <<server, handlers, deleting, made, queries, profile, tab,
                 editors, dones, mishaps, auxiliary>>

----------------------------------------------------------------------------
(* The front of the pipeline leaves it; its completion, if any, is queued, *)
(* with the error if there is one.                                         *)
Depart(failed) ==
  LET w == Head(outbox)
  IN  /\ outbox # <<>>
      /\ outbox' = Tail(outbox)
      /\ handlers' = IF w.editor = 0 THEN handlers
                       ELSE Append(handlers, [kind |-> w.kind, user |-> w.user,
                                              editor |-> w.editor, failed |-> failed])
      /\ UNCHANGED <<stored, storage, queries, profile, tab, editors, dones>>

CommitWrite ==
  /\ Depart(FALSE)
  /\ doc' = Store(doc, Head(outbox))
  /\ copies' = StoreCopy(copies, Head(outbox))
  /\ UNCHANGED <<mishaps, auxiliary>>

Refuse ==
  /\ Fault
  /\ Depart(TRUE)
  /\ disturbed' = TRUE
  /\ UNCHANGED <<doc, copies, late>>

(* Mutant: the screen is not dismissed. *)
WantsToUpdateStays(e, user) ==
  /\ editors' = [editors EXCEPT ![e].user = user]
  /\ profile' = user

(* EditProfileControllerDelegate: dismiss takes away the image picker if it  *)
(* is up, else the screen, and the profile shows the user it is handed.      *)
WantsToUpdate(e, user) ==
  /\ editors' = [editors EXCEPT ![e].open = @ /\ editors[e].picking,
                                ![e].picking = FALSE, ![e].user = user]
  /\ profile' = user

(* The completion of saveUserData when only the names changed.  Its error *)
(* argument is ignored, and the user handed over is the one of now.       *)
HandleSave ==
  /\ handlers # <<>>
  /\ LET h == Head(handlers)
     IN h.kind = "save" /\ WantsToUpdate(h.editor, editors[h.editor].user)
  /\ handlers' = Tail(handlers)
  /\ UNCHANGED <<server, outbox, storage, queries, tab, dones, mishaps, auxiliary>>

(* The completion of saveUserData when the image is to follow. *)
HandleSaveFirst ==
  /\ handlers # <<>>
  /\ LET h == Head(handlers)
     IN  /\ h.kind = "saveFirst"
         /\ \/ /\ UpdateProfileImage(h.editor)
               /\ handlers' = Tail(handlers)
               /\ UNCHANGED auxiliary
            \/ Trap(h.editor)
  /\ UNCHANGED <<dones, mishaps>>

(* Mutant: the URL is not put into the user that is handed over. *)
HandleImageStale ==
  /\ handlers # <<>>
  /\ LET h == Head(handlers)
     IN  /\ h.kind = "image"
         /\ queries' = Append(queries, h.user.image)
         /\ WantsToUpdate(h.editor, editors[h.editor].user)
  /\ handlers' = Tail(handlers)
  /\ UNCHANGED <<server, outbox, storage, tab, dones, mishaps, auxiliary>>

(* The completion of the write of the new URL: the query of the posts is *)
(* sent and the user handed over; after an error, neither.               *)
HandleImage ==
  /\ handlers # <<>>
  /\ LET h == Head(handlers)
     IN  /\ h.kind = "image"
         /\ \/ /\ ~h.failed
               /\ queries' = Append(queries, h.user.image)
               /\ WantsToUpdate(h.editor,
                    [editors[h.editor].user EXCEPT !.image = h.user.image])
            \/ /\ h.failed
               /\ UNCHANGED <<queries, profile, editors>>
  /\ handlers' = Tail(handlers)
  /\ UNCHANGED <<server, outbox, storage, tab, dones, mishaps, auxiliary>>

Handle == HandleSave \/ HandleSaveFirst \/ HandleImage

(* Mutant: the posts get the image the user had when the app was started. *)
QueryAnswerTab ==
  /\ queries # <<>>
  /\ queries' = Tail(queries)
  /\ LET ps == SetToSeq(LocalPosts)
     IN outbox' = outbox \o [i \in DOMAIN ps |->
          [kind |-> "copy", post |-> ps[i], image |-> tab.image, editor |-> 0]]
  /\ UNCHANGED <<server, handlers, storage, profile, tab, editors, dones, mishaps, auxiliary>>

(* The oldest query is answered: one write for every post there is now. *)
QueryAnswer ==
  /\ queries # <<>>
  /\ queries' = Tail(queries)
  /\ LET ps == SetToSeq(LocalPosts)
     IN outbox' = outbox \o [i \in DOMAIN ps |->
          [kind |-> "copy", post |-> ps[i], image |-> Head(queries), editor |-> 0]]
  /\ UNCHANGED <<server, handlers, storage, profile, tab, editors, dones, mishaps, auxiliary>>

(* The query fails and "guard let documents" gives up. *)
QueryError ==
  /\ Fault
  /\ queries # <<>>
  /\ queries' = Tail(queries)
  /\ disturbed' = TRUE
  /\ UNCHANGED <<server, outbox, handlers, storage, profile, tab, editors, dones,
                 late>>

EditNext ==
  \/ ShowEditProfileController
  \/ \E e \in DOMAIN editors :
       \/ HandleCancel(e)
       \/ DidTapChangeProfilePhoto(e)
       \/ DidFinishPicking(e)
       \/ HandleDone(e)
       \/ \E n \in Names : UpdateUserInfo(e, n)
  \/ \E p \in OwnPosts : SharePost(p)
  \/ \E i \in deleting : DeleteAnswer(i) \/ DeleteError(i)
  \/ \E t \in uploads : PutAnswer(t) \/ UrlAnswer(t) \/ UploadError(t)
  \/ CommitWrite
  \/ Refuse
  \/ Handle
  \/ QueryAnswer
  \/ QueryError
  \/ Kill

EditSpec == EditInit /\ [][EditNext]_editVars

(* The network and the main queue make progress; users need not. *)
EditFairness ==
  /\ WF_editVars(CommitWrite)
  /\ WF_editVars(Handle)
  /\ WF_editVars(\E t \in uploads : PutAnswer(t) \/ UrlAnswer(t))

EditFairSpec == EditSpec /\ EditFairness
----------------------------------------------------------------------------
(* When nothing is on its way, the User document names an image that       *)
(* exists, however many chains overlapped, were cancelled or ran on behind *)
(* a reopened screen: although each deletes the old image first, the last  *)
(* one to store a URL stores one that nobody has deleted.  The exceptions  *)
(* (disturbed) are a fault since the last change was started and a screen  *)
(* that stores its stale URL again together with new names.                *)
ImageAlive == Quiet /\ ~disturbed => doc.image \in stored \cup {Foreign}

(* Under the same conditions every post carries the image of the User      *)
(* document, unless it was shared with the old one that MainTabController  *)
(* still had after the last change: the query finds the posts that were    *)
(* shared while the chain ran.                                             *)
CopiesFollow ==
  Quiet /\ ~disturbed =>
    \A p \in DOMAIN copies : copies[p] = doc.image \/ p \in late

(* Under the same conditions the profile screen shows the image of the     *)
(* User document: the chains hand over their users in the order in which   *)
(* they stored them.                                                       *)
ProfileShowsImage == Quiet /\ ~disturbed => profile.image = doc.image

(* What a Done of that screen started is under way. *)
Promised(e) ==
  \/ \E t \in uploads : t.editor = e
  \/ \E x \in ToSet(outbox) \cup ToSet(handlers) : x.editor = e

(* Without faults, what Done started dismisses the edit screen in the end,  *)
(* through its two or three callbacks and whatever another Done started     *)
(* meanwhile.  The exception is the image picker: when it is up at the end, *)
(* dismiss takes the picker and the screen stays.                           *)
DoneDismisses ==
  \A e \in 1 .. MaxEditors :
    Promised(e) ~> \/ mishaps > 0
                   \/ e \in DOMAIN editors => ~editors[e].open \/ editors[e].picking
============================================================================
