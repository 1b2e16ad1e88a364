------------------------------- MODULE Assets -------------------------------
(***************************************************************************)
(* Badge logos and profile photos (app/services/badge.py, profile.py,      *)
(* cloudinary.py): a column of a row in PostgreSQL and an asset in         *)
(* Cloudinary, written one after the other without a transaction.  A logo  *)
(* is found again by its stored public id, a photo by parsing its URL.     *)
(* (Thumbnails are never uploaded by this service and are left out.)       *)
(***************************************************************************)
EXTENDS Accounts

CONSTANTS
    Logos,      \* badges, all made from one template
    MaxAssets,  \* assets that can be uploaded (a bound)
    EarlyLogos  \* the badge tables that a behaviour may begin with

VARIABLES
    badges,  \* badges[b]: [owner, live, logo], or None; a deleted badge stays as a row
    store,   \* the public ids in Cloudinary
    upload,  \* uploads so far: names are random
    leaks,   \* observation: assets that lost their row for a cause noted where it happens
    doubt    \* observation: assets cleaned up after a commit that did happen

assetVars == <<badges, store, upload, leaks, doubt>>

PublicIds == [folder : Seq(Segments), file : Nat]
Folder == <<"template-logos">>
Asset(n) == [folder |-> Folder, file |-> n]
AssetUrl(n) == [path |-> <<"cloud", "image", "upload", "v17", "template-logos">>, file |-> n]
Version(segment) == segment = "v17"

\* Mutant: the version stays in the public id.
PublicIdVersioned(url) ==
    LET after == {i \in DOMAIN url.path : url.path[i] = "upload"} IN
    IF after = {} THEN None
    ELSE [folder |-> SubSeq(url.path, (CHOOSE i \in after : TRUE) + 1, Len(url.path)),
          file |-> url.file]

(* What follows "upload", without the version and the file's extension.    *)
PublicId(url) ==
    LET after == {i \in DOMAIN url.path : url.path[i] = "upload"}
        rest == SubSeq(url.path, (CHOOSE i \in after : \A j \in after : i <= j) + 1, Len(url.path))
    IN
    IF after = {} THEN None
    ELSE [folder |-> IF rest # <<>> /\ Version(Head(rest)) THEN Tail(rest) ELSE rest,
          file |-> url.file]

Badge == [owner : Ids, live : BOOLEAN, logo : PublicIds \cup {None}]

(* Google's pictures are not in Cloudinary.  At the start every asset is    *)
(* used once.                                                               *)
ASSUME AssetsAssumption ==
    /\ MaxAssets \in Nat /\ None \notin PublicIds /\ None \notin Badge
    /\ {"cloud", "image", "upload", "v17", "template-logos"} \subseteq Segments
    /\ \A s \in Subjects : Pictures[s] # None =>
          \A i \in DOMAIN Pictures[s].path : Pictures[s].path[i] # "upload"
    /\ \A rows \in Early : \A u, v \in Ids : rows[u] # None /\ rows[v] # None =>
          /\ rows[u].photo \in {AssetUrl(1), None}
          /\ rows[u].photo = rows[v].photo => u = v \/ rows[u].photo = None
    /\ \A rows \in EarlyLogos :
          /\ rows \in [Logos -> Badge \cup {None}]
          /\ \A b, c \in Logos : rows[b] # None /\ rows[c] # None =>
                /\ rows[b].logo \in {Asset(2), None}
                /\ rows[b].logo = rows[c].logo => b = c \/ rows[b].logo = None
          /\ \A b \in Logos, users \in Early : rows[b] # None => users[rows[b].owner] # None

Photo(u) ==
    IF Exists(u) /\ accounts[u].photo # None THEN PublicId(accounts[u].photo) ELSE None
Rows(u) == {b \in Logos : badges[b] # None /\ badges[b].owner = u}
Logo(b) == IF badges[b] = None THEN None ELSE badges[b].logo

Referenced == ({Photo(u) : u \in Ids} \cup {Logo(b) : b \in Logos}) \ {None}

AssetsInit ==
    /\ RequestsInit /\ AccountsInit
    /\ badges \in EarlyLogos
    /\ store = Referenced
    /\ upload = 2
    /\ leaks = {} /\ doubt = {}

(* The assets that a request has in hand.                                  *)
Carried(p) ==
    IF pc[p] \in {"logo_commit", "photo_commit", "photo_none", "bury", "clean", "drop"}
    THEN {loc[p].new, loc[p].old} \ {None}
    ELSE IF pc[p] \in {"logos", "delete", "sweep"} THEN loc[p].ids ELSE {}

Hold(row, new, old) == [row |-> row, new |-> new, old |-> old]
----------------------------------------------------------------------------
(* Uploading: the row is loaded, with the asset to be replaced; the upload  *)
(* runs in a thread, under a new name.                                      *)
LogoLoad(p, b) ==
    /\ badges[b] # None /\ badges[b].live
    /\ Accept(p, "logo_upload", Hold(b, None, Logo(b)))
    /\ UNCHANGED accountVars /\ UNCHANGED assetVars

PhotoLoad(p, u) ==
    /\ Exists(u)
    /\ Accept(p, "photo_upload", Hold(u, None, Photo(u)))
    /\ UNCHANGED accountVars /\ UNCHANGED assetVars

Upload(p) ==
    /\ pc[p] \in {"logo_upload", "photo_upload"} /\ upload < MaxAssets
    /\ upload' = upload + 1
    /\ store' = store \cup {Asset(upload + 1)}
    /\ Goto(p, IF pc[p] = "logo_upload" THEN "logo_commit" ELSE "photo_commit",
            Hold(loc[p].row, Asset(upload + 1), loc[p].old))
    /\ UNCHANGED accountVars /\ UNCHANGED <<badges, leaks, doubt>>

(* An upload that answers with an error may still have been stored.        *)
UploadFails(p) ==
    /\ pc[p] \in {"logo_upload", "photo_upload"} /\ upload < MaxAssets
    /\ upload' = upload + 1
    /\ store' \in {store, store \cup {Asset(upload + 1)}}
    /\ leaks' = leaks \cup (store' \ store)
    /\ Finish(p)
    /\ UNCHANGED accountVars /\ UNCHANGED <<badges, doubt>>

(* The old asset is deleted last; one that another request has written     *)
(* meanwhile is lost sight of.                                             *)
\* Mutant: nothing is deleted.
DropNothing(p) == Finish(p)

DropOld(p) == IF loc[p].old = None THEN Finish(p) ELSE Goto(p, "drop", loc[p])

LogoSet(b, me) == [badges EXCEPT ![b].logo = me.new]

(* The commit may fail, also because the row has gone; or it may happen and *)
(* its answer be lost.  An error always sends the request to the clean-up.  *)
LogoCommit(p) ==
    LET b == loc[p].row IN
    /\ pc[p] = "logo_commit" /\ badges[b] # None
    /\ badges' = LogoSet(b, loc[p])
    /\ leaks' = leaks \cup ({Logo(b)} \ {None, loc[p].old})
    /\ DropOld(p)
    /\ UNCHANGED accountVars /\ UNCHANGED <<store, upload, doubt>>

LogoCommitFails(p) ==
    LET b == loc[p].row IN
    /\ pc[p] = "logo_commit"
    /\ Goto(p, "clean", loc[p])
    /\ UNCHANGED accountVars /\ UNCHANGED <<store, upload>>
    /\ \/ UNCHANGED <<badges, leaks, doubt>>
       \/ /\ badges[b] # None
          /\ badges' = LogoSet(b, loc[p])
          /\ leaks' = leaks \cup ({Logo(b)} \ {None})
          /\ doubt' = doubt \cup {loc[p].new}

Clean(p) ==
    /\ pc[p] = "clean"
    /\ store' = store \ {loc[p].new}
    /\ Finish(p)
    /\ UNCHANGED accountVars /\ UNCHANGED <<badges, upload, leaks, doubt>>

\* Mutant: the id of the upload.
Replacing(p) == loc[p].new

Replaced(p) == loc[p].old

Drop(p) ==
    /\ pc[p] = "drop"
    /\ store' = store \ {Replaced(p)}
    /\ Finish(p)
    /\ UNCHANGED accountVars /\ UNCHANGED <<badges, upload, leaks, doubt>>
----------------------------------------------------------------------------
(* A photo's column changes by upload or removal.  There is no clean-up    *)
(* when the commit fails.                                                  *)
PhotoWrite(p, url) ==
    LET u == loc[p].row IN
    /\ Exists(u)
    /\ accounts' = [accounts EXCEPT ![u].photo = url]
    /\ leaks' = leaks \cup ({Photo(u)} \ {None, loc[p].old})
    /\ DropOld(p)
    /\ UNCHANGED <<links, states, minted, born>> /\ UNCHANGED <<badges, store, upload, doubt>>

PhotoCommit(p) ==
    /\ pc[p] = "photo_commit"
    /\ PhotoWrite(p, AssetUrl(loc[p].new.file))

PhotoRemove(p, u) ==
    /\ Exists(u) /\ accounts[u].photo # None
    /\ Accept(p, "photo_none", Hold(u, None, Photo(u)))
    /\ UNCHANGED accountVars /\ UNCHANGED assetVars

PhotoNone(p) ==
    /\ pc[p] = "photo_none"
    /\ PhotoWrite(p, None)
----------------------------------------------------------------------------
BadgeLoad(p, b) ==
    /\ badges[b] # None /\ badges[b].live
    /\ Accept(p, "bury", Hold(b, None, Logo(b)))
    /\ UNCHANGED accountVars /\ UNCHANGED assetVars

BadgeBury(p) ==
    LET b == loc[p].row IN
    /\ pc[p] = "bury" /\ badges[b] # None
    /\ badges' = [badges EXCEPT ![b].live = FALSE]
    /\ DropOld(p)
    /\ UNCHANGED accountVars /\ UNCHANGED <<store, upload, leaks, doubt>>

Swept(u, ids) == [user |-> u, ids |-> ids]

(* Deleting an account: what its rows refer to is collected in two queries; *)
(* the rows go; the assets are deleted all at once, each of which may fail. *)
AccountLoad(p, u) ==
    /\ Exists(u)
    /\ Accept(p, "logos", Swept(u, {Photo(u)} \ {None}))
    /\ UNCHANGED accountVars /\ UNCHANGED assetVars

AccountLogos(p) ==
    /\ pc[p] = "logos"
    /\ Goto(p, "delete",
            Swept(loc[p].user, loc[p].ids \cup ({Logo(b) : b \in Rows(loc[p].user)} \ {None})))
    /\ UNCHANGED accountVars /\ UNCHANGED assetVars

Cascaded(u) == [s \in Subjects |-> IF links[s] = u THEN None ELSE links[s]]

AccountDelete(p) ==
    LET u == loc[p].user IN
    /\ pc[p] = "delete"
    /\ leaks' = leaks \cup (({Photo(u)} \cup {Logo(b) : b \in Rows(u)}) \ ({None} \cup loc[p].ids))
    /\ accounts' = [accounts EXCEPT ![u] = None]
    /\ links' = Cascaded(u)
    /\ badges' = [b \in Logos |-> IF b \in Rows(u) THEN None ELSE badges[b]]
    /\ Goto(p, "sweep", loc[p])
    /\ UNCHANGED <<states, minted, born>> /\ UNCHANGED <<store, upload, doubt>>

Sweep(p) ==
    /\ pc[p] = "sweep"
    /\ \E failed \in SUBSET loc[p].ids :
          /\ store' = store \ (loc[p].ids \ failed)
          /\ leaks' = leaks \cup failed
    /\ Finish(p)
    /\ UNCHANGED accountVars /\ UNCHANGED <<badges, upload, doubt>>

(* The rows of a template's badges go with it; nothing deletes their logos. *)
TemplateDelete ==
    /\ AtOnce /\ \E b \in Logos : badges[b] # None
    /\ leaks' = leaks \cup ({Logo(b) : b \in Logos} \ {None})
    /\ badges' = [b \in Logos |-> None]
    /\ UNCHANGED accountVars /\ UNCHANGED <<store, upload, doubt>>

(* A request that dies, or whose call or commit fails, leaves what it had.  *)
AssetsFail(p) ==
    /\ Carried(p) # {}
    /\ leaks' = leaks \cup Carried(p)
    /\ Finish(p)
    /\ UNCHANGED accountVars /\ UNCHANGED <<badges, store, upload, doubt>>

(* Sign-in with Google replaces the photo's URL and deletes nothing.       *)
AccountsPart ==
    /\ AccountsNext
    /\ leaks' = leaks \cup ({Photo(u) : u \in {v \in Ids :
                                Exists(v) /\ accounts'[v].photo # accounts[v].photo}} \ {None})
    /\ UNCHANGED <<badges, store, upload, doubt>>

AssetsNext ==
    \/ AccountsPart
    \/ \E p \in Procs :
          \/ \E b \in Logos : LogoLoad(p, b) \/ BadgeLoad(p, b)
          \/ \E u \in Ids : PhotoLoad(p, u) \/ PhotoRemove(p, u) \/ AccountLoad(p, u)
          \/ Upload(p) \/ UploadFails(p) \/ LogoCommit(p) \/ LogoCommitFails(p) \/ Clean(p) \/ Drop(p)
          \/ PhotoCommit(p) \/ PhotoNone(p) \/ BadgeBury(p)
          \/ AccountLogos(p) \/ AccountDelete(p) \/ Sweep(p) \/ AssetsFail(p)
    \/ TemplateDelete
----------------------------------------------------------------------------
(* What a page shows is there: the logo of a badge that has not been        *)
(* deleted, and the photo of an account, are in Cloudinary, whoever else    *)
(* uploads, removes or deletes at the same time; unless a logo's commit was *)
(* taken for a failure.                                                     *)
AssetsStored ==
    /\ \A b \in Logos : badges[b] # None /\ badges[b].live => Logo(b) \in store \cup doubt \cup {None}
    /\ \A u \in Ids : Photo(u) \in store \cup {None}

(* Once nobody is at work, every asset in Cloudinary belongs to a row, but  *)
(* for those that were lost for one of the causes noted: a call or commit   *)
(* that failed, two requests that overlapped on one row, a template's       *)
(* deletion, Google's picture.                                              *)
NothingLeaks == Quiet => store \ leaks \subseteq Referenced
=============================================================================
