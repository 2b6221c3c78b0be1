------------------------------ MODULE ListingForm ------------------------------
(* CreateListingPage.jsx and EditListingPage.jsx: the form of a listing, its   *)
(* pictures, the uploads and the submission, with the handlers CreateListing,  *)
(* UpdateListing and UploadImage it calls. The two pages are one form; what    *)
(* they do not share is told apart by route.                                   *)
EXTENDS WebPage

CONSTANTS
    Required,     \* the fields that must be filled: title, description, price, category
    Files,        \* files of the user's disk
    Images,       \* those that are pictures,
    Accepted,     \* and of these, those UploadImage takes
    MaxClicks,    \* bound: submissions
    MaxLoads      \* bound: fetches of the edited listing in flight

ASSUME ListingFormAssumption ==
    /\ Accepted \subseteq Images /\ Images \subseteq Files
    /\ Files \cap {"pasted", "blank", "old"} = {}
    /\ MaxClicks \in Nat /\ MaxLoads \in Nat \ {0}

VARIABLES
    draft,      \* the state of the page
    loads,      \* fetches of the edited listing in flight
    subs,       \* submissions that are under way, each with the request it waits for
    clicks,     \* submissions begun
    failures,   \* submissions whose failure the user was told
    target,     \* what the listing at /edit is to the viewer
    rows        \* the pictures of each listing: 0 is the edited one, others by submission

formVars == <<draft, loads, subs, clicks, failures, target, rows>>

\* A file stands for the URL it gets, "pasted" for a URL that was typed, "blank"
\* for one that was typed and erased, "old" for what the listing had before.
Pictures == Files \cup {"pasted", "blank", "old"}

ListingFormTypeOK ==
    /\ draft \in [loading : BOOLEAN, refused : {"no", "notFound", "forbidden"},
                  filled : SUBSET Required, type : {"fixed", "auction"},
                  endsAt : {"none", "past", "future"}, urls : SUBSET Pictures,
                  files : SUBSET Files, previews : BOOLEAN,
                  uploading : BOOLEAN, submitting : BOOLEAN]
    /\ loads \in 0..MaxLoads
    /\ subs \subseteq
         [id : 1..MaxClicks, kind : {"create", "update"}, wanted : SUBSET Pictures,
          files : SUBSET Files, got : SUBSET Files, pictures : SUBSET Pictures,
          at : Phases \cup {"uploads", "inserts"}, left : SUBSET Pictures]
    /\ clicks \in 0..MaxClicks /\ failures \in 0..MaxClicks
    /\ target \in {"mine", "theirs", "gone"}
    /\ DOMAIN rows \subseteq 0..MaxClicks /\ \A i \in DOMAIN rows : rows[i] \subseteq Pictures

NewDraft ==
    [loading |-> FALSE, refused |-> "no", filled |-> {}, type |-> "fixed", endsAt |-> "none",
     urls |-> {}, files |-> {}, previews |-> FALSE, uploading |-> FALSE, submitting |-> FALSE]

\* The edit page is mounted asking for its listing.
ListingFormInit ==
    /\ draft = [NewDraft EXCEPT !.loading = (route = "edit")]
    /\ loads = IF route = "edit" THEN 1 ELSE 0
    /\ subs = {} /\ clicks = 0 /\ failures = 0
    /\ target \in IF route = "edit" THEN {"mine", "theirs", "gone"} ELSE {"gone"}
    /\ rows = [i \in IF target = "gone" THEN {} ELSE {0} |-> {"old"}]

-----------------------------------------------------------------------------
(* What the page shows: without a session only a link to sign in. *)

CreateForm == route = "create" /\ IsAuthenticated
EditForm   == route = "edit" /\ IsAuthenticated /\ ~draft.loading /\ draft.refused = "no"
FormShown  == CreateForm \/ EditForm

Edits(d) == draft' = d /\ UNCHANGED <<route, viewer, loads, subs, clicks, failures, target, rows>>

-----------------------------------------------------------------------------
(* The fields. *)

\* Text of a required field that passes validate, or not.
handleChange(f) ==
    FormShown /\ \E s \in {draft.filled \cup {f}, draft.filled \ {f}} :
                   Edits([draft EXCEPT !.filled = s])

ChooseType(t) == FormShown /\ Edits([draft EXCEPT !.type = t])

\* The field is there for an auction only; it keeps its date when the type changes.
ChooseEnd ==
    FormShown /\ draft.type = "auction"
    /\ \E e \in {"none", "future", "past"} : Edits([draft EXCEPT !.endsAt = e])

\* The date that was typed is reached.
TimePasses == draft.endsAt = "future" /\ Edits([draft EXCEPT !.endsAt = "past"])

Picked(fs) == Edits([draft EXCEPT !.files = @ \cup fs, !.previews = TRUE])

handleImagePick(fs) == FormShown /\ fs # {} /\ Picked(fs)
handleImageDrop(fs) == FormShown /\ fs # {} /\ fs \subseteq Images /\ Picked(fs)

RemoveAllImages ==
    /\ FormShown /\ draft.previews
    /\ Edits([draft EXCEPT !.files = {}, !.previews = FALSE, !.urls = {}])

PasteImageUrl(u) == FormShown /\ draft.files = {} /\ Edits([draft EXCEPT !.urls = {u}])

-----------------------------------------------------------------------------
(* The submission. *)

\* The edit page does not look at the date.
validate ==
    /\ draft.filled = Required
    /\ route = "create" /\ draft.type = "auction" => draft.endsAt = "future"

\* slip: the button is disabled during the uploads only
CanSubmitUploading == ~draft.uploading

CanSubmit == ~(draft.submitting \/ draft.uploading)

\* With files, each is uploaded first; without, the URL of the form is sent.
handleSubmit(kind) ==
    /\ FormShown /\ CanSubmit /\ validate /\ clicks < MaxClicks
    /\ clicks' = clicks + 1
    /\ LET fs == draft.files
           ps == IF fs # {} THEN fs ELSE draft.urls IN
         /\ subs' = subs \cup
              {[id |-> clicks + 1, kind |-> kind, wanted |-> ps, files |-> fs, got |-> {},
                pictures |-> IF fs # {} THEN {} ELSE ps, left |-> {},
                at |-> IF fs # {} THEN "uploads" ELSE "sent"]}
         /\ draft' = [draft EXCEPT !.submitting = TRUE, !.uploading = (fs # {})]
    /\ UNCHANGED <<route, viewer, loads, failures, target, rows>>

CreateSubmit == route = "create" /\ handleSubmit("create")
UpdateSubmit == route = "edit" /\ handleSubmit("update")

OnPage(d) == draft' = IF route \in {"create", "edit"} THEN d ELSE draft

\* The save leaves with the token there is by then.
Saves(s) == [s EXCEPT !.at = IF IsAuthenticated THEN "sent" ELSE "failed", !.pictures = s.got]

\* handleImageUpload: Promise.all goes on when the last answer is there.
UploadAnswered(s, f) ==
    /\ s.at = "uploads" /\ f \in (s.files \ s.got) \cap Accepted
    /\ LET t == [s EXCEPT !.got = @ \cup {f}] IN
         IF t.got = s.files
           THEN /\ subs' = Becomes(subs, s, Saves(t))
                /\ OnPage([draft EXCEPT !.urls = s.files, !.uploading = FALSE])
           ELSE subs' = Becomes(subs, s, t) /\ draft' = draft
    /\ UNCHANGED <<route, viewer, loads, clicks, failures, target, rows>>

\* slip: publish with the pictures that could be uploaded
UploadFailedSettled(s) ==
    /\ s.at = "uploads" /\ s.got # s.files
    /\ subs' = Becomes(subs, s, Saves(s))
    /\ OnPage([draft EXCEPT !.urls = s.got, !.uploading = FALSE])
    /\ UNCHANGED <<route, viewer, loads, clicks, failures, target, rows>>

\* The first upload that fails ends the submission, what was uploaded is left behind.
UploadFailed(s) ==
    /\ s.at = "uploads" /\ s.got # s.files
    /\ subs' = subs \ {s}
    /\ OnPage([draft EXCEPT !.uploading = FALSE, !.submitting = FALSE])
    /\ failures' = failures + 1
    /\ UNCHANGED <<route, viewer, loads, clicks, target, rows>>

\* To the listing, also when the user has gone elsewhere since.
SubmitAnswered(s) ==
    /\ s.at = "answered"
    /\ subs' = subs \ {s} /\ Navigate /\ draft' = NewDraft /\ loads' = 0
    /\ UNCHANGED <<viewer, clicks, failures, target, rows>>

SubmitFailed(s) ==
    /\ s.at = "failed"
    /\ subs' = subs \ {s} /\ OnPage([draft EXCEPT !.submitting = FALSE])
    /\ failures' = failures + 1
    /\ UNCHANGED <<route, viewer, loads, clicks, target, rows>>

-----------------------------------------------------------------------------
(* The server. *)

Handles(s, t) ==
    /\ subs' = Becomes(subs, s, t)
    /\ UNCHANGED <<route, viewer, draft, loads, clicks, failures, target>>

\* The row; its pictures follow one by one.
CreateListing(s) ==
    /\ s.kind = "create" /\ s.at = "sent"
    /\ rows' = [i \in DOMAIN rows \cup {s.id} |-> IF i = s.id THEN {} ELSE rows[i]]
    /\ Handles(s, [s EXCEPT !.at = "inserts", !.left = s.pictures])

\* slip: the pictures are always replaced
UpdateListingAlways(s) ==
    /\ s.kind = "update" /\ s.at = "sent"
    /\ IF target # "mine" THEN rows' = rows /\ Handles(s, [s EXCEPT !.at = "failed"])
       ELSE /\ rows' = [rows EXCEPT ![0] = {}]
            /\ Handles(s, [s EXCEPT !.at = "inserts", !.left = s.pictures])

\* Only the owner's, and the old pictures are deleted only for new ones; an error of
\* the delete is ignored.
UpdateListing(s) ==
    /\ s.kind = "update" /\ s.at = "sent"
    /\ IF target # "mine" THEN rows' = rows /\ Handles(s, [s EXCEPT !.at = "failed"])
       ELSE /\ rows' \in {rows} \cup (IF s.pictures # {} THEN {[rows EXCEPT ![0] = {}]} ELSE {})
            /\ Handles(s, [s EXCEPT !.at = "inserts", !.left = s.pictures])

\* One row of a picture; the error of an insert is ignored.
InsertImage(s, p) ==
    /\ s.at = "inserts" /\ p \in s.left
    /\ \E ps \in {{p}, {}} :
         rows' = [rows EXCEPT ![IF s.kind = "create" THEN s.id ELSE 0] = @ \cup ps]
    /\ Handles(s, [s EXCEPT !.left = @ \ {p}])

HandlerDone(s) ==
    /\ s.at = "inserts" /\ s.left = {} /\ rows' = rows
    /\ Handles(s, [s EXCEPT !.at = "answered"])

\* Refused (a title that trimming makes too short, an end that has passed), or lost
\* at any point: the request's context ends and no more pictures are inserted.
SubmitLost(s) ==
    /\ s.at \in {"sent", "inserts", "answered"} /\ rows' = rows
    /\ Handles(s, [s EXCEPT !.at = "failed", !.left = {}])

-----------------------------------------------------------------------------
(* The listing that is edited. *)

\* The effect runs for a new user object (AuthContext makes one for an avatar).
UserRenewed ==
    /\ route = "edit" /\ IsAuthenticated /\ loads < MaxLoads
    /\ loads' = loads + 1 /\ draft' = [draft EXCEPT !.loading = TRUE]
    /\ UNCHANGED <<route, viewer, subs, clicks, failures, target, rows>>

\* fetchListing puts the row over whatever was typed. The row has "images" and the
\* page reads "image_urls": no picture is shown, and the files stay.
LoadAnswered ==
    /\ loads > 0 /\ loads' = loads - 1
    /\ \/ target = "gone" /\ draft' = [draft EXCEPT !.refused = "notFound", !.loading = FALSE]
       \/ /\ target = "theirs" /\ IsAuthenticated
          /\ draft' = [draft EXCEPT !.refused = "forbidden", !.loading = FALSE]
       \/ /\ target = "mine" \/ (target = "theirs" /\ ~IsAuthenticated)
          /\ \E t \in [type : {"fixed", "auction"}, endsAt : {"none", "past", "future"}] :
               /\ t.type = "fixed" <=> t.endsAt = "none"
               /\ draft' = [draft EXCEPT !.filled = Required, !.type = t.type, !.loading = FALSE,
                              !.endsAt = t.endsAt, !.urls = {}, !.previews = FALSE]
    /\ UNCHANGED <<route, viewer, subs, clicks, failures, target, rows>>

\* The form is shown as it is, under an error.
LoadFailed ==
    /\ loads > 0 /\ loads' = loads - 1 /\ draft' = [draft EXCEPT !.loading = FALSE]
    /\ UNCHANGED <<route, viewer, subs, clicks, failures, target, rows>>

\* "Cancel", the link back and the bar above.
LeaveForm ==
    /\ route \in {"create", "edit"} /\ Navigate /\ draft' = NewDraft /\ loads' = 0
    /\ UNCHANGED <<viewer, subs, clicks, failures, target, rows>>

\* An expired token signs the user out (NotificationsContext.jsx) and stays.
FormSessionExpires ==
    /\ route \in {"create", "edit"} /\ IsAuthenticated /\ viewer' = Nobody
    /\ IF route = "edit"
         THEN loads < MaxLoads /\ loads' = loads + 1 /\ draft' = [draft EXCEPT !.loading = TRUE]
         ELSE UNCHANGED <<loads, draft>>
    /\ UNCHANGED <<route, subs, clicks, failures, target, rows>>

\* What the user does on the form.
ListingFormActs ==
    \/ \E f \in Required : handleChange(f)
    \/ \E t \in {"fixed", "auction"} : ChooseType(t)
    \/ ChooseEnd
    \/ \E fs \in SUBSET Files : handleImagePick(fs) \/ handleImageDrop(fs)
    \/ RemoveAllImages
    \/ \E u \in {"pasted", "blank"} : PasteImageUrl(u)
    \/ CreateSubmit \/ UpdateSubmit

ListingFormNext ==
    \/ FormShown /\ ListingFormActs
    \/ TimePasses
    \/ \E s \in subs :
         \/ \E f \in Files : UploadAnswered(s, f)
         \/ UploadFailed(s) \/ SubmitAnswered(s) \/ SubmitFailed(s)
         \/ CreateListing(s) \/ UpdateListing(s) \/ HandlerDone(s) \/ SubmitLost(s)
         \/ \E p \in Pictures : InsertImage(s, p)
    \/ UserRenewed \/ LoadAnswered \/ LoadFailed \/ LeaveForm \/ FormSessionExpires

-----------------------------------------------------------------------------
(* Properties. *)

\* While the form stays, a second listing is only made after the user was told that
\* the first try failed, however clicks, uploads and answers interleave.
OneListingPerTry == Cardinality(DOMAIN rows \ {0}) <= failures + 1

\* A listing is asked for with every picture that was chosen at the click, or it is
\* not asked for: uploads that finish in any order, or not, leave none out.
AskedWithAllPictures ==
    \A s \in subs : s.at \in {"sent", "inserts", "answered"} => s.pictures = s.wanted

\* A submission that comes with a picture, and one that comes with the empty URL that
\* is left of one typed and erased.
BringsPictures(s) == s.wanted \ {"blank"} # {}
ErasedUrl(s)      == s.wanted = {"blank"}

\* The edit page never learns the pictures of its listing, and yet who leaves the
\* picture fields alone loses none by saving the others: a picture is only lost to an
\* update that brings others, and what appears was asked for by an update. There is
\* one more way to lose them: a URL typed and erased is sent as an empty one, for
\* which the handler deletes every picture.
UntouchedPicturesStay ==
    [][0 \in DOMAIN rows =>
         /\ ~(rows[0] \subseteq rows'[0]) =>
              \E s \in subs : s.kind = "update" /\ (BringsPictures(s) \/ ErasedUrl(s))
         /\ \A p \in rows'[0] \ rows[0] : \E s \in subs : s.kind = "update" /\ p \in s.wanted]_
      <<route, viewer, formVars>>

=============================================================================
