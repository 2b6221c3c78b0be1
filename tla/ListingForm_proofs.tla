-------------------------- MODULE ListingForm_proofs --------------------------
(* Lemmas about ListingForm, for any files, fields and submissions: its        *)
(* invariant is kept by its own steps and by those of the other pages.         *)
(* App_proofs has the theorems.                                                *)
EXTENDS ListingForm, FiniteSetTheorems, TLAPS

USE ListingFormAssumption

-----------------------------------------------------------------------------
(* The invariant. *)

OnForm == route \in {"create", "edit"}

DraftType == [loading : BOOLEAN, refused : {"no", "notFound", "forbidden"},
              filled : SUBSET Required, type : {"fixed", "auction"},
              endsAt : {"none", "past", "future"}, urls : SUBSET Pictures,
              files : SUBSET Files, previews : BOOLEAN,
              uploading : BOOLEAN, submitting : BOOLEAN]
SubType   == [id : 1..MaxClicks, kind : {"create", "update"}, wanted : SUBSET Pictures,
              files : SUBSET Files, got : SUBSET Files, pictures : SUBSET Pictures,
              at : Phases \cup {"uploads", "inserts"}, left : SUBSET Pictures]

RowOf(s) == IF s.kind = "create" THEN s.id ELSE 0

\* A submission that uploads wants its files; one that was sent wants its pictures,
\* and its inserts find the row they belong to.
SubOK(s) ==
    /\ s \in SubType /\ s.id <= clicks
    /\ s.at = "uploads" => s.files = s.wanted /\ s.got \subseteq s.files /\ s.left = {}
    /\ s.at \in {"sent", "inserts", "answered"} => s.pictures = s.wanted /\ s.left \subseteq s.wanted
    /\ s.at = "inserts" => RowOf(s) \in DOMAIN rows

\* One submission at a time. While it is under way there is one more click than
\* failures told of; before the next there is not, as long as the page stays.
OneTry ==
    /\ clicks \in 0..MaxClicks /\ failures \in 0..MaxClicks
    /\ clicks <= failures + 1 /\ failures <= clicks
    /\ OnForm /\ subs = {} => clicks = failures
    /\ subs # {} => failures < clicks /\ route \in {"create", "edit", "elsewhere"}
    /\ \A s, t \in subs : s = t
    /\ OnForm /\ subs # {} => draft.submitting
    /\ \A s \in subs : SubOK(s)

RowsOK ==
    /\ target \in {"mine", "theirs", "gone"}
    /\ target = "mine" => 0 \in DOMAIN rows
    /\ DOMAIN rows \subseteq {0} \cup 1..clicks
    /\ \A i \in DOMAIN rows : rows[i] \subseteq Pictures

FormInv == draft \in DraftType /\ loads \in 0..MaxLoads /\ OneTry /\ RowsOK

-----------------------------------------------------------------------------
(* What the invariant says. *)

LEMMA FormTyped == FormInv => ListingFormTypeOK
<1> SUFFICES ASSUME FormInv PROVE ListingFormTypeOK
  OBVIOUS
<1>1. subs \subseteq SubType
  BY DEF FormInv, OneTry, SubOK
<1>2. DOMAIN rows \subseteq 0..MaxClicks
  BY DEF FormInv, OneTry, RowsOK
<1> QED
  BY <1>1, <1>2 DEF FormInv, OneTry, RowsOK, SubType, DraftType, ListingFormTypeOK

LEMMA FormAsksWithAll == FormInv => AskedWithAllPictures
  BY DEF FormInv, OneTry, SubOK, AskedWithAllPictures

LEMMA FormOneListing == FormInv => OneListingPerTry
<1> SUFFICES ASSUME FormInv PROVE OneListingPerTry
  OBVIOUS
<1>1. DOMAIN rows \ {0} \subseteq 1..clicks /\ clicks \in Nat /\ failures \in Nat /\ clicks <= failures + 1
  BY DEF FormInv, OneTry, RowsOK
<1>2. IsFiniteSet(1..clicks) /\ Cardinality(1..clicks) = clicks
  BY <1>1, FS_Interval
<1>3. /\ Cardinality(DOMAIN rows \ {0}) <= clicks /\ Cardinality(DOMAIN rows \ {0}) \in Nat
  BY <1>1, <1>2, FS_Subset, FS_CardinalityType
<1> QED
  BY <1>1, <1>3 DEF OneListingPerTry

-----------------------------------------------------------------------------
(* Helpers. *)

\* An edit of the fields.
LEMMA EditKeeps ==
  ASSUME FormInv, NEW d \in DraftType, Edits(d), d.submitting = draft.submitting
  PROVE  FormInv'
<1>1. draft' = d /\ UNCHANGED <<route, viewer, loads, subs, clicks, failures, target, rows>>
  BY DEF Edits
<1>2. OneTry' /\ RowsOK'
  BY <1>1 DEF FormInv, OneTry, SubOK, RowsOK, OnForm
<1> QED
  BY <1>1, <1>2 DEF FormInv

LEMMA FieldSteps ==
  ASSUME FormInv
  PROVE  /\ \A f \in Required : handleChange(f) => FormInv'
         /\ \A t \in {"fixed", "auction"} : ChooseType(t) => FormInv'
         /\ ChooseEnd \/ TimePasses \/ RemoveAllImages => FormInv'
         /\ \A fs \in SUBSET Files : handleImagePick(fs) \/ handleImageDrop(fs) => FormInv'
         /\ \A u \in {"pasted", "blank"} : PasteImageUrl(u) => FormInv'
<1>0. draft \in DraftType
  BY DEF FormInv
<1>1. ASSUME NEW f \in Required, handleChange(f) PROVE FormInv'
  <2>1. PICK s \in SUBSET Required : Edits([draft EXCEPT !.filled = s])
    <3>1. draft.filled \in SUBSET Required
      BY <1>0 DEF DraftType
    <3> QED
      BY <1>1, <3>1 DEF handleChange
  <2> DEFINE d == [draft EXCEPT !.filled = s]
  <2>2. d \in DraftType /\ d.submitting = draft.submitting
    BY <1>0 DEF DraftType
  <2> HIDE DEF d
  <2> QED
    BY <2>1, <2>2, EditKeeps DEF d
<1>2. ASSUME NEW t \in {"fixed", "auction"}, ChooseType(t) PROVE FormInv'
  <2> DEFINE d == [draft EXCEPT !.type = t]
  <2>1. Edits(d) /\ d \in DraftType /\ d.submitting = draft.submitting
    BY <1>0, <1>2 DEF ChooseType, DraftType
  <2> HIDE DEF d
  <2> QED
    BY <2>1, EditKeeps
<1>3. ASSUME ChooseEnd PROVE FormInv'
  <2>1. PICK e \in {"none", "future", "past"} : Edits([draft EXCEPT !.endsAt = e])
    BY <1>3 DEF ChooseEnd
  <2> DEFINE d == [draft EXCEPT !.endsAt = e]
  <2>2. d \in DraftType /\ d.submitting = draft.submitting
    BY <1>0 DEF DraftType
  <2> HIDE DEF d
  <2> QED
    BY <2>1, <2>2, EditKeeps DEF d
<1>4. ASSUME TimePasses PROVE FormInv'
  <2> DEFINE d == [draft EXCEPT !.endsAt = "past"]
  <2>1. Edits(d) /\ d \in DraftType /\ d.submitting = draft.submitting
    BY <1>0, <1>4 DEF TimePasses, DraftType
  <2> HIDE DEF d
  <2> QED
    BY <2>1, EditKeeps
<1>5. ASSUME RemoveAllImages PROVE FormInv'
  <2> DEFINE d == [draft EXCEPT !.files = {}, !.previews = FALSE, !.urls = {}]
  <2>1. Edits(d) /\ d \in DraftType /\ d.submitting = draft.submitting
    BY <1>0, <1>5 DEF RemoveAllImages, DraftType
  <2> HIDE DEF d
  <2> QED
    BY <2>1, EditKeeps
<1>6. ASSUME NEW fs \in SUBSET Files, handleImagePick(fs) \/ handleImageDrop(fs) PROVE FormInv'
  <2> DEFINE d == [draft EXCEPT !.files = draft.files \cup fs, !.previews = TRUE]
  <2>1. Edits(d)
    BY <1>6 DEF handleImagePick, handleImageDrop, Picked
  <2>2. draft.files \cup fs \in SUBSET Files
    BY <1>0 DEF DraftType
  <2>3. d \in DraftType /\ d.submitting = draft.submitting
    BY <1>0, <2>2 DEF DraftType
  <2> HIDE DEF d
  <2> QED
    BY <2>1, <2>3, EditKeeps
<1>7. ASSUME NEW u \in {"pasted", "blank"}, PasteImageUrl(u) PROVE FormInv'
  <2> DEFINE d == [draft EXCEPT !.urls = {u}]
  <2>1. Edits(d) /\ d \in DraftType /\ d.submitting = draft.submitting
    BY <1>0, <1>7 DEF PasteImageUrl, DraftType, Pictures
  <2> HIDE DEF d
  <2> QED
    BY <2>1, EditKeeps
<1> QED
  BY <1>1, <1>2, <1>3, <1>4, <1>5, <1>6, <1>7

-----------------------------------------------------------------------------
(* The submission. *)

LEMMA SubmitSteps ==
  ASSUME FormInv, NEW kind \in {"create", "update"}, handleSubmit(kind)
  PROVE  FormInv'
<1> DEFINE fs == draft.files
           ps == IF fs # {} THEN fs ELSE draft.urls
<1> PICK n : n = [id |-> clicks + 1, kind |-> kind, wanted |-> ps, files |-> fs, got |-> {},
                  pictures |-> IF fs # {} THEN {} ELSE ps, left |-> {},
                  at |-> IF fs # {} THEN "uploads" ELSE "sent"]
  OBVIOUS
<1>0. /\ draft \in DraftType /\ fs \in SUBSET Files /\ ps \in SUBSET Pictures
      /\ clicks \in 0..MaxClicks /\ failures \in 0..MaxClicks
  BY DEF FormInv, DraftType, OneTry, Pictures
<1>1. /\ clicks < MaxClicks /\ clicks' = clicks + 1 /\ subs' = subs \cup {n}
      /\ draft' = [draft EXCEPT !.submitting = TRUE, !.uploading = (fs # {})]
      /\ UNCHANGED <<route, viewer, loads, failures, target, rows>>
  BY DEF handleSubmit
<1>2. OnForm /\ subs = {} /\ clicks = failures
  <2>1. OnForm /\ ~draft.submitting
    BY DEF handleSubmit, FormShown, CreateForm, EditForm, CanSubmit, OnForm
  <2> QED
    BY <2>1 DEF FormInv, OneTry
<1>3. n \in SubType
  <2>1. clicks + 1 \in 1..MaxClicks
    BY <1>0, <1>1
  <2>2. (IF fs # {} THEN {} ELSE ps) \in SUBSET Pictures /\ {} \in SUBSET Files /\ {} \in SUBSET Pictures
    BY <1>0
  <2>3. (IF fs # {} THEN "uploads" ELSE "sent") \in Phases \cup {"uploads", "inserts"}
    BY DEF Phases
  <2> QED
    BY <1>0, <2>1, <2>2, <2>3 DEF SubType
<1>4. /\ n.id = clicks + 1 /\ n.files = fs /\ n.got = {} /\ n.left = {}
      /\ fs # {} => n.at = "uploads" /\ n.wanted = fs
      /\ fs = {} => n.at = "sent" /\ n.pictures = n.wanted
  OBVIOUS
<1> HIDE DEF fs, ps
<1>5. SubOK(n)'
  <2>1. clicks' = clicks + 1 /\ clicks + 1 <= clicks + 1
    BY <1>0, <1>1
  <2>2. CASE fs # {}
    BY <1>3, <1>4, <2>1, <2>2 DEF SubOK
  <2>3. CASE fs = {}
    BY <1>3, <1>4, <2>1, <2>3 DEF SubOK
  <2> QED
    BY <2>2, <2>3
<1>6. draft' \in DraftType /\ draft'.submitting
  <2>1. (fs # {}) \in BOOLEAN
    OBVIOUS
  <2> QED
    BY <1>0, <1>1, <2>1 DEF DraftType
<1>7. clicks' \in 0..MaxClicks /\ failures' < clicks' /\ clicks' <= failures' + 1 /\ failures' <= clicks'
  BY <1>0, <1>1, <1>2
<1>8. OneTry'
  <2>1. subs' = {n} /\ UNCHANGED route /\ route \in {"create", "edit", "elsewhere"}
    BY <1>1, <1>2 DEF OnForm
  <2>2. failures' \in 0..MaxClicks
    BY <1>0, <1>1
  <2> QED
    BY <1>5, <1>6, <1>7, <2>1, <2>2 DEF OneTry
<1>9. RowsOK'
  BY <1>0, <1>1 DEF FormInv, RowsOK
<1> QED
  BY <1>1, <1>6, <1>8, <1>9 DEF FormInv

\* A request of a submission that goes on, on the page or without it.
LEMMA SubBecomes ==
  ASSUME FormInv, NEW s \in subs, NEW t, subs' = Becomes(subs, s, t), SubOK(t)',
         UNCHANGED <<route, clicks, failures>>,
         OnForm => draft'.submitting = draft.submitting
  PROVE  OneTry'
<1>1. subs = {s} /\ subs' = {t}
  BY DEF FormInv, OneTry, Becomes
<1> QED
  BY <1>1 DEF FormInv, OneTry, OnForm

\* A submission that fails: the user is told.
LEMMA SubFails ==
  ASSUME FormInv, NEW s \in subs, subs' = subs \ {s}, failures' = failures + 1,
         UNCHANGED <<route, clicks>>
  PROVE  OneTry'
<1>1. subs' = {}
  BY DEF FormInv, OneTry
<1>2. clicks \in 0..MaxClicks /\ failures \in 0..MaxClicks /\ clicks <= failures + 1 /\ failures < clicks
  BY DEF FormInv, OneTry
<1>3. failures' \in 0..MaxClicks /\ clicks' = failures' /\ clicks' <= failures' + 1 /\ failures' <= clicks'
  BY <1>2
<1> QED
  BY <1>1, <1>2, <1>3 DEF OneTry, OnForm

\* The page is left: the submission goes on, or ended with it.
LEMMA FormLeft ==
  ASSUME FormInv, route' = "elsewhere", subs' \subseteq subs,
         draft' = NewDraft, loads' = 0, UNCHANGED <<clicks, failures, target, rows>>
  PROVE  FormInv'
<1>1. NewDraft \in DraftType
  BY DEF NewDraft, DraftType
<1>2. OneTry' /\ RowsOK'
  BY DEF FormInv, OneTry, RowsOK, OnForm, SubOK
<1> QED
  BY <1>1, <1>2 DEF FormInv

LEMMA OnPageTyped ==
  ASSUME FormInv, NEW d \in DraftType, OnPage(d)
  PROVE  draft' \in DraftType /\ (OnForm => draft' = d)
  BY DEF FormInv, OnPage, OnForm

LEMMA UploadSteps ==
  ASSUME FormInv, NEW s \in subs
  PROVE  /\ \A f \in Files : UploadAnswered(s, f) => FormInv'
         /\ UploadFailed(s) => FormInv'
         /\ SubmitAnswered(s) => FormInv'
         /\ SubmitFailed(s) => FormInv'
<1>0. /\ SubOK(s) /\ s \in SubType /\ s.files \in SUBSET Files /\ s.got \in SUBSET Files
      /\ draft \in DraftType /\ OneTry /\ RowsOK /\ loads \in 0..MaxLoads
  BY DEF FormInv, OneTry, SubOK, SubType
<1>1. RowsOK /\ UNCHANGED <<clicks, target, rows>> => RowsOK'
  BY DEF RowsOK
<1>2. ASSUME NEW f \in Files, UploadAnswered(s, f) PROVE FormInv'
  <2> DEFINE t == [s EXCEPT !.got = s.got \cup {f}]
  <2>1. /\ s.at = "uploads" /\ f \in s.files
        /\ UNCHANGED <<route, viewer, loads, clicks, failures, target, rows>>
    BY <1>2 DEF UploadAnswered
  <2>2. /\ t \in SubType /\ t.id = s.id /\ t.at = "uploads" /\ t.files = s.files
        /\ t.wanted = s.wanted /\ t.got = s.got \cup {f} /\ s.got \subseteq s.files /\ s.files = s.wanted
        /\ t.left = s.left /\ s.left = {}
    BY <1>0, <2>1 DEF SubType, SubOK
  <2>3. CASE t.got = s.files
    <3> PICK u : u = Saves(t)
      OBVIOUS
    <3>1. /\ subs' = Becomes(subs, s, u)
          /\ OnPage([draft EXCEPT !.urls = s.files, !.uploading = FALSE])
      BY <1>2, <2>3 DEF UploadAnswered
    <3> DEFINE d == [draft EXCEPT !.urls = s.files, !.uploading = FALSE]
    <3>2. d \in DraftType /\ d.submitting = draft.submitting
      BY <1>0 DEF DraftType, Pictures
    <3>3. /\ u \in SubType /\ u.id = s.id /\ u.at \in {"sent", "failed"}
          /\ u.pictures = s.files /\ u.wanted = s.wanted /\ u.left = s.left
      <4>1. u = [t EXCEPT !.at = IF IsAuthenticated THEN "sent" ELSE "failed", !.pictures = s.files]
        BY <2>3 DEF Saves
      <4>2. t.left = s.left
        BY <1>0 DEF SubType
      <4> HIDE DEF t
      <4> QED
        BY <1>0, <2>2, <4>1, <4>2 DEF SubType, Phases, Pictures
    <3> HIDE DEF d, t
    <3>4. draft' \in DraftType /\ (OnForm => draft'.submitting = draft.submitting)
      BY <3>1, <3>2, OnPageTyped DEF d
    <3>5. SubOK(u)'
      BY <1>0, <2>1, <2>2, <3>3 DEF SubOK
    <3>6. OneTry'
      BY <2>1, <3>1, <3>4, <3>5, SubBecomes
    <3> QED
      BY <1>0, <1>1, <2>1, <3>4, <3>6 DEF FormInv
  <2>4. CASE t.got # s.files
    <3>1. subs' = Becomes(subs, s, t) /\ draft' = draft
      BY <1>2, <2>4 DEF UploadAnswered
    <3> HIDE DEF t
    <3>2. SubOK(t)'
      BY <1>0, <2>1, <2>2 DEF SubOK
    <3>3. OneTry'
      BY <2>1, <3>1, <3>2, SubBecomes
    <3> QED
      BY <1>0, <1>1, <2>1, <3>1, <3>3 DEF FormInv
  <2> QED
    BY <2>3, <2>4
<1>3. ASSUME UploadFailed(s) PROVE FormInv'
  <2> DEFINE d == [draft EXCEPT !.uploading = FALSE, !.submitting = FALSE]
  <2>1. d \in DraftType
    BY <1>0 DEF DraftType
  <2>2. /\ OnPage(d) /\ subs' = subs \ {s} /\ failures' = failures + 1
        /\ UNCHANGED <<route, viewer, loads, clicks, target, rows>>
    BY <1>3 DEF UploadFailed
  <2> HIDE DEF d
  <2>3. draft' \in DraftType /\ OneTry'
    BY <2>1, <2>2, OnPageTyped, SubFails
  <2> QED
    BY <1>0, <1>1, <2>2, <2>3 DEF FormInv
<1>4. ASSUME SubmitFailed(s) PROVE FormInv'
  <2> DEFINE d == [draft EXCEPT !.submitting = FALSE]
  <2>1. d \in DraftType
    BY <1>0 DEF DraftType
  <2>2. /\ OnPage(d) /\ subs' = subs \ {s} /\ failures' = failures + 1
        /\ UNCHANGED <<route, viewer, loads, clicks, target, rows>>
    BY <1>4 DEF SubmitFailed
  <2> HIDE DEF d
  <2>3. draft' \in DraftType /\ OneTry'
    BY <2>1, <2>2, OnPageTyped, SubFails
  <2> QED
    BY <1>0, <1>1, <2>2, <2>3 DEF FormInv
<1>5. ASSUME SubmitAnswered(s) PROVE FormInv'
  BY <1>5, FormLeft DEF SubmitAnswered, Navigate
<1> QED
  BY <1>2, <1>3, <1>4, <1>5

LEMMA HandlerSteps ==
  ASSUME FormInv, NEW s \in subs
  PROVE  /\ CreateListing(s) \/ UpdateListing(s) => FormInv'
         /\ HandlerDone(s) \/ SubmitLost(s) => FormInv'
         /\ \A p \in Pictures : InsertImage(s, p) => FormInv'
<1>0. /\ SubOK(s) /\ s \in SubType /\ draft \in DraftType /\ OneTry /\ RowsOK
      /\ loads \in 0..MaxLoads /\ s.id \in 1..clicks /\ s.left \subseteq Pictures /\ s.pictures \subseteq Pictures
  BY DEF FormInv, OneTry, SubOK, SubType
<1>1. ASSUME NEW t, Handles(s, t), SubOK(t)', RowsOK' PROVE FormInv'
  <2>1. /\ subs' = Becomes(subs, s, t)
        /\ UNCHANGED <<route, viewer, draft, loads, clicks, failures, target>>
    BY <1>1 DEF Handles
  <2>2. OneTry'
    BY <1>1, <2>1, SubBecomes
  <2> QED
    BY <1>0, <1>1, <2>1, <2>2 DEF FormInv
<1>2. ASSUME NEW t, Handles(s, t), rows' = rows PROVE RowsOK'
  BY <1>0, <1>2 DEF Handles, RowsOK
<1> DEFINE ins == [s EXCEPT !.at = "inserts", !.left = s.pictures]
           lost == [s EXCEPT !.at = "failed", !.left = {}]
           fail == [s EXCEPT !.at = "failed"]
           done == [s EXCEPT !.at = "answered"]
<1>3. /\ ins \in SubType /\ ins.id = s.id /\ ins.kind = s.kind /\ ins.at = "inserts"
      /\ ins.left = s.pictures /\ ins.pictures = s.pictures /\ ins.wanted = s.wanted
  BY <1>0 DEF SubType, Phases
<1>4. /\ lost \in SubType /\ lost.id = s.id /\ lost.at = "failed"
      /\ fail \in SubType /\ fail.id = s.id /\ fail.at = "failed"
      /\ done \in SubType /\ done.id = s.id /\ done.at = "answered" /\ done.left = s.left
      /\ done.pictures = s.pictures /\ done.wanted = s.wanted
  BY <1>0 DEF SubType, Phases
<1>5. ASSUME CreateListing(s) PROVE FormInv'
  <2>1. /\ s.kind = "create" /\ s.at = "sent" /\ Handles(s, ins)
        /\ rows' = [i \in DOMAIN rows \cup {s.id} |-> IF i = s.id THEN {} ELSE rows[i]]
        /\ UNCHANGED <<clicks, target>>
    BY <1>5 DEF CreateListing, Handles
  <2> HIDE DEF ins
  <2>2. RowsOK'
    BY <1>0, <2>1 DEF RowsOK
  <2>3. SubOK(ins)'
    BY <1>0, <1>3, <2>1 DEF SubOK, RowOf
  <2> QED
    BY <1>1, <2>1, <2>2, <2>3
<1>6. ASSUME UpdateListing(s) PROVE FormInv'
  <2>1. s.kind = "update" /\ s.at = "sent"
    BY <1>6 DEF UpdateListing
  <2>2. CASE target # "mine"
    <3>1. rows' = rows /\ Handles(s, fail) /\ UNCHANGED clicks
      BY <1>6, <2>2 DEF UpdateListing, Handles
    <3> HIDE DEF fail
    <3>2. SubOK(fail)'
      BY <1>0, <1>4, <3>1 DEF SubOK
    <3> QED
      BY <1>1, <1>2, <3>1, <3>2
  <2>3. CASE target = "mine"
    <3>1. /\ rows' = rows \/ rows' = [rows EXCEPT ![0] = {}]
          /\ Handles(s, ins) /\ UNCHANGED <<clicks, target>>
      BY <1>6, <2>3 DEF UpdateListing, Handles
    <3> HIDE DEF ins
    <3>2. DOMAIN rows' = DOMAIN rows /\ \A i \in DOMAIN rows : rows'[i] \subseteq Pictures
      BY <1>0, <3>1 DEF RowsOK
    <3>3. RowsOK'
      BY <1>0, <3>1, <3>2 DEF RowsOK
    <3>4. SubOK(ins)'
      BY <1>0, <1>3, <2>1, <2>3, <3>1, <3>2 DEF SubOK, RowOf, RowsOK
    <3> QED
      BY <1>1, <3>1, <3>3, <3>4
  <2> QED
    BY <2>2, <2>3
<1>7. ASSUME HandlerDone(s) PROVE FormInv'
  <2>1. s.at = "inserts" /\ rows' = rows /\ Handles(s, done) /\ UNCHANGED clicks
    BY <1>7 DEF HandlerDone, Handles
  <2> HIDE DEF done
  <2>2. SubOK(done)'
    BY <1>0, <1>4, <2>1 DEF SubOK
  <2> QED
    BY <1>1, <1>2, <2>1, <2>2
<1>8. ASSUME SubmitLost(s) PROVE FormInv'
  <2>1. rows' = rows /\ Handles(s, lost) /\ UNCHANGED clicks
    BY <1>8 DEF SubmitLost, Handles
  <2> HIDE DEF lost
  <2>2. SubOK(lost)'
    BY <1>0, <1>4, <2>1 DEF SubOK
  <2> QED
    BY <1>1, <1>2, <2>1, <2>2
<1>9. ASSUME NEW p \in Pictures, InsertImage(s, p) PROVE FormInv'
  <2> DEFINE t == [s EXCEPT !.left = s.left \ {p}]
  <2>1. s.at = "inserts" /\ p \in s.left /\ Handles(s, t) /\ UNCHANGED <<clicks, target>>
    BY <1>9 DEF InsertImage, Handles
  <2>2. PICK ps \in {{p}, {}} : rows' = [rows EXCEPT ![RowOf(s)] = rows[RowOf(s)] \cup ps]
    BY <1>9 DEF InsertImage, RowOf
  <2>3. DOMAIN rows' = DOMAIN rows /\ \A i \in DOMAIN rows : rows'[i] \subseteq Pictures
    BY <1>0, <2>2 DEF RowsOK
  <2>4. RowsOK'
    BY <1>0, <2>1, <2>3 DEF RowsOK
  <2>5. /\ t \in SubType /\ t.id = s.id /\ t.kind = s.kind /\ t.at = s.at
        /\ t.left \subseteq s.left /\ t.pictures = s.pictures /\ t.wanted = s.wanted
    BY <1>0 DEF SubType
  <2> HIDE DEF t
  <2>6. SubOK(t)'
    BY <1>0, <2>1, <2>3, <2>5 DEF SubOK, RowOf
  <2> QED
    BY <1>1, <2>1, <2>4, <2>6
<1> QED
  BY <1>5, <1>6, <1>7, <1>8, <1>9

LEMMA LoadSteps ==
  ASSUME FormInv
  PROVE  UserRenewed \/ LoadAnswered \/ LoadFailed \/ FormSessionExpires \/ LeaveForm => FormInv'
<1>0. draft \in DraftType /\ loads \in 0..MaxLoads /\ OneTry /\ RowsOK
  BY DEF FormInv
<1>1. ASSUME NEW d \in DraftType, draft' = d, d.submitting = draft.submitting, loads' \in 0..MaxLoads,
             UNCHANGED <<route, subs, clicks, failures, target, rows>>
      PROVE  FormInv'
  <2>1. OneTry' /\ RowsOK'
    BY <1>0, <1>1 DEF OneTry, SubOK, RowsOK, OnForm
  <2> QED
    BY <1>1, <2>1 DEF FormInv
<1>2. loads < MaxLoads => loads + 1 \in 0..MaxLoads
  BY <1>0
<1>3. loads > 0 => loads - 1 \in 0..MaxLoads
  BY <1>0
<1> DEFINE busy == [draft EXCEPT !.loading = TRUE]
           idle == [draft EXCEPT !.loading = FALSE]
<1>4. /\ busy \in DraftType /\ busy.submitting = draft.submitting
      /\ idle \in DraftType /\ idle.submitting = draft.submitting
  BY <1>0 DEF DraftType
<1> HIDE DEF busy, idle
<1>5. ASSUME UserRenewed PROVE FormInv'
  <2>1. draft' = busy /\ loads' \in 0..MaxLoads /\ UNCHANGED <<route, subs, clicks, failures, target, rows>>
    BY <1>2, <1>5 DEF UserRenewed, busy
  <2> QED
    BY <1>1, <1>4, <2>1
<1>6. ASSUME LoadFailed PROVE FormInv'
  <2>1. draft' = idle /\ loads' \in 0..MaxLoads /\ UNCHANGED <<route, subs, clicks, failures, target, rows>>
    BY <1>3, <1>6 DEF LoadFailed, idle
  <2> QED
    BY <1>1, <1>4, <2>1
<1>7. ASSUME FormSessionExpires PROVE FormInv'
  <2>1. /\ draft' = busy \/ draft' = draft
        /\ loads' \in 0..MaxLoads /\ UNCHANGED <<route, subs, clicks, failures, target, rows>>
    BY <1>0, <1>2, <1>7 DEF FormSessionExpires, busy
  <2> QED
    BY <1>0, <1>1, <1>4, <2>1
<1>8. ASSUME LoadAnswered PROVE FormInv'
  <2>1. loads' \in 0..MaxLoads /\ UNCHANGED <<route, subs, clicks, failures, target, rows>>
    BY <1>3, <1>8 DEF LoadAnswered
  <2>2. PICK d : draft' = d
    OBVIOUS
  <2>3. d \in DraftType /\ d.submitting = draft.submitting
    <3>1. CASE d = [draft EXCEPT !.refused = "notFound", !.loading = FALSE]
      BY <1>0, <3>1 DEF DraftType
    <3>2. CASE d = [draft EXCEPT !.refused = "forbidden", !.loading = FALSE]
      BY <1>0, <3>2 DEF DraftType
    <3>3. ASSUME NEW t \in [type : {"fixed", "auction"}, endsAt : {"none", "past", "future"}],
                 d = [draft EXCEPT !.filled = Required, !.type = t.type, !.loading = FALSE,
                        !.endsAt = t.endsAt, !.urls = {}, !.previews = FALSE]
          PROVE  d \in DraftType /\ d.submitting = draft.submitting
      BY <1>0, <3>3 DEF DraftType
    <3> QED
      BY <1>8, <2>2, <3>1, <3>2, <3>3 DEF LoadAnswered
  <2> QED
    BY <1>1, <2>1, <2>2, <2>3
<1>9. ASSUME LeaveForm PROVE FormInv'
  BY <1>9, FormLeft DEF LeaveForm, Navigate
<1> QED
  BY <1>5, <1>6, <1>7, <1>8, <1>9

-----------------------------------------------------------------------------
(* The invariant holds at the start, through its own steps and the others'. *)

LEMMA FormStart == route \in Routes /\ ListingFormInit => FormInv
<1> SUFFICES ASSUME route \in Routes, ListingFormInit PROVE FormInv
  OBVIOUS
<1>1. draft \in DraftType
  <2>1. draft = [NewDraft EXCEPT !.loading = (route = "edit")] /\ (route = "edit") \in BOOLEAN
    BY DEF ListingFormInit
  <2> QED
    BY <2>1 DEF NewDraft, DraftType
<1>2. loads \in 0..MaxLoads
  BY DEF ListingFormInit
<1>3. OneTry
  BY DEF ListingFormInit, OneTry
<1>4. RowsOK
  <2>1. /\ rows = [i \in IF target = "gone" THEN {} ELSE {0} |-> {"old"}]
        /\ target \in {"mine", "theirs", "gone"} /\ clicks = 0
    BY DEF ListingFormInit
  <2>2. DOMAIN rows = IF target = "gone" THEN {} ELSE {0}
    BY <2>1
  <2>3. \A i \in DOMAIN rows : rows[i] = {"old"}
    BY <2>1
  <2> QED
    BY <2>1, <2>2, <2>3 DEF RowsOK, Pictures
<1> QED
  BY <1>1, <1>2, <1>3, <1>4 DEF FormInv

LEMMA FormStep == FormInv /\ ListingFormNext => FormInv'
<1> SUFFICES ASSUME FormInv, ListingFormNext PROVE FormInv'
  OBVIOUS
<1>1. ASSUME CreateSubmit \/ UpdateSubmit PROVE FormInv'
  BY <1>1, SubmitSteps DEF CreateSubmit, UpdateSubmit
<1>2. ASSUME NEW s \in subs,
             \/ \E f \in Files : UploadAnswered(s, f)
             \/ UploadFailed(s) \/ SubmitAnswered(s) \/ SubmitFailed(s)
      PROVE  FormInv'
  BY <1>2, UploadSteps
<1>3. ASSUME NEW s \in subs,
             \/ CreateListing(s) \/ UpdateListing(s) \/ HandlerDone(s) \/ SubmitLost(s)
             \/ \E p \in Pictures : InsertImage(s, p)
      PROVE  FormInv'
  BY <1>3, HandlerSteps
<1> QED
  BY <1>1, <1>2, <1>3, FieldSteps, LoadSteps DEF ListingFormActs, ListingFormNext

\* Another page is shown, or is left.
LEMMA FormStutter ==
  ASSUME FormInv, UNCHANGED formVars,
         \/ route' = route
         \/ route \notin {"create", "edit"} /\ route' = "elsewhere"
  PROVE  FormInv'
<1>1. UNCHANGED <<draft, loads, subs, clicks, failures, target, rows>>
  BY DEF formVars
<1>2. RowsOK'
  BY <1>1 DEF FormInv, RowsOK
<1>3. OneTry'
  BY <1>1 DEF FormInv, OneTry, SubOK, OnForm
<1> QED
  BY <1>1, <1>2, <1>3 DEF FormInv

\* The form's steps are made on its page, or after it.
LEMMA FormRoute ==
  ASSUME FormInv, ListingFormNext
  PROVE  /\ route' = route \/ (route \in {"create", "edit", "elsewhere"} /\ route' = "elsewhere")
         /\ viewer' = viewer \/ viewer' = Nobody
<1>1. subs # {} => route \in {"create", "edit", "elsewhere"}
  BY DEF FormInv, OneTry
<1>2. ASSUME NEW f \in Required, handleChange(f) PROVE UNCHANGED <<route, viewer>>
  BY <1>2 DEF handleChange, Edits
<1>3. ASSUME NEW t \in {"fixed", "auction"}, ChooseType(t) PROVE UNCHANGED <<route, viewer>>
  BY <1>3 DEF ChooseType, Edits
<1>4. ASSUME ChooseEnd \/ TimePasses \/ RemoveAllImages PROVE UNCHANGED <<route, viewer>>
  BY <1>4 DEF ChooseEnd, TimePasses, RemoveAllImages, Edits
<1>5. ASSUME NEW fs \in SUBSET Files, handleImagePick(fs) \/ handleImageDrop(fs)
      PROVE  UNCHANGED <<route, viewer>>
  BY <1>5 DEF handleImagePick, handleImageDrop, Picked, Edits
<1>6. ASSUME NEW u \in {"pasted", "blank"}, PasteImageUrl(u) PROVE UNCHANGED <<route, viewer>>
  BY <1>6 DEF PasteImageUrl, Edits
<1>7. ASSUME CreateSubmit \/ UpdateSubmit PROVE UNCHANGED <<route, viewer>>
  BY <1>7 DEF CreateSubmit, UpdateSubmit, handleSubmit
<1>8. ASSUME NEW s \in subs,
             \/ \E f \in Files : UploadAnswered(s, f)
             \/ UploadFailed(s) \/ SubmitFailed(s)
      PROVE  UNCHANGED <<route, viewer>>
  BY <1>8 DEF UploadAnswered, UploadFailed, SubmitFailed
<1>9. ASSUME NEW s \in subs, SubmitAnswered(s) PROVE route' = "elsewhere" /\ viewer' = viewer
  BY <1>9 DEF SubmitAnswered, Navigate
<1>10. ASSUME NEW s \in subs,
              \/ CreateListing(s) \/ UpdateListing(s) \/ HandlerDone(s) \/ SubmitLost(s)
              \/ \E p \in Pictures : InsertImage(s, p)
       PROVE  UNCHANGED <<route, viewer>>
  <2>1. ASSUME NEW t, Handles(s, t) PROVE UNCHANGED <<route, viewer>>
    BY <2>1 DEF Handles
  <2> QED
    BY <1>10, <2>1 DEF CreateListing, UpdateListing, HandlerDone, SubmitLost, InsertImage
<1>11. ASSUME UserRenewed \/ LoadAnswered \/ LoadFailed PROVE UNCHANGED <<route, viewer>>
  BY <1>11 DEF UserRenewed, LoadAnswered, LoadFailed
<1>12. ASSUME LeaveForm
       PROVE  route \in {"create", "edit"} /\ route' = "elsewhere" /\ viewer' = viewer
  BY <1>12 DEF LeaveForm, Navigate
<1>13. ASSUME FormSessionExpires PROVE route' = route /\ viewer' = Nobody
  BY <1>13 DEF FormSessionExpires
<1> QED
  BY <1>1, <1>2, <1>3, <1>4, <1>5, <1>6, <1>7, <1>8, <1>9, <1>10, <1>11, <1>12, <1>13
     DEF ListingFormActs, ListingFormNext

-----------------------------------------------------------------------------
(* The pictures of the edited listing change only for a save that wants some. *)

LEMMA UntouchedStep ==
  ASSUME FormInv, ListingFormNext, 0 \in DOMAIN rows, rows'[0] # rows[0]
  PROVE  \E s \in subs : /\ s.kind = "update"
                         /\ BringsPictures(s) \/ ErasedUrl(s)
                         /\ rows'[0] \ rows[0] \subseteq s.wanted
<1>1. PICK s \in subs :
        CreateListing(s) \/ UpdateListing(s) \/ \E p \in Pictures : InsertImage(s, p)
  <2>1. ASSUME NEW d, Edits(d) PROVE FALSE
    BY <2>1 DEF Edits
  <2>2. ASSUME NEW s \in subs, NEW t, Handles(s, t), rows' = rows PROVE FALSE
    BY <2>2
  <2>3. ~\E f \in Required : handleChange(f)
    BY <2>1 DEF handleChange
  <2>4. ~\E t \in {"fixed", "auction"} : ChooseType(t)
    BY <2>1 DEF ChooseType
  <2>5. ~(ChooseEnd \/ TimePasses \/ RemoveAllImages)
    BY <2>1 DEF ChooseEnd, TimePasses, RemoveAllImages
  <2>6. ~\E fs \in SUBSET Files : handleImagePick(fs) \/ handleImageDrop(fs)
    BY <2>1 DEF handleImagePick, handleImageDrop, Picked
  <2>7. ~\E u \in {"pasted", "blank"} : PasteImageUrl(u)
    BY <2>1 DEF PasteImageUrl
  <2>8. ~(CreateSubmit \/ UpdateSubmit)
    BY DEF CreateSubmit, UpdateSubmit, handleSubmit
  <2>9. ~\E s \in subs : \E f \in Files : UploadAnswered(s, f)
    BY DEF UploadAnswered
  <2>10. ~\E s \in subs : UploadFailed(s) \/ SubmitAnswered(s) \/ SubmitFailed(s)
    BY DEF UploadFailed, SubmitAnswered, SubmitFailed
  <2>11. ~\E s \in subs : HandlerDone(s) \/ SubmitLost(s)
    BY DEF HandlerDone, SubmitLost
  <2>12. ~(UserRenewed \/ LoadAnswered \/ LoadFailed \/ LeaveForm \/ FormSessionExpires)
    BY DEF UserRenewed, LoadAnswered, LoadFailed, LeaveForm, FormSessionExpires
  <2> QED
    BY <2>3, <2>4, <2>5, <2>6, <2>7, <2>8, <2>9, <2>10, <2>11, <2>12 DEF ListingFormActs, ListingFormNext
<1>2. SubOK(s) /\ s.id \in 1..MaxClicks /\ s.kind \in {"create", "update"}
  BY DEF FormInv, OneTry, SubOK, SubType
<1>3. ASSUME CreateListing(s) PROVE FALSE
  <2>1. rows' = [i \in DOMAIN rows \cup {s.id} |-> IF i = s.id THEN {} ELSE rows[i]] /\ s.id # 0
    BY <1>2, <1>3 DEF CreateListing
  <2> QED
    BY <2>1
<1>4. ASSUME UpdateListing(s)
      PROVE  s.kind = "update" /\ s.wanted # {} /\ rows'[0] \ rows[0] \subseteq s.wanted
  BY <1>2, <1>4 DEF UpdateListing, SubOK
<1>5. ASSUME NEW p \in Pictures, InsertImage(s, p)
      PROVE  s.kind = "update" /\ s.wanted # {} /\ rows'[0] \ rows[0] \subseteq s.wanted
  <2>1. PICK ps \in {{p}, {}} : rows' = [rows EXCEPT ![RowOf(s)] = @ \cup ps]
    BY <1>5 DEF InsertImage, RowOf
  <2>2. p \in s.wanted
    BY <1>2, <1>5 DEF InsertImage, SubOK
  <2>3. RowOf(s) = 0
    BY <2>1
  <2>4. rows'[0] = rows[0] \cup ps
    BY <2>1, <2>3
  <2> QED
    BY <1>2, <2>2, <2>3, <2>4 DEF RowOf
<1> QED
  BY <1>1, <1>3, <1>4, <1>5 DEF BringsPictures, ErasedUrl
=============================================================================
