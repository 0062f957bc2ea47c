------------------------- MODULE AssignmentAuthoring -------------------------
(***************************************************************************)
(* The authoring page, AssignmentAuthoringPage.tsx: a draft is edited in   *)
(* the browser, saved with one request, its files are uploaded one by one  *)
(* and the week may then be published.  The server's side is the DTO       *)
(* validation and the rows those requests leave behind.                    *)
(*                                                                         *)
(* A save or a retry works on the draft as it was at the click, while the  *)
(* teacher may go on editing; each request may fail, or be carried out     *)
(* with its answer lost.  A stored row goes by the localId of the entry    *)
(* of the draft it was made from.  Texts, URLs and files are the classes   *)
(* the two validations tell apart; years have four digits.                 *)
(***************************************************************************)
EXTENDS Naturals, Sequences, FiniteSets, SequencesExt

CONSTANTS
  Typed,       \* drafts a teacher may have typed on a new page
  Sources,     \* stored drafts a page may be opened on
  KnownAreas,  \* ASSIGNMENT_AREAS by their order; areas from elsewhere rank after
  PageFiles,   \* files whose type and size the page accepts
  SoundFiles,  \* those among them whose content the server accepts too
  OddFiles,    \* files the page refuses
  NoFile,
  StoredFiles, \* what the uploads of Sources hold
  MaxEdits,    \* bound on the edits of one page
  MaxFaults    \* bound on failed requests and lost answers

Files == PageFiles \cup OddFiles

Texts == {"blank", "text", "long"}         \* long: over 255 characters
OddUrls == {"odd https", "odd youtube"}    \* not an isURL: a host without a domain, a blank
LongUrls == {"long https", "long youtube"} \* over 2048 characters
Urls == {"none", "http", "https", "youtube"} \cup OddUrls \cup LongUrls
YouTubeUrls == {"youtube", "odd youtube", "long youtube"}
Kinds == {"upload", "external_link", "youtube"}
Modes == {"practice_days", "one_time"}

\* localIds are UUIDs: those a page makes, numbered from here, are in no row before.
FirstFreshId == 100

-----------------------------------------------------------------------------
(***************************************************************************)
(* The form, and the assignments it may be opened on.  Only an upload has  *)
(* a file or an existingId, never both.                                    *)
(***************************************************************************)
Notices == [id : Nat, title : Texts, location : Texts]

Resources ==
  {r \in [ id : Nat, kind : Kinds, name : Texts, url : Urls, file : Files \cup {NoFile},
           existing : BOOLEAN ] :
     /\ r.existing => r.kind = "upload" /\ r.file = NoFile
     /\ r.file # NoFile => r.kind = "upload"}

Items ==
  [ id : Nat, area : Nat, title : Texts, mode : Modes, target : Nat, resources : Seq(Resources) ]

Drafts == [title : Texts, start : {0, 1}, notices : Seq(Notices), items : Seq(Items)]

ResourcesOf(d) ==
  UNION {{d.items[j].resources[p] : p \in DOMAIN d.items[j].resources} : j \in DOMAIN d.items}

IdsBelow(d, n) == \A r \in ResourcesOf(d) : r.id < n

IdsDistinct(d) ==
  \A j, k \in DOMAIN d.items :
    \A p \in DOMAIN d.items[j].resources : \A q \in DOMAIN d.items[k].resources :
      d.items[j].resources[p].id = d.items[k].resources[q].id => j = k /\ p = q

NoneExisting(d) == \A r \in ResourcesOf(d) : ~r.existing

StoredRows ==
  {r \in [ position : Nat, id : 0 .. (FirstFreshId - 1), kind : Kinds, name : Texts,
           holds : Urls \cup StoredFiles ] : r.kind # "upload" => r.holds \in Urls}

StoredItems ==
  [ id : Nat, area : Nat, title : Texts, mode : Modes, target : Nat, resources : SUBSET StoredRows ]

StoredWeeks ==
  [ status : {"draft"}, title : Texts, start : {0, 1}, notices : Seq(Notices),
    sections : Seq([area : Nat, items : Seq(StoredItems)]) ]

OnePlaceEach(rs) == \A r, s \in rs : r.position = s.position => r = s

\* An id is that of one row, below one item.
StoredOnce ==
  \A a, b \in Sources : \A s \in DOMAIN a.sections : \A t \in DOMAIN b.sections :
    \A k \in DOMAIN a.sections[s].items : \A l \in DOMAIN b.sections[t].items :
      \A r \in a.sections[s].items[k].resources : \A o \in b.sections[t].items[l].resources :
        r.id = o.id => a = b /\ s = t /\ k = l /\ r = o

ASSUME AuthoringAssumption ==
  /\ SoundFiles \subseteq PageFiles /\ NoFile \notin Files \cup {"chosen"}
  /\ KnownAreas \subseteq Nat /\ KnownAreas # {}
  /\ MaxEdits \in Nat /\ MaxFaults \in Nat
  /\ Typed \subseteq Drafts
  /\ \A d \in Typed : IdsDistinct(d) /\ IdsBelow(d, FirstFreshId) /\ NoneExisting(d)
  /\ Sources \subseteq StoredWeeks /\ StoredOnce
  /\ \A a \in Sources : \A s \in DOMAIN a.sections : \A k \in DOMAIN a.sections[s].items :
       LET rs == a.sections[s].items[k].resources IN IsFiniteSet(rs) /\ OnePlaceEach(rs)

VARIABLES
  mode,         \* create, duplicate or edit
  draft,        \* the form
  edits,        \* edits so far, also the source of fresh localIds
  run,          \* the save or retry in progress: its phase and captured draft
  saved,        \* savedAssignment, a position of server, or 0
  pendingPublish,
  uploaded,     \* uploadedResourceIds
  alert,        \* errors and saveError
  bar,          \* the status of the uploadStatus slice
  open,         \* the page has not been left
  server,       \* the assignments rows this page has to do with
  faults,       \* failed requests and lost answers so far
  history       \* [sent, drifted, creates, uploads]: see Save, Retry and the faults

vars == << mode, draft, edits, run, saved, pendingPublish, uploaded, alert, bar,
           open, server, faults, history >>

form == <<mode, draft, edits, open>>

-----------------------------------------------------------------------------
(***************************************************************************)
(* Edits.  Targets count half days: the page's number input takes 1.5.     *)
(***************************************************************************)
NewNotice(id) == [id |-> id, title |-> "blank", location |-> "blank"]

NewItem(id) ==
  [ id |-> id, area |-> CHOOSE a \in KnownAreas : \A b \in KnownAreas : a <= b,
    title |-> "blank", mode |-> "practice_days", target |-> 6, resources |-> <<>> ]

NewResource(id, kind) ==
  [id |-> id, kind |-> kind, name |-> "blank", url |-> "none", file |-> NoFile, existing |-> FALSE]

Swap(list, k) == [list EXCEPT ![k] = list[k + 1], ![k + 1] = list[k]]

\* changes[k]: what entry k may become.
ListEdits(list, added, changes) ==
  {Append(list, x) : x \in added}
    \cup {RemoveAt(list, k) : k \in DOMAIN list}
    \cup {Swap(list, k) : k \in 1 .. (Len(list) - 1)}
    \cup UNION {{ReplaceAt(list, k, x) : x \in changes[k]} : k \in DOMAIN list}

NoticeChanges(n) ==
  {[n EXCEPT !.title = t] : t \in Texts} \cup {[n EXCEPT !.location = t] : t \in Texts}

\* A chosen file replaces an existing upload and gives a blank name its own.
FileChosen(r, f) ==
  [r EXCEPT !.file = f,
            !.existing = @ /\ f = NoFile,
            !.name = IF @ = "blank" /\ f # NoFile THEN "text" ELSE @]

ResourceChanges(r) ==
  {[r EXCEPT !.name = t] : t \in Texts}
    \cup (IF r.kind = "upload" THEN {FileChosen(r, f) : f \in Files \cup {NoFile}}
                               ELSE {[r EXCEPT !.url = u] : u \in Urls})

ItemChanges(id, i) ==
  {[i EXCEPT !.title = t] : t \in Texts}
    \cup {[i EXCEPT !.area = a] : a \in KnownAreas}
    \cup {[i EXCEPT !.mode = m] : m \in Modes}
    \cup {[i EXCEPT !.target = n] : n \in {0, 3, 6, 16}}
    \cup {[i EXCEPT !.resources = rs] :
            rs \in ListEdits(i.resources, {NewResource(id, k) : k \in Kinds},
                            [p \in DOMAIN i.resources |-> ResourceChanges(i.resources[p])])}

\* The title input stops at 255 characters; start 0 is a cleared date.
DraftEdits(d, id) ==
  {[d EXCEPT !.title = t] : t \in {"blank", "text"}}
    \cup {[d EXCEPT !.start = s] : s \in {0, 1}}
    \cup {[d EXCEPT !.notices = ns] :
            ns \in ListEdits(d.notices, {NewNotice(id)},
                            [k \in DOMAIN d.notices |-> NoticeChanges(d.notices[k])])}
    \cup {[d EXCEPT !.items = is] :
            is \in ListEdits(d.items, {NewItem(id)},
                            [k \in DOMAIN d.items |-> ItemChanges(id, d.items[k])])}

EmptyDraft == [title |-> "blank", start |-> 1, notices |-> <<>>, items |-> <<NewItem(0)>>]

\* The numbers of a finite set, ascending.
InOrder(S) ==
  CHOOSE f \in [1 .. Cardinality(S) -> S] : \A m, n \in DOMAIN f : m < n => f[m] < f[n]

ByPosition(rs) ==
  LET ps == InOrder({r.position : r \in rs})
  IN [n \in DOMAIN ps |-> CHOOSE r \in rs : r.position = ps[n]]

ItemsOf(a) == FlattenSeq([s \in DOMAIN a.sections |-> a.sections[s].items])

Reopened(r) ==
  [ id |-> r.id, kind |-> r.kind, name |-> r.name, file |-> NoFile,
    url |-> IF r.kind = "upload" THEN "none" ELSE r.holds, existing |-> r.kind = "upload" ]

\* The form of a stored assignment, with its resources of the kinds given.
DraftOf(a, title, kinds) ==
  [ title |-> title, start |-> a.start, notices |-> a.notices,
    items |-> [k \in DOMAIN ItemsOf(a) |->
                 LET i == ItemsOf(a)[k]
                     rows == ByPosition({r \in i.resources : r.kind \in kinds})
                 IN [ id |-> i.id, area |-> i.area, title |-> i.title, mode |-> i.mode,
                      target |-> i.target,
                      resources |-> [p \in DOMAIN rows |-> Reopened(rows[p])] ]] ]

EditDraft(a) == DraftOf(a, a.title, Kinds)

\* Uploads are not copied; " (copy)" may take the title past 255 characters.
DuplicateDrafts(a) ==
  {DraftOf(a, t, Kinds \ {"upload"}) : t \in {"text", "long"}}

-----------------------------------------------------------------------------
(***************************************************************************)
(* groupDraftItems, validateDraft and the request body.                    *)
(***************************************************************************)
ItemsIn(area, items) ==
  LET ks == InOrder({k \in DOMAIN items : items[k].area = area})
  IN [n \in DOMAIN ks |-> items[ks[n]]]

Grouped(items) ==
  LET areas == InOrder({items[k].area : k \in DOMAIN items})
  IN [s \in DOMAIN areas |-> [area |-> areas[s], items |-> ItemsIn(areas[s], items)]]

ValidSource(r) ==
  IF r.kind = "upload" THEN r.file \in PageFiles \/ (r.file = NoFile /\ r.existing)
                       ELSE r.url \notin {"none", "http"}

\* Mutant: the target of practice days is left to the number input.
ValidItemAnyTarget(i) ==
  /\ i.title # "blank"
  /\ \A k \in DOMAIN i.resources :
       LET r == i.resources[k] IN
       r.name # "blank" /\ ValidSource(r) /\ (r.kind = "youtube" => r.url \in YouTubeUrls)

ValidItem(i) ==
  /\ i.title # "blank"
  /\ i.mode = "practice_days" => i.target \in 2 .. 14
  /\ \A k \in DOMAIN i.resources :
       LET r == i.resources[k] IN
       r.name # "blank" /\ ValidSource(r) /\ (r.kind = "youtube" => r.url \in YouTubeUrls)

ValidDraft(d) ==
  /\ d.title # "blank" /\ d.start # 0 /\ Len(d.items) > 0
  /\ \A k \in DOMAIN d.notices : d.notices[k].title # "blank"
  /\ \A k \in DOMAIN d.items : ValidItem(d.items[k])

\* Positions are counted over all resources of an item; uploads send none here.
Placed(i, chosen) ==
  {[ position |-> p, id |-> i.resources[p].id, kind |-> i.resources[p].kind,
     name |-> i.resources[p].name, holds |-> i.resources[p].url ] :
   p \in chosen}

RequestItem(i) ==
  [ id |-> i.id, title |-> i.title, mode |-> i.mode,
    target |-> IF i.mode = "one_time" THEN 0 ELSE i.target,
    links |-> Placed(i, {p \in DOMAIN i.resources : i.resources[p].kind # "upload"}),
    retained |-> Placed(i, {p \in DOMAIN i.resources :
                              i.resources[p].kind = "upload" /\ i.resources[p].existing}) ]

Request(d) ==
  [ title |-> d.title, start |-> d.start, end |-> d.start + 6, notices |-> d.notices,
    sections |-> LET groups == Grouped(d.items) IN
      [s \in DOMAIN groups |->
         [area |-> groups[s].area,
          items |-> [k \in DOMAIN groups[s].items |-> RequestItem(groups[s].items[k])]]] ]

-----------------------------------------------------------------------------
(***************************************************************************)
(* The server: class-validator's DTOs, the checks of update, the rows.     *)
(***************************************************************************)
Named(text) == text = "text"

AcceptsTarget(i) ==
  IF i.mode = "one_time" THEN i.target = 0 ELSE i.target \in {2, 4, 6, 8, 10, 12, 14}

AcceptsLink(r) == Named(r.name) /\ r.holds \in {"https", "youtube"}

AcceptsItem(i) ==
  /\ Named(i.title) /\ AcceptsTarget(i)
  /\ \A r \in i.links : AcceptsLink(r)
  /\ \A r \in i.retained : Named(r.name)
  /\ OnePlaceEach(i.links \cup i.retained)

AcceptsSection(s) == Len(s.items) > 0 /\ \A k \in DOMAIN s.items : AcceptsItem(s.items[k])

AcceptsNotice(n) == Named(n.title) /\ n.location # "long"

SevenDays(q) == q.end = q.start + 6

AcceptsContent(q) ==
  /\ q.title # "blank" /\ SevenDays(q) /\ Len(q.sections) > 0
  /\ \A k \in DOMAIN q.notices : AcceptsNotice(q.notices[k])
  /\ \A s \in DOMAIN q.sections : AcceptsSection(q.sections[s])

\* Only the DTO of update bounds the title of the assignment.
Accepts(m, q) == AcceptsContent(q) /\ (m = "edit" => Named(q.title))

RowsOf(a) ==
  UNION {UNION {a.sections[s].items[k].resources : k \in DOMAIN a.sections[s].items} :
         s \in DOMAIN a.sections}

\* Mutant: the new rows of an item do not include what was retained.
NothingRetained(i, old) == i.links

Kept(i, old) ==
  i.links \cup {[r EXCEPT !.holds = (CHOOSE o \in old : o.id = r.id).holds] : r \in i.retained}

Rows(q, old) ==
  [ status |-> "draft", title |-> q.title, start |-> q.start, notices |-> q.notices,
    sections |-> [s \in DOMAIN q.sections |->
       [ area |-> q.sections[s].area,
         items |-> [k \in DOMAIN q.sections[s].items |->
            LET i == q.sections[s].items[k] IN
            [ id |-> i.id, title |-> i.title, mode |-> i.mode, target |-> i.target,
              resources |-> Kept(i, old) ]] ]] ]

\* create adds a row; update replaces what hangs below the only one.
SavedWith(m, q) ==
  IF m = "edit" THEN <<Rows(q, RowsOf(server[1]))>> ELSE Append(server, Rows(q, {}))

RetainedExist(m, q) ==
  \A s \in DOMAIN q.sections : \A k \in DOMAIN q.sections[s].items :
    \A r \in q.sections[s].items[k].retained :
      m = "edit" /\ \E o \in RowsOf(server[1]) : o.id = r.id /\ o.kind = "upload"

-----------------------------------------------------------------------------
Idle == [phase |-> "idle"]

Bars == {"idle", "uploading", "succeeded", "failed"}

Init ==
  /\ \/ mode = "create" /\ server = <<>> /\ draft \in Typed \cup {EmptyDraft}
     \/ mode = "duplicate" /\ server = <<>> /\ \E a \in Sources : draft \in DuplicateDrafts(a)
     \/ mode = "edit" /\ \E a \in Sources : server = <<a>> /\ draft = EditDraft(a)
  /\ edits = 0 /\ open = TRUE
  /\ run = Idle /\ saved = 0 /\ pendingPublish = FALSE /\ uploaded = {}
  /\ alert = "none" /\ bar = "idle"
  /\ faults = 0
  /\ history = [sent |-> draft, drifted |-> FALSE, creates |-> 0, uploads |-> {}]

Edit ==
  /\ open /\ run.phase # "done" /\ edits < MaxEdits
  /\ edits' = edits + 1
  /\ draft' \in DraftEdits(draft, FirstFreshId + edits) \ {draft}
  /\ UNCHANGED <<mode, run, saved, pendingPublish, uploaded, alert, bar, open, server, faults, history>>

\* The Cancel link; what is under way goes on without the page.
Leave ==
  /\ open /\ run.phase # "done"
  /\ open' = FALSE
  /\ UNCHANGED <<mode, draft, edits, run, saved, pendingPublish, uploaded, alert, bar, server, faults, history>>

\* Mutant: the buttons come back once a save has succeeded.
SaveAgainOffered == open /\ run = Idle

SaveOffered == open /\ run = Idle /\ saved = 0

\* Mutant: the upload loop takes the areas in descending order.
StartedDescending(phase) ==
  [ phase |-> phase, draft |-> draft, groups |-> Reverse(Grouped(draft.items)), at |-> <<>> ]

\* The closure of a click: the draft, its groups and the place of the upload loop.
Started(phase) ==
  [phase |-> phase, draft |-> draft, groups |-> Grouped(draft.items), at |-> <<>>]

SaveRefusedByPage ==
  /\ SaveOffered /\ ~ValidDraft(draft)
  /\ alert' = "invalid"
  /\ UNCHANGED <<form, run, saved, pendingPublish, uploaded, bar, server, faults, history>>

Save(publish) ==
  /\ SaveOffered /\ ValidDraft(draft)
  /\ run' = Started("saving")
  /\ pendingPublish' = publish
  /\ alert' = "none"
  /\ UNCHANGED <<form, saved, uploaded, bar, server, faults, history>>

\* Mutant: the error is shown but the run is not left.
FailsUncaught ==
  /\ alert' = "failed" /\ run' = run
  /\ bar' = IF bar = "uploading" THEN "failed" ELSE bar

\* Mutant: a failed upload is not reported to the slice.
FailsUnreported ==
  alert' = "failed" /\ run' = Idle /\ bar' = bar

Fails ==
  /\ alert' = "failed" /\ run' = Idle
  /\ bar' = IF bar = "uploading" THEN "failed" ELSE bar

Fault == faults < MaxFaults /\ faults' = faults + 1

SaveAccepted(q) == Accepts(mode, q) /\ RetainedExist(mode, q)

Saved ==
  /\ run.phase = "saving"
  /\ \E q \in {Request(run.draft)} : SaveAccepted(q) /\ server' = SavedWith(mode, q)

SaveAnswered ==
  /\ Saved
  /\ saved' = Len(server')
  /\ run' = [run EXCEPT !.phase = "uploading"]
  /\ history' = [history EXCEPT !.sent = run.draft]
  /\ UNCHANGED <<form, pendingPublish, uploaded, alert, bar, faults>>

SaveAnswerLost ==
  /\ Saved /\ Fault /\ Fails
  /\ history' = [history EXCEPT !.creates = IF mode = "edit" THEN @ ELSE @ + 1]
  /\ UNCHANGED <<form, saved, pendingPublish, uploaded>>

SaveFails ==
  /\ run.phase = "saving"
  /\ \/ Fault
     \/ (\E q \in {Request(run.draft)} : ~SaveAccepted(q)) /\ UNCHANGED faults
  /\ Fails
  /\ UNCHANGED <<form, saved, pendingPublish, uploaded, server, history>>

-----------------------------------------------------------------------------
(***************************************************************************)
(* uploadDraftFiles matches sections and items by position, then sends the *)
(* files not yet uploaded in their order.                                  *)
(***************************************************************************)
Matched(s, k) ==
  s \in DOMAIN server[saved].sections /\ k \in DOMAIN server[saved].sections[s].items

\* Mutant: a retry sends every file again.
UnsentAgain(item) ==
  {p \in DOMAIN item.resources :
     item.resources[p].kind = "upload" /\ item.resources[p].file # NoFile}

Unsent(item) ==
  {p \in DOMAIN item.resources :
     /\ item.resources[p].kind = "upload" /\ item.resources[p].file # NoFile
     /\ item.resources[p].id \notin uploaded}

\* The places <<section, item>> at which the loop has something to do.
Stops ==
  UNION {{<<s, k>> : k \in {j \in DOMAIN run.groups[s].items :
                              ~Matched(s, j) \/ Unsent(run.groups[s].items[j]) # {}}} :
         s \in DOMAIN run.groups}

Before(x, y) == x[1] < y[1] \/ (x[1] = y[1] /\ x[2] <= y[2])

FirstOf(stops) == CHOOSE x \in stops : \A y \in stops : Before(x, y)

FirstUnsent(item) == LET ps == Unsent(item) IN CHOOSE p \in ps : \A q \in ps : p <= q

\* What is being sent and the item it is sent to.
Target ==
  LET r == run.groups[run.at[1]].items[run.at[2]].resources[run.at[3]]
  IN [position |-> run.at[3], id |-> r.id, kind |-> "upload", name |-> r.name, holds |-> r.file]

TargetItem == server[saved].sections[run.at[1]].items[run.at[2]]

Uploading == run.phase = "uploading" /\ bar = "uploading"

Unmatched ==
  /\ run.phase = "uploading" /\ bar # "uploading"
  /\ LET stops == Stops
         x == FirstOf(stops)
     IN stops # {} /\ ~Matched(x[1], x[2])
  /\ Fails
  /\ UNCHANGED <<form, saved, pendingPublish, uploaded, server, faults, history>>

UploadStarted ==
  /\ run.phase = "uploading" /\ bar # "uploading"
  /\ LET stops == Stops
         x == FirstOf(stops)
     IN /\ stops # {} /\ Matched(x[1], x[2])
        /\ run' = [run EXCEPT !.at = Append(x, FirstUnsent(run.groups[x[1]].items[x[2]]))]
  /\ bar' = "uploading"
  /\ UNCHANGED <<form, saved, pendingPublish, uploaded, alert, server, faults, history>>

PositionTaken == \E r \in TargetItem.resources : r.position = Target.position

FileAccepted(f) == f \in SoundFiles

UploadAccepted ==
  /\ server[saved].status = "draft"
  /\ FileAccepted(Target.holds) /\ Named(Target.name)
  /\ ~PositionTaken

Stored ==
  /\ Uploading /\ UploadAccepted
  /\ server' = [server EXCEPT ![saved].sections[run.at[1]].items[run.at[2]].resources = @ \cup {Target}]

UploadAnswered ==
  /\ Stored
  /\ uploaded' = uploaded \cup {Target.id}
  /\ bar' = "succeeded" /\ run' = [run EXCEPT !.at = <<>>]
  /\ UNCHANGED <<form, saved, pendingPublish, alert, faults, history>>

UploadAnswerLost ==
  /\ Stored /\ Fault /\ Fails
  /\ history' = [history EXCEPT !.uploads = @ \cup {Target.id}]
  /\ UNCHANGED <<form, saved, pendingPublish, uploaded>>

UploadFails ==
  /\ Uploading
  /\ Fault \/ (~UploadAccepted /\ UNCHANGED faults)
  /\ Fails
  /\ UNCHANGED <<form, saved, pendingPublish, uploaded, server, history>>

\* The status bar can be dismissed unless an upload is running.
Dismiss ==
  /\ bar \in {"succeeded", "failed"}
  /\ bar' = "idle"
  /\ UNCHANGED <<form, run, saved, pendingPublish, uploaded, alert, server, faults, history>>

Finish == run' = [run EXCEPT !.phase = "done"] /\ bar' = "idle"

\* Mutant: a retry skips the file that failed.
UploadsSkipFailed == run.phase = "uploading" /\ bar # "uploading" /\ (Stops = {} \/ bar = "failed")

UploadsComplete == run.phase = "uploading" /\ bar # "uploading" /\ Stops = {}

Uploaded ==
  /\ UploadsComplete
  /\ IF pendingPublish THEN run' = [run EXCEPT !.phase = "publishing"] /\ UNCHANGED bar
                       ELSE Finish
  /\ UNCHANGED <<form, saved, pendingPublish, uploaded, alert, server, faults, history>>

Published ==
  /\ run.phase = "publishing" /\ server[saved].status = "draft"
  /\ server' = [server EXCEPT ![saved].status = "published"]

PublishAnswered ==
  /\ Published /\ Finish
  /\ UNCHANGED <<form, saved, pendingPublish, uploaded, alert, faults, history>>

PublishAnswerLost ==
  /\ Published /\ Fault /\ Fails
  /\ UNCHANGED <<form, saved, pendingPublish, uploaded, history>>

PublishFails ==
  /\ run.phase = "publishing"
  /\ Fault \/ (server[saved].status # "draft" /\ UNCHANGED faults)
  /\ Fails
  /\ UNCHANGED <<form, saved, pendingPublish, uploaded, server, history>>

(***************************************************************************)
(* Retry takes the draft of now against the assignment saved then.  It has *)
(* drifted when anything but which file is still to be sent was changed    *)
(* since the save or the retry before.  Retry does not validate the draft. *)
(***************************************************************************)
Shape(d) ==
  [d EXCEPT !.items = [k \in DOMAIN d.items |->
     [d.items[k] EXCEPT !.resources = [p \in DOMAIN @ |->
        IF @[p].id \in uploaded \/ @[p].file = NoFile THEN @[p]
                                                      ELSE [@[p] EXCEPT !.file = "chosen"]]]]]

RetryOffered == open /\ run = Idle /\ alert = "failed" /\ saved # 0

Retry ==
  /\ RetryOffered
  /\ run' = Started("uploading")
  /\ alert' = "none"
  /\ history' = [history EXCEPT !.sent = draft, !.drifted = @ \/ Shape(draft) # Shape(history.sent)]
  /\ UNCHANGED <<form, saved, pendingPublish, uploaded, bar, server, faults>>

RunStep ==
  \/ SaveAnswered \/ SaveAnswerLost \/ SaveFails
  \/ Unmatched \/ UploadStarted \/ UploadAnswered \/ UploadAnswerLost \/ UploadFails
  \/ Uploaded \/ PublishAnswered \/ PublishAnswerLost \/ PublishFails

Next ==
  \/ Edit \/ Leave \/ Dismiss
  \/ SaveRefusedByPage \/ Retry \/ \E publish \in BOOLEAN : Save(publish)
  \/ RunStep

Spec == Init /\ [][Next]_vars

\* A request is answered or fails some time, and the page's code goes on then.
FairSpec == Spec /\ WF_vars(RunStep)

-----------------------------------------------------------------------------
(* Types: every draft the page holds or sends is a form of the page, and   *)
(* the status bar shows an upload only while one is under way.             *)
TypeOK ==
  /\ draft \in Drafts /\ history.sent \in Drafts
  /\ run.phase \in {"idle", "saving", "uploading", "publishing", "done"}
  /\ run.phase # "idle" => run.draft \in Drafts
  /\ saved \in 0 .. Len(server)
  /\ alert \in {"none", "invalid", "failed"} /\ bar \in Bars
  /\ bar = "uploading" => run.phase = "uploading"
  /\ edits \in 0 .. MaxEdits /\ faults \in 0 .. MaxFaults

\* However a save fails and is pressed again, one assignment comes of a page,
\* and one more for every answer of create that was lost.
OneAssignment ==
  IF mode = "edit" THEN Len(server) = 1
  ELSE Len(server) = history.creates + IF saved = 0 THEN 0 ELSE 1

ItemsMatched ==
  run.phase = "uploading" => \A x \in Stops : Matched(x[1], x[2])

FilesBelowTheirItems ==
  saved # 0 =>
  LET a == server[saved] IN
  \A s \in DOMAIN a.sections : \A k \in DOMAIN a.sections[s].items :
    \A r \in a.sections[s].items[k].resources :
      \E j \in DOMAIN history.sent.items :
        LET i == history.sent.items[j] IN
        /\ i.id = a.sections[s].items[k].id
        /\ r.position \in DOMAIN i.resources /\ i.resources[r.position].id = r.id

\* A file is stored below the item and at the position the teacher gave it,
\* although items are matched by position alone, and "The saved assignment item
\* could not be matched" is never said: unless a retry runs on a form changed
\* since the save.
FilesWhereChosen == history.drifted \/ (ItemsMatched /\ FilesBelowTheirItems)

UploadPlaceFree ==
  Uploading /\ PositionTaken => history.drifted \/ Target.id \in history.uploads

PlacesOf(a, id) ==
  UNION {UNION {{<<s, k, r.position>> : r \in {o \in a.sections[s].items[k].resources : o.id = id}} :
                k \in DOMAIN a.sections[s].items} : s \in DOMAIN a.sections}

StoredBefore(id) == \E a \in Sources : \E r \in RowsOf(a) : r.id = id /\ r.kind = "upload"

NoFileTwice ==
  \A n \in DOMAIN server : \A r \in RowsOf(server[n]) :
    Cardinality(PlacesOf(server[n], r.id)) > 1 =>
      history.drifted /\ (r.id \in history.uploads \/ StoredBefore(r.id))

\* An upload finds its position free, in spite of the links and the retained
\* uploads around it: unless its answer was lost before, which makes every
\* retry fail, or the form was changed since the save.  And no entry of the form has
\* two files stored, unless its answer was lost, or its file replaced one stored
\* before, and the form was changed besides.
UploadsOnce == UploadPlaceFree /\ NoFileTwice

\* What the page has sent when it closes, or publishes, is the week as the form
\* shows it: each link, retained upload and new file, at its place.
Original(id) == CHOOSE r \in UNION {RowsOf(a) : a \in Sources} : r.id = id

DrawnAt(i, p) ==
  LET r == i.resources[p]
  IN [ position |-> p, id |-> r.id, kind |-> r.kind, name |-> r.name,
       holds |-> IF r.kind # "upload" THEN r.url
                 ELSE IF r.existing THEN Original(r.id).holds ELSE r.file ]

Drawn(i) == {DrawnAt(i, p) : p \in DOMAIN i.resources}

DoneAsDrawn ==
  run.phase \in {"publishing", "done"} /\ ~history.drifted =>
    LET g == run.groups
        a == server[saved]
    IN /\ a.title = run.draft.title /\ a.notices = run.draft.notices
       /\ DOMAIN a.sections = DOMAIN g
       /\ \A s \in DOMAIN g :
            /\ a.sections[s].area = g[s].area
            /\ DOMAIN a.sections[s].items = DOMAIN g[s].items
            /\ \A k \in DOMAIN g[s].items :
                 a.sections[s].items[k].resources = Drawn(g[s].items[k])

\* An upload the form still shows as current is still stored, whatever became of
\* the updates sent so far: a retry of an update whose answer was lost succeeds.
CurrentFilesExist ==
  \A r \in ResourcesOf(draft) :
    r.existing => \E n \in DOMAIN server : \E o \in RowsOf(server[n]) : o.id = r.id

\* The DTOs accept every draft the page validates, but for the six rules the page does
\* not know: the length of a name, of a notice's location, of a URL and of the title of
\* an assignment updated, whole days, and what isURL asks of a URL.
UnknownToPage(d) ==
  \/ mode = "edit" /\ d.title = "long"
  \/ \E k \in DOMAIN d.notices : "long" \in {d.notices[k].title, d.notices[k].location}
  \/ \E k \in DOMAIN d.items :
       \/ d.items[k].title = "long"
       \/ d.items[k].mode = "practice_days" /\ d.items[k].target % 2 = 1
       \/ \E p \in DOMAIN d.items[k].resources :
            LET r == d.items[k].resources[p] IN
            r.name = "long" \/ r.url \in OddUrls \cup LongUrls

ServerAcceptsDraft ==
  ValidDraft(draft) => Accepts(mode, Request(draft)) \/ UnknownToPage(draft)

\* A save or a retry comes to an end: the page closes or offers to go on.
RunsEnd == run.phase \in {"saving", "uploading", "publishing"} ~> run.phase \in {"idle", "done"}
=============================================================================
