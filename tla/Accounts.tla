------------------------------ MODULE Accounts ------------------------------
(***************************************************************************)
(* The tabs of a browser: the access token they share in localStorage, the *)
(* user each has restored, and the cached list and the forms of            *)
(* StudentsPage and AddStudentPage, over the rows of Students.             *)
(*                                                                         *)
(* A page is not reloaded or signed out of while its save is under way,    *)
(* nor reloaded while its session is being restored.                       *)
(***************************************************************************)
EXTENDS Students

CONSTANTS
  Tabs,      \* the other clients call the API without a page
  Worlds,    \* [enrolled, accounts, tabs, callers, signing, calls, faults]: the owners of
             \* the students, who acts, may tabs sign in and out, and bounds on the
             \* requests that save and on failed requests and lost answers
  FirstName, FirstZone   \* of the enrolled students

ASSUME AccountsAssumption ==
  /\ Tabs \subseteq Clients
  /\ FirstName \in Names /\ FirstZone \in Zones
  /\ Worlds \subseteq [enrolled : [Ids -> Users \cup {NoUser}], accounts : SUBSET Users, tabs : SUBSET Tabs,
                       callers : SUBSET (Clients \ Tabs), signing : BOOLEAN, calls : Nat, faults : Nat]

VARIABLES
  world,    \* one of Worlds
  storage,  \* localStorage: whose access token, or NoUser
  token,    \* per tab, auth.accessToken: whose, or NoUser
  user,     \* auth.currentUser, or NoUser
  me,       \* the request for it: [sent, as]
  list,     \* the cached students: [owner, rows], owner NoUser when there are none
  fetch,    \* the list read for the tab but not arrived, likewise
  due,      \* the list is to be fetched
  form,     \* [op, id, base], op "none" when closed; its fields are typed at any
            \* time and given their values when it is submitted
  note,     \* the form's error
  faults, calls,
  foreign,  \* history: another tab has signed in or out since user was restored
  created,  \* history: rows created by this form
  lost      \* history: an answer to this form was lost

session == <<storage, token, user, me, foreign>>
listing == <<list, fetch, due>>
forms == <<form, note, created, lost>>
vars == <<studentVars, session, listing, forms, world, faults, calls>>

NoList == [owner |-> NoUser, rows |-> [id \in Ids |-> NoRow]]
NoMe == [sent |-> FALSE, as |-> NoUser]
NoForm == [op |-> "none", id |-> SomeId, base |-> NoRow]

Init ==
  /\ world \in Worlds
  /\ rows = [id \in Ids |->
       IF world.enrolled[id] = NoUser THEN NoRow
       ELSE [owner |-> world.enrolled[id], active |-> TRUE, name |-> FirstName, zone |-> FirstZone]]
  /\ requests = [c \in Clients |-> NoRequest]
  /\ storage \in world.accounts
  /\ token = [t \in Tabs |-> storage] /\ user = [t \in Tabs |-> NoUser]
  /\ me = [t \in Tabs |-> NoMe]
  /\ list = [t \in Tabs |-> NoList] /\ fetch = list
  /\ due = [t \in Tabs |-> FALSE] /\ foreign = due /\ lost = due
  /\ form = [t \in Tabs |-> NoForm] /\ note = [t \in Tabs |-> "none"]
  /\ created = [t \in Tabs |-> 0]
  /\ faults = 0 /\ calls = 0

Fault == faults < world.faults /\ faults' = faults + 1

-----------------------------------------------------------------------------
(***************************************************************************)
(* SessionBoundary, LoginPage and useLogout.                               *)
(***************************************************************************)
\* Every tab reads what one of them stores; it does not learn of the change.
Store(t, whose) ==
  /\ storage' = whose
  /\ foreign' = [x \in Tabs |-> IF x = t THEN FALSE ELSE foreign[x] \/ storage # whose]

\* Mutant: the cache is kept.
ForgetForm(t) ==
  /\ UNCHANGED listing
  /\ form' = [form EXCEPT ![t] = NoForm] /\ note' = [note EXCEPT ![t] = "none"]
  /\ created' = [created EXCEPT ![t] = 0] /\ lost' = [lost EXCEPT ![t] = FALSE]

\* resetApiState, and the pages of the session are unmounted.
Forget(t) ==
  /\ list' = [list EXCEPT ![t] = NoList] /\ fetch' = [fetch EXCEPT ![t] = NoList]
  /\ due' = [due EXCEPT ![t] = FALSE]
  /\ form' = [form EXCEPT ![t] = NoForm] /\ note' = [note EXCEPT ![t] = "none"]
  /\ created' = [created EXCEPT ![t] = 0] /\ lost' = [lost EXCEPT ![t] = FALSE]

SignIn(t) ==
  /\ world.signing /\ token[t] = NoUser
  /\ \E u \in world.accounts :
       /\ Store(t, u)
       /\ token' = [token EXCEPT ![t] = u]
  /\ UNCHANGED <<studentVars, listing, forms, world, user, me, faults, calls>>

SignedOut(t) ==
  /\ Store(t, NoUser)
  /\ token' = [token EXCEPT ![t] = NoUser] /\ user' = [user EXCEPT ![t] = NoUser]
  /\ me' = [me EXCEPT ![t] = NoMe]
  /\ Forget(t)

Logout(t) ==
  /\ world.signing /\ user[t] # NoUser /\ requests[t].stage = "none"
  /\ SignedOut(t)
  /\ UNCHANGED <<studentVars, world, faults, calls>>

Reload(t) ==
  /\ world.signing /\ requests[t].stage = "none"
  /\ user[t] # NoUser \/ token[t] = NoUser
  /\ token' = [token EXCEPT ![t] = storage] /\ user' = [user EXCEPT ![t] = NoUser]
  /\ me' = [me EXCEPT ![t] = NoMe]
  /\ Forget(t)
  /\ UNCHANGED <<studentVars, storage, foreign, world, faults, calls>>

\* prepareHeaders reads localStorage, not the state of the tab.
AskMe(t) ==
  /\ token[t] # NoUser /\ user[t] = NoUser /\ ~me[t].sent
  /\ me' = [me EXCEPT ![t] = [sent |-> TRUE, as |-> storage]]
  /\ UNCHANGED <<studentVars, storage, token, user, foreign, listing, forms, world, faults, calls>>

MeAnswered(t) ==
  /\ me[t].sent /\ me[t].as # NoUser
  /\ user' = [user EXCEPT ![t] = me[t].as] /\ me' = [me EXCEPT ![t] = NoMe]
  /\ foreign' = [foreign EXCEPT ![t] = storage # me[t].as]
  /\ due' = [due EXCEPT ![t] = TRUE]
  /\ UNCHANGED <<studentVars, storage, token, list, fetch, forms, world, faults, calls>>

\* Mutant: only the token of localStorage is cleared.
MeFailsQuietly(t) ==
  /\ me[t].sent
  /\ (me[t].as = NoUser /\ UNCHANGED faults) \/ Fault
  /\ Store(t, NoUser)
  /\ UNCHANGED <<studentVars, token, user, me, listing, forms, world, calls>>

\* Whatever the error, an unreachable server included, the session is given up.
MeFails(t) ==
  /\ me[t].sent
  /\ (me[t].as = NoUser /\ UNCHANGED faults) \/ Fault
  /\ SignedOut(t)
  /\ UNCHANGED <<studentVars, world, calls>>

-----------------------------------------------------------------------------
(***************************************************************************)
(* The cached list.                                                        *)
(***************************************************************************)
ReadList(t) ==
  /\ user[t] # NoUser /\ due[t] /\ storage # NoUser
  /\ requests[t].stage = "none" /\ fetch[t].owner = NoUser
  /\ fetch' = [fetch EXCEPT ![t] =
       [owner |-> storage, rows |-> [id \in Ids |-> IF Found(storage, id) THEN rows[id] ELSE NoRow]]]
  /\ due' = [due EXCEPT ![t] = FALSE]
  /\ UNCHANGED <<studentVars, session, list, forms, world, faults, calls>>

ListArrives(t) ==
  /\ fetch[t].owner # NoUser
  /\ list' = [list EXCEPT ![t] = fetch[t]] /\ fetch' = [fetch EXCEPT ![t] = NoList]
  /\ UNCHANGED <<studentVars, session, due, forms, world, faults, calls>>

\* No token, or no answer: the former list stays.
ListFails(t) ==
  /\ user[t] # NoUser /\ due[t] /\ requests[t].stage = "none" /\ fetch[t].owner = NoUser
  /\ (storage = NoUser /\ UNCHANGED faults) \/ Fault
  /\ due' = [due EXCEPT ![t] = FALSE]
  /\ UNCHANGED <<studentVars, session, list, fetch, forms, world, calls>>

-----------------------------------------------------------------------------
(***************************************************************************)
(* The forms of StudentsPage and AddStudentPage.                           *)
(***************************************************************************)
Busy(t) == requests[t].stage # "none"

\* The list is on StudentsPage, the form of a new student is a page of its own.
Shows(t, id) == user[t] # NoUser /\ form[t].op # "create" /\ list[t].rows[id] # NoRow

Opened(t, new) ==
  /\ form' = [form EXCEPT ![t] = new] /\ note' = [note EXCEPT ![t] = "none"]
  /\ created' = [created EXCEPT ![t] = 0] /\ lost' = [lost EXCEPT ![t] = FALSE]

BeginEdit(t) ==
  /\ ~Busy(t)
  /\ \E id \in Ids :
       Shows(t, id) /\ Opened(t, [op |-> "update", id |-> id, base |-> list[t].rows[id]])
  /\ UNCHANGED <<studentVars, session, listing, world, faults, calls>>

BeginAdd(t) ==
  /\ ~Busy(t) /\ user[t] # NoUser
  /\ Opened(t, [NoForm EXCEPT !.op = "create"])
  /\ UNCHANGED <<studentVars, session, listing, world, faults, calls>>

CloseForm(t) ==
  /\ form[t].op # "none" /\ ~Busy(t)
  /\ Opened(t, NoForm)
  /\ UNCHANGED <<studentVars, session, listing, world, faults, calls>>

Send(c, as, op, id, change, base, meant) ==
  /\ requests[c].stage = "none" /\ calls < world.calls
  /\ requests' = [requests EXCEPT ![c] =
       [NoRequest EXCEPT !.stage = "sent", !.as = as, !.op = op, !.id = id, !.change = change,
                         !.base = base, !.meant = meant]]
  /\ calls' = calls + 1

\* The whole form is sent, whichever fields were typed.
Submit(t) ==
  /\ form[t].op # "none"
  /\ \E name \in Names, zone \in Zones :
       LET change == [name |-> name, zone |-> zone] IN
         Send(t, storage, form[t].op, form[t].id, change, form[t].base,
              IF form[t].op = "create" THEN Columns
              ELSE {k \in {"name", "zone"} : change[k] # form[t].base[k]})
  /\ note' = [note EXCEPT ![t] = "none"]
  /\ UNCHANGED <<rows, session, listing, form, created, lost, world, faults>>

Deactivate(t) ==
  /\ \E id \in Ids :
       Shows(t, id) /\ Send(t, storage, "deactivate", id, Nothing, NoRow, {"active"})
  /\ note' = [note EXCEPT ![t] = "none"]
  /\ UNCHANGED <<rows, session, listing, form, created, lost, world, faults>>

\* A caller without a page names the fields it changes.
Call(c) ==
  /\ c \in world.callers
  /\ \E id \in Ids, change \in Change :
       /\ rows[id] # NoRow /\ change # Nothing
       /\ Send(c, rows[id].owner, "update", id, change, NoRow,
               {k \in {"name", "zone"} : change[k] # "kept"})
  /\ UNCHANGED <<rows, session, listing, forms, world, faults>>

CallEnds(c) ==
  /\ c \in world.callers /\ requests[c].stage = "answered"
  /\ requests' = [requests EXCEPT ![c] = NoRequest]
  /\ UNCHANGED <<rows, session, listing, forms, world, faults, calls>>

ServeOne(c) ==
  /\ Serve(c)
  /\ created' = IF c \in Tabs /\ requests[c].op = "create" /\ rows' # rows
                THEN [created EXCEPT ![c] = @ + 1] ELSE created
  /\ UNCHANGED <<session, listing, form, note, lost, world, faults, calls>>

\* Mutant: the form of a new student stays when it is saved.
AnsweredOpen(t) ==
  /\ requests[t].stage = "answered"
  /\ note' = [note EXCEPT ![t] = IF requests[t].ok THEN @ ELSE "refused"]
  /\ requests' = [requests EXCEPT ![t] = NoRequest] /\ due' = [due EXCEPT ![t] = TRUE]
  /\ UNCHANGED <<rows, session, list, fetch, form, created, lost, world, faults, calls>>

\* A saved form closes, and so does the form of a student just deactivated.
Answered(t) ==
  /\ requests[t].stage = "answered"
  /\ LET r == requests[t] IN
       IF r.ok
       THEN /\ note' = [note EXCEPT ![t] = "none"]
            /\ form' = IF r.op = "deactivate" /\ form[t].id # r.id THEN form
                       ELSE [form EXCEPT ![t] = NoForm]
       ELSE note' = [note EXCEPT ![t] = "refused"] /\ UNCHANGED form
  /\ requests' = [requests EXCEPT ![t] = NoRequest] /\ due' = [due EXCEPT ![t] = TRUE]
  /\ UNCHANGED <<rows, session, list, fetch, created, lost, world, faults, calls>>

\* "The API could not be reached. Your changes were not saved."
NotReached(t) ==
  /\ requests[t].stage \in {"sent", "answered"} /\ Fault
  /\ note' = [note EXCEPT ![t] = "unreachable"]
  /\ lost' = [lost EXCEPT ![t] = @ \/ requests[t].stage = "answered"]
  /\ requests' = [requests EXCEPT ![t] = NoRequest] /\ due' = [due EXCEPT ![t] = TRUE]
  /\ UNCHANGED <<rows, session, list, fetch, form, created, world, calls>>

-----------------------------------------------------------------------------
Restoring(t) == AskMe(t) \/ MeAnswered(t) \/ MeFails(t)

OfTab(t) ==
  \/ SignIn(t) \/ Logout(t) \/ Reload(t) \/ Restoring(t)
  \/ ReadList(t) \/ ListArrives(t) \/ ListFails(t)
  \/ BeginEdit(t) \/ BeginAdd(t) \/ CloseForm(t) \/ Submit(t) \/ Deactivate(t)
  \/ Answered(t) \/ NotReached(t)

Next ==
  \/ \E t \in world.tabs : OfTab(t)
  \/ \E c \in Clients : ServeOne(c) \/ Call(c) \/ CallEnds(c)

Spec == Init /\ [][Next]_vars

\* The request for the current user is answered or fails.
FairSpec == Spec /\ \A t \in Tabs : WF_vars(t \in world.tabs /\ Restoring(t))

-----------------------------------------------------------------------------
Someone == Users \cup {NoUser}

SessionOK ==
  /\ storage \in Someone /\ token \in [Tabs -> Someone] /\ user \in [Tabs -> Someone]
  /\ me \in [Tabs -> [sent : BOOLEAN, as : Someone]] /\ foreign \in [Tabs -> BOOLEAN]

ListingOK ==
  /\ list \in [Tabs -> [owner : Someone, rows : [Ids -> Row \cup {NoRow}]]]
  /\ fetch \in [Tabs -> [owner : Someone, rows : [Ids -> Row \cup {NoRow}]]]
  /\ due \in [Tabs -> BOOLEAN]

FormsOK ==
  /\ form \in [Tabs -> [op : {"none", "create", "update"}, id : Ids, base : Row \cup {NoRow}]]
  /\ note \in [Tabs -> {"none", "refused", "unreachable"}]
  /\ created \in [Tabs -> Nat] /\ lost \in [Tabs -> BOOLEAN]

\* Types of the rows and requests and of the tabs.
TypeOK ==
  /\ StudentsOK /\ SessionOK /\ ListingOK /\ FormsOK
  /\ world \in Worlds /\ faults \in Nat /\ calls \in Nat

\* A tab shows the students of the user it names and saves as that user, although
\* list, user and token are fetched and stored apart, unless another tab has
\* signed in or out since.
ActsAsShown ==
  \A t \in Tabs : user[t] # NoUser /\ ~foreign[t] =>
    /\ storage = user[t]
    /\ \A whose \in {list[t].owner, fetch[t].owner, requests[t].as} : whose \in {user[t], NoUser}

\* A form creates one student, and none while it says that nothing was saved,
\* unless an answer was lost: then saving again makes another.
OneProfile ==
  \A t \in Tabs : ~lost[t] =>
    /\ created[t] <= 1
    /\ form[t].op = "create" /\ note[t] # "none" => created[t] = 0

\* No tab stays at "Restoring your practice session": it names a user or asks to
\* sign in.
Restored ==
  \A t \in Tabs :
    t \in world.tabs /\ token[t] # NoUser /\ user[t] = NoUser ~> user[t] # NoUser \/ token[t] = NoUser
=============================================================================
