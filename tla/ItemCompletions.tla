--------------------------- MODULE ItemCompletions ---------------------------
(***************************************************************************)
(* The completion of a one-time item: complete and reopen of               *)
(* assignment-item-completions.service.ts, statement by statement, while   *)
(* the assignment is published, cancelled, or loses its item to an edit.   *)
(*                                                                         *)
(* Only rows without reopened_at are ever read, so the table is the number *)
(* of such rows of the item.                                               *)
(***************************************************************************)
EXTENDS Naturals

CONSTANT Clients   \* devices; each waits for its answer before it asks again

VARIABLES
  phase,     \* "draft", "issued" (published or archived), or "closed": the
             \* assignment is cancelled or the student deactivated
  present,   \* the item exists
  open,      \* completion rows of the item with reopened_at NULL
  requests   \* per client: [stage, op, ok], and the history raced: what happened
             \* between its statements

completionVars == <<phase, present, open, requests>>

Phases == {"draft", "issued", "closed"}
Ops == {"complete", "reopen"}
Races == {"closed", "reopened"}
NoRequest == [stage |-> "none", op |-> "complete", ok |-> FALSE, raced |-> {}]

Completed == open > 0

InitCompletions ==
  /\ phase = "draft" /\ present = TRUE /\ open = 0
  /\ requests = [c \in Clients |-> NoRequest]

Advance(c, stage) == requests' = [requests EXCEPT ![c].stage = stage]

Answered(op, ok) == [stage |-> "answered", op |-> op, ok |-> ok, raced |-> {}]

Answer(c, ok) ==
  requests' = [requests EXCEPT ![c] = Answered(@.op, ok)]

Send(c, op) ==
  requests' = [requests EXCEPT ![c] = [NoRequest EXCEPT !.stage = "sent", !.op = op]]

\* The requests, when this happens to those at the stage.
Raced(stage, race) ==
  [c \in Clients |-> IF requests[c].stage = stage
                     THEN [requests[c] EXCEPT !.raced = @ \cup {race}] ELSE requests[c]]

\* getItemContext and assertCompletable; drafts and archived weeks will do.
Completable == present /\ phase # "closed"

Check(c) ==
  /\ requests[c].stage = "sent"
  /\ IF Completable THEN Advance(c, "checked") ELSE Answer(c, FALSE)
  /\ UNCHANGED <<phase, present, open>>

\* Mutant: a skipped INSERT is taken for a failure.
InsertOnce(c) ==
  /\ requests[c].stage = "checked" /\ requests[c].op = "complete"
  /\ IF present /\ open = 0 THEN open' = 1 /\ Answer(c, TRUE) ELSE Answer(c, FALSE) /\ UNCHANGED open
  /\ UNCHANGED <<phase, present>>

\* The INSERT: refused by the trigger when the item has gone, skipped when the
\* partial unique index holds a row of the item.
Insert(c) ==
  /\ requests[c].stage = "checked" /\ requests[c].op = "complete"
  /\ \/ ~present /\ Answer(c, FALSE) /\ UNCHANGED open
     \/ present /\ open = 0 /\ open' = 1 /\ Answer(c, TRUE)
     \/ present /\ open > 0 /\ Advance(c, "conflict") /\ UNCHANGED open
  /\ UNCHANGED <<phase, present>>

\* The SELECT after a skipped INSERT; without a row mapCompletion fails.
Select(c) ==
  /\ requests[c].stage = "conflict"
  /\ Answer(c, Completed)
  /\ UNCHANGED <<phase, present, open>>

Close(c) ==
  /\ requests[c].stage = "checked" /\ requests[c].op = "reopen"
  /\ open' = 0
  /\ requests' = [Raced("conflict", "reopened") EXCEPT ![c] = Answered("reopen", TRUE)]
  /\ UNCHANGED <<phase, present>>

Serve(c) == Check(c) \/ Insert(c) \/ Select(c) \/ Close(c)

\* publish of a draft; cancel, or deactivation of the student.
Restate ==
  /\ \/ phase = "draft" /\ phase' = "issued" /\ UNCHANGED requests
     \/ phase # "closed" /\ phase' = "closed" /\ requests' = Raced("checked", "closed")
  /\ UNCHANGED <<present, open>>

\* update of a draft replaces its items; the completions go by cascade.
ReplaceItem ==
  /\ phase = "draft" /\ present
  /\ present' = FALSE /\ open' = 0
  /\ UNCHANGED <<phase, requests>>

Surroundings == Restate \/ ReplaceItem

RequestType == [stage : {"none", "sent", "checked", "conflict", "answered"},
                op : Ops, ok : BOOLEAN, raced : SUBSET Races]

CompletionsOK ==
  /\ phase \in Phases /\ present \in BOOLEAN /\ open \in Nat
  /\ requests \in [Clients -> RequestType]
=============================================================================
