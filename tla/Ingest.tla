-------------------------------- MODULE Ingest --------------------------------
(***************************************************************************)
(* The reMarkable extension (src/remarkable): documents a user submits are *)
(* exported and each is handed to a run; the status page shows, per        *)
(* document, whether its run is in flight, how it ended and how often it   *)
(* was dispatched.  Submissions run concurrently; a run ends in a callback *)
(* that may come before its dispatcher has marked it; the marks live in    *)
(* memory and in one file.                                                 *)
(***************************************************************************)
EXTENDS Naturals, Sequences, FiniteSets, Selection

CONSTANTS None,
          Docs, Requests,
          MaxPerSubmit,  \* 5 in the code
          Forms,         \* the doc_id lists a form may carry
          MaxDispatches, \* bound on the dispatches of a document
          MaxCrashes, MaxSaveFailures

IngestAssumption ==
    /\ MaxPerSubmit \in Nat /\ MaxDispatches \in Nat
    /\ MaxCrashes \in Nat /\ MaxSaveFailures \in Nat
    /\ \A f \in Forms : f \in Seq(Docs \cup {""})
    /\ None \notin Docs /\ IsFiniteSet(Requests)

\* attempts = 0: the document has no entry; outcome None: no run of it has ended.
DocState == [flight : BOOLEAN, outcome : {None, "done", "failed", "needs_input"},
             attempts : 0 .. MaxDispatches]
NoEntry == [flight |-> FALSE, outcome |-> None, attempts |-> 0]

VARIABLES
    up,         \* the process serves
    st,         \* extension.st
    disk,       \* state.json
    batch,      \* [Requests -> the submission under way]
    runs,       \* the host: documents with a run in progress
    dispatched, \* history: dispatches of each document
    sinceBoot,  \* history: documents dispatched since the last boot
    crashes, saveFailures

vars == <<up, st, disk, batch, runs, dispatched, sinceBoot, crashes, saveFailures>>
history == <<dispatched, sinceBoot>>

\* mark: dispatched, not yet marked.
Idle == [on |-> FALSE, todo |-> <<>>, queued |-> 0, mark |-> None]

Init ==
    /\ up = TRUE
    /\ st = [d \in Docs |-> NoEntry] /\ disk = st
    /\ batch = [r \in Requests |-> Idle] /\ runs = {}
    /\ dispatched = [d \in Docs |-> 0] /\ sinceBoot = {}
    /\ crashes = 0 /\ saveFailures = 0

-----------------------------------------------------------------------------

\* save: a temporary file, renamed; the old file stays when it fails.
Save(documents) ==
    \/ disk' = documents /\ UNCHANGED saveFailures
    \/ /\ saveFailures < MaxSaveFailures /\ saveFailures' = saveFailures + 1
       /\ UNCHANGED disk

\* The first occurrences, in order, of what is not empty.
dedupe(ids) == SelectAt(ids, {i \in FirstIndexes(ids) : ids[i] # ""})

\* handleIngest: too many are refused.
Submit(r) ==
    /\ up /\ ~batch[r].on
    /\ \E form \in Forms :
          /\ Len(dedupe(form)) \in 1 .. MaxPerSubmit
          /\ batch' = [batch EXCEPT ![r] = [Idle EXCEPT !.on = TRUE, !.todo = dedupe(form)]]
    /\ UNCHANGED <<up, st, disk, runs, history, crashes, saveFailures>>

\* ingest, to the accepted dispatch.
Dispatch(r) ==
    /\ up /\ batch[r].todo # <<>> /\ batch[r].mark = None
    /\ LET d == Head(batch[r].todo)
       IN  /\ dispatched[d] < MaxDispatches
           /\ batch' = [batch EXCEPT ![r].todo = Tail(@), ![r].mark = d]
           /\ runs' = runs \cup {d}
           /\ dispatched' = [dispatched EXCEPT ![d] = @ + 1]
           /\ sinceBoot' = sinceBoot \cup {d}
    /\ UNCHANGED <<up, st, disk, crashes, saveFailures>>

\* The list cannot be read, the document is no longer in it or not exported, or its
\* dispatch is refused: the next one.
FailOne(r) ==
    /\ up /\ batch[r].todo # <<>> /\ batch[r].mark = None
    /\ batch' = [batch EXCEPT ![r].todo = Tail(@)]
    /\ UNCHANGED <<up, st, disk, runs, history, crashes, saveFailures>>

\* Mutant: the attempt is counted on the entry read before the dispatch.
MarkedLosingCount(entry) ==
    [flight |-> TRUE, outcome |-> None, attempts |-> IF entry.flight THEN entry.attempts
                                                   ELSE entry.attempts + 1]

Marked(entry) == [flight |-> TRUE, outcome |-> None, attempts |-> entry.attempts + 1]

\* ingest, after the dispatch: the whole entry is written anew.
Mark(r) ==
    /\ up /\ batch[r].mark # None
    /\ st' = [st EXCEPT ![batch[r].mark] = Marked(@)]
    /\ batch' = [batch EXCEPT ![r].mark = None, ![r].queued = @ + 1]
    /\ UNCHANGED <<up, disk, runs, history, crashes, saveFailures>>

\* The end of a batch: one save for all it queued.
Finish(r) ==
    /\ up /\ batch[r].on /\ batch[r].todo = <<>> /\ batch[r].mark = None
    /\ batch' = [batch EXCEPT ![r] = Idle]
    /\ IF batch[r].queued > 0 THEN Save(st) ELSE UNCHANGED <<disk, saveFailures>>
    /\ UNCHANGED <<up, st, runs, history, crashes>>

\* RunEnded: a document without an entry is not one of ours.
RunEnded(d) ==
    /\ up /\ d \in runs /\ runs' = runs \ {d}
    /\ IF st[d].attempts = 0 THEN UNCHANGED <<st, disk, saveFailures>>
       ELSE /\ \E o \in {"done", "failed", "needs_input"} :
                  st' = [st EXCEPT ![d].flight = FALSE, ![d].outcome = o]
            /\ Save(st')
    /\ UNCHANGED <<up, batch, history, crashes>>

\* The process dies; the host may resume some runs when it is back.
Crash ==
    /\ up /\ crashes < MaxCrashes
    /\ up' = FALSE /\ crashes' = crashes + 1
    /\ batch' = [r \in Requests |-> Idle]
    /\ runs' \in SUBSET runs
    /\ UNCHANGED <<st, disk, history, saveFailures>>

Cleared(documents) == [d \in Docs |-> [documents[d] EXCEPT !.flight = FALSE]]

\* Start: marks left over are cleared, and saved if there were any.
Start ==
    /\ ~up /\ up' = TRUE
    /\ st' = Cleared(disk)
    /\ IF st' # disk THEN Save(st') ELSE UNCHANGED <<disk, saveFailures>>
    /\ sinceBoot' = {}
    /\ UNCHANGED <<batch, runs, dispatched, crashes>>

Next ==
    \/ \E r \in Requests : \/ Submit(r) \/ Dispatch(r) \/ FailOne(r)
                           \/ Mark(r) \/ Finish(r)
    \/ \E d \in Docs : RunEnded(d)
    \/ Crash \/ Start

Spec == Init /\ [][Next]_vars

-----------------------------------------------------------------------------
(* Properties.                                                              *)

Marking(d) == Cardinality({r \in Requests : batch[r].mark = d})

\* What the status page is drawn from agrees with what was done: without a
\* crash every dispatch is counted once, however submissions of one document
\* interleave; a document in flight was dispatched since the boot; an outcome
\* it shows is on disk unless a save has failed (documents.go 159, state.go 53).
IngestKeepsBooks ==
    up => \A d \in Docs :
        /\ crashes = 0 => st[d].attempts + Marking(d) = dispatched[d]
        /\ st[d].attempts + Marking(d) <= dispatched[d]
        /\ st[d].flight => d \in sinceBoot
        /\ st[d].outcome # None /\ saveFailures = 0 => disk[d].outcome = st[d].outcome

\* "InFlight is true from a successful Dispatch call until RunEnded fires"
\* (state.go 20), and not after: the mark may come after the end.
InFlightIsRunning == up => \A d \in Docs : st[d].flight => d \in runs

==============================================================================
