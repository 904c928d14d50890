-------------------------- MODULE ReviewScopeProofs --------------------------
(***************************************************************************)
(* What a run is told covers what the extension then remembers as told,    *)
(* for any number of commits, comments, runs and restarts.                 *)
(*                                                                         *)
(* The properties are not inductive: they speak of rows written at a run's *)
(* end from a context fetched at its beginning.  ContextIsCovered carries  *)
(* them over the run, whatever is pushed, edited or forgotten meanwhile,   *)
(* and TriggerIsFresh carries the trigger's own comment, which is quoted   *)
(* and not compared, from the webhook to the dispatch.                     *)
(***************************************************************************)
EXTENDS ReviewScope, TLAPS

TriggerIsFresh ==
    event # None =>
        /\ event.id = None => event.version = 0
        /\ event.id # None => event.id \in edited \/ event.version = comments[event.id]

ContextIsCovered ==
    run # None /\ run.ctx # None /\ ~rebuilt =>
        /\ run.ctx.ids \subseteq run.ctx.commits
        /\ run.ctx.commits \subseteq read \cup run.asked
        /\ \A c \in Comments \ edited :
              run.ctx.comments[c] # 0 => <<c, run.ctx.comments[c]>> \in shown \cup run.told

Inv == /\ TypeOK
       /\ TriggerIsFresh
       /\ ContextIsCovered
       /\ BaselineWasRead
       /\ WatermarkWasShown

-----------------------------------------------------------------------------
(* What a dispatch makes of a fetched thread.                               *)

(* The fetched lists are of the right type, whichever fetch failed.         *)
LEMMA FetchedType ==
    ASSUME TypeOK, NEW snap \in FetchSnapshot, snap.ids \subseteq snap.commits
    PROVE  snap \in Snapshot
<1>1. PICK cs \in {commits, {}}, is \in SUBSET commits, cm \in {comments, NoComments} :
         snap = [commits |-> cs, ids |-> is, comments |-> cm]
      BY DEF FetchSnapshot
<1>2. cs \subseteq Patches /\ is \subseteq Patches
      BY DEF TypeOK
<1>3. cm \in [Comments -> Versions]
      BY DEF TypeOK, NoComments, Versions
<1> QED
      BY <1>1, <1>2, <1>3 DEF Snapshot

(* The context a dispatch loads is a run's.                                 *)
LEMMA LoadedType ==
    ASSUME TypeOK, TriggerIsFresh, event # None,
           NEW snap \in FetchSnapshot, snap.ids \subseteq snap.commits,
           NEW prev \in {watermark, None}, NEW base \in {baseline, None}
    PROVE  LoadGithubContext(event, snap, prev, base) \in Run
<1> DEFINE scope == ReviewScopeOf(snap, base)
<1>1. snap \in Snapshot
      BY FetchedType
<1>2. event \in Event
      BY DEF TypeOK
<1>3. (IF scope = None THEN commits ELSE scope) \subseteq Patches
      BY <1>1 DEF TypeOK, ReviewScopeOf, NewCommitsAgainstBaseline, Snapshot
<1>4. CommentsBlock(snap, IF event.review THEN None ELSE prev, event.id)
         \subseteq Comments \X Versions
      BY <1>1 DEF CommentsBlock, Snapshot
<1>5. (IF event.id = None THEN {} ELSE {<<event.id, event.version>>}) \subseteq Comments \X Versions
      BY <1>2 DEF Event
<1> QED
      BY <1>1, <1>2, <1>3, <1>4, <1>5 DEF LoadGithubContext, Run, TypeOK

(* What is compared with the baseline is asked for or was read before.      *)
LEMMA AskedOrRead ==
    ASSUME TypeOK, BaselineWasRead, ~rebuilt,
           NEW snap \in FetchSnapshot, NEW base \in {baseline, None}, NEW prev
    PROVE  snap.commits \subseteq read \cup LoadGithubContext(event, snap, prev, base).asked
<1> DEFINE scope == ReviewScopeOf(snap, base)
<1>1. snap.commits \subseteq commits
      BY DEF FetchSnapshot
<1>2. LoadGithubContext(event, snap, prev, base).asked = IF scope = None THEN commits ELSE scope
      BY DEF LoadGithubContext
<1>3. CASE scope = None
      BY <1>1, <1>2, <1>3
<1>4. CASE scope # None
  <2>1. base # None /\ base = baseline /\ scope = NewCommitsAgainstBaseline(snap, base)
        BY <1>4 DEF ReviewScopeOf
  <2>2. base \subseteq read
        BY <2>1 DEF BaselineWasRead
  <2> QED
        BY <1>2, <1>4, <2>1, <2>2 DEF NewCommitsAgainstBaseline
<1> QED
      BY <1>3, <1>4

(* What is compared with the watermark is told or was shown before; the     *)
(* trigger's comment is quoted.                                             *)
LEMMA ToldOrShown ==
    ASSUME TypeOK, TriggerIsFresh, WatermarkWasShown, event # None, ~rebuilt,
           NEW snap \in FetchSnapshot, NEW base, NEW prev \in {watermark, None},
           NEW c \in Comments \ edited, snap.comments[c] # 0
    PROVE  <<c, snap.comments[c]>> \in
               shown \cup LoadGithubContext(event, snap, prev, base).told
<1> DEFINE from == IF event.review THEN None ELSE prev
           old == IF from = None THEN NoComments ELSE from
           block == CommentsBlock(snap, from, event.id)
           quoted == IF event.id = None THEN {} ELSE {<<event.id, event.version>>}
<1>1. LoadGithubContext(event, snap, prev, base).told = block \cup quoted
      BY DEF LoadGithubContext
<1>2. snap.comments[c] = comments[c]
  <2>1. snap.comments \in {comments, NoComments}
        BY DEF FetchSnapshot
  <2> QED
        BY <2>1 DEF NoComments
<1>3. CASE c = event.id
  <2>1. event.id # None /\ event.version = comments[c]
        BY <1>3, ScopeAssumption DEF TriggerIsFresh
  <2> QED
        BY <1>1, <1>2, <1>3, <2>1
<1>4. CASE c # event.id /\ snap.comments[c] # old[c]
  <2>1. block = {<<d, snap.comments[d]>> : d \in {d \in Comments \ {event.id} :
                    snap.comments[d] # 0 /\ snap.comments[d] # old[d]}}
        BY DEF CommentsBlock
  <2> QED
        BY <1>1, <1>4, <2>1
<1>5. CASE c # event.id /\ snap.comments[c] = old[c]
  <2>1. from # None
        BY <1>5 DEF NoComments
  <2>2. from = watermark
        BY <2>1
  <2> QED
        BY <1>5, <2>1, <2>2 DEF WatermarkWasShown
<1> QED
      BY <1>3, <1>4, <1>5

-----------------------------------------------------------------------------
(* The steps.                                                               *)

LEMMA InitInv == Init => Inv
<1> SUFFICES ASSUME Init PROVE Inv
    OBVIOUS
<1>1. comments \in [Comments -> Versions]
      BY DEF Init, NoComments, Versions
<1>2. changes \in 0 .. MaxChanges /\ runs \in 0 .. MaxRuns /\ restarts \in 0 .. MaxRestarts
      BY ScopeAssumption DEF Init
<1>3. /\ baseline \in (SUBSET Patches) \cup {None} /\ watermark \in [Comments -> Versions] \cup {None}
      /\ event \in Event \cup {None} /\ run \in Run \cup {None}
      BY DEF Init
<1>4. TypeOK
      BY <1>1, <1>2, <1>3 DEF Init, TypeOK
<1> QED
      BY <1>4 DEF Init, Inv, TriggerIsFresh, ContextIsCovered, BaselineWasRead, WatermarkWasShown

(* What happens on GitHub changes neither rows nor context.                 *)
LEMMA PushInv ==
    ASSUME Inv, NEW cs \in SUBSET Patches, Push(cs)
    PROVE  Inv'
<1>1. TypeOK'
      BY ScopeAssumption DEF Inv, TypeOK, Push, rows, history
<1> QED
      BY <1>1 DEF Inv, Push, rows, history, TriggerIsFresh, ContextIsCovered,
                  BaselineWasRead, WatermarkWasShown

LEMMA WriteInv ==
    ASSUME Inv, NEW c \in Comments, Write(c)
    PROVE  Inv'
<1>1. TypeOK'
  <2>1. edited' \subseteq Comments
        BY DEF Inv, TypeOK, Write
  <2>2. comments' \in [Comments -> Versions]
        BY DEF Inv, TypeOK, Write
  <2>3. changes' \in 0 .. MaxChanges
        BY ScopeAssumption DEF Inv, TypeOK, Write
  <2> QED
        BY <2>1, <2>2, <2>3 DEF Inv, TypeOK, Write, rows
<1>2. TriggerIsFresh'
  <2>1. event' = event /\ edited \subseteq edited'
        BY DEF Write
  <2>2. CASE event # None /\ event.id = c
        BY <2>1, <2>2 DEF Write, Inv, TriggerIsFresh
  <2>3. CASE ~(event # None /\ event.id = c)
    <3>1. event # None => comments'[event.id] = comments[event.id] \/ event.id = None
          BY <2>3 DEF Write, Inv, TypeOK, Event
    <3> QED
          BY <2>1, <3>1 DEF Inv, TriggerIsFresh
  <2> QED
        BY <2>2, <2>3
<1>3. edited \subseteq edited'
      BY DEF Write
<1>4. ContextIsCovered' /\ BaselineWasRead' /\ WatermarkWasShown'
      BY <1>3 DEF Inv, Write, rows, ContextIsCovered, BaselineWasRead, WatermarkWasShown
<1> QED
      BY <1>1, <1>2, <1>4 DEF Inv

LEMMA WebhookInv ==
    ASSUME Inv, NEW e \in Event, Webhook(e)
    PROVE  Inv'
<1>1. TypeOK'
      BY ScopeAssumption DEF Inv, TypeOK, Webhook, rows, history, github
<1>2. TriggerIsFresh'
      BY DEF Webhook, TriggerIsFresh, github, history
<1> QED
      BY <1>1, <1>2 DEF Inv, Webhook, rows, history, github, ContextIsCovered,
                        BaselineWasRead, WatermarkWasShown

(* A dispatch: the three lemmas above.                                      *)
LEMMA DispatchInv ==
    ASSUME Inv, Dispatch
    PROVE  Inv'
<1>1. PICK snap \in FetchSnapshot, prev \in {watermark, None}, base \in {baseline, None} :
         /\ snap.ids \subseteq snap.commits
         /\ run' = LoadGithubContext(event, snap, prev, base)
      BY DEF Dispatch
<1>2. event # None /\ event' = None /\ UNCHANGED <<github, rows, history, counters>>
      BY DEF Dispatch
<1>3. run' \in Run
      BY <1>1, <1>2, LoadedType DEF Inv
<1>4. TypeOK'
      BY <1>2, <1>3 DEF Inv, TypeOK, github, rows, history, counters
<1>5. run'.ctx = snap
      BY <1>1 DEF LoadGithubContext
<1>6. ContextIsCovered'
  <2> SUFFICES ASSUME ~rebuilt PROVE ContextIsCovered'
      BY <1>2 DEF ContextIsCovered, history
  <2>1. snap.commits \subseteq read \cup run'.asked
        BY <1>1, AskedOrRead DEF Inv
  <2>2. \A c \in Comments \ edited :
           snap.comments[c] # 0 => <<c, snap.comments[c]>> \in shown \cup run'.told
        BY <1>1, <1>2, ToldOrShown DEF Inv
  <2> QED
        BY <1>1, <1>2, <1>5, <2>1, <2>2 DEF ContextIsCovered, history
<1> QED
      BY <1>2, <1>4, <1>6 DEF Inv, TriggerIsFresh, BaselineWasRead, WatermarkWasShown, rows, history

LEMMA DispatchBlindInv ==
    ASSUME Inv, DispatchBlind
    PROVE  Inv'
<1> DEFINE empty == [commits |-> {}, ids |-> {}, comments |-> NoComments]
<1>1. event \in Event /\ event' = None /\ UNCHANGED <<github, rows, history, counters>>
      BY DEF DispatchBlind, Inv, TypeOK
<1>2. empty \in Snapshot
      BY DEF Snapshot, NoComments, Versions
<1>3. event # None /\ (event.id = None => event.version = 0)
      BY DEF DispatchBlind, Inv, TriggerIsFresh
<1>4. {<<event.id, event.version>>} \ {<<None, 0>>} \subseteq Comments \X Versions
      BY <1>1, <1>3 DEF Event
<1>5. run' \in Run \cup {None}
      BY <1>1, <1>2, <1>4 DEF DispatchBlind, Run, Inv, TypeOK
<1>6. TypeOK'
      BY <1>1, <1>5 DEF Inv, TypeOK, github, rows, history, counters
<1>7. run' # None => run'.ctx = empty
      BY DEF DispatchBlind
<1>8. ContextIsCovered'
      BY <1>7 DEF ContextIsCovered, NoComments
<1> QED
      BY <1>1, <1>6, <1>8 DEF Inv, TriggerIsFresh, BaselineWasRead, WatermarkWasShown, rows, history

(* The end of a run: the rows become its context, the history what it was   *)
(* asked and told.  A context fetched anew is excepted by "rebuilt".        *)
LEMMA RunEndedInv ==
    ASSUME Inv, NEW o \in Outcome, RunEnded(o)
    PROVE  Inv'
<1>1. PICK r \in Settled, posted \in BOOLEAN, wroteRow \in BOOLEAN, wroteBase \in BOOLEAN,
           e \in ReReview(o) :
         /\ PersistGithubSnapshot(r, Persists(o, posted), wroteRow)
         /\ AdvanceReviewBaseline(r, o, wroteBase)
         /\ event' = e
         /\ runs' = IF e = None THEN runs ELSE runs + 1
      BY DEF RunEnded
<1>2. /\ run # None /\ run' = None /\ rebuilt' = (rebuilt \/ run.ctx = None)
      /\ UNCHANGED <<github, edited, changes, restarts>>
      BY DEF RunEnded
<1>3. run \in Run
      BY <1>2 DEF Inv, TypeOK
<1>4. r.ctx \in Snapshot
  <2>1. CASE run.ctx # None
        BY <1>1, <1>3, <2>1 DEF Settled, Run
  <2>2. CASE run.ctx = None
    <3>1. \A snap \in FetchSnapshot : snap.ids \subseteq snap.commits => snap \in Snapshot
          BY FetchedType DEF Inv
    <3>2. [commits |-> {}, ids |-> {}, comments |-> NoComments] \in Snapshot
          BY DEF Snapshot, NoComments, Versions
    <3>3. \/ \E snap \in FetchSnapshot : snap.ids \subseteq snap.commits /\ r = [run EXCEPT !.ctx = snap]
          \/ r = [run EXCEPT !.ctx = [commits |-> {}, ids |-> {}, comments |-> NoComments],
                             !.usable = FALSE]
          BY <1>1, <2>2 DEF Settled, Rebuilt
    <3> QED
          BY <1>3, <3>1, <3>2, <3>3 DEF Run
  <2> QED
        BY <2>1, <2>2
<1>5. event' \in Event \cup {None} /\ (event' # None => event'.id = None /\ event'.version = 0)
  <2>1. e = None \/ e = [review |-> TRUE, id |-> None, version |-> 0]
        BY <1>1 DEF ReReview
  <2>2. [review |-> TRUE, id |-> None, version |-> 0] \in Event
        BY DEF Event, Versions
  <2>3. e # None => e.id = None /\ e.version = 0
        BY <2>1
  <2>4. e \in Event \cup {None}
        BY <2>1, <2>2
  <2> QED
        BY <1>1, <2>3, <2>4
<1>6. runs' \in 0 .. MaxRuns
      BY <1>1, ScopeAssumption DEF ReReview, Inv, TypeOK
<1>7. TypeOK'
  <2>1. baseline' \in (SUBSET Patches) \cup {None} /\ read' \subseteq Patches
        BY <1>1, <1>3, <1>4 DEF AdvanceReviewBaseline, Snapshot, Run, Inv, TypeOK
  <2>2. watermark' \in [Comments -> Versions] \cup {None} /\ shown' \subseteq Comments \X Versions
        BY <1>1, <1>3, <1>4 DEF PersistGithubSnapshot, Snapshot, Run, Inv, TypeOK
  <2>3. rebuilt' \in BOOLEAN
        BY <1>1, <1>2 DEF Inv, TypeOK
  <2> QED
        BY <1>2, <1>5, <1>6, <2>1, <2>2, <2>3 DEF Inv, TypeOK, github
<1>8. read \subseteq read' /\ shown \subseteq shown'
      BY <1>1 DEF AdvanceReviewBaseline, PersistGithubSnapshot
<1>9. ~rebuilt' => ~rebuilt /\ run.ctx # None /\ r = run
      BY <1>1, <1>2 DEF Settled
<1>10. BaselineWasRead'
  <2> SUFFICES ASSUME ~rebuilt', baseline' # None PROVE baseline' \subseteq read'
      BY DEF BaselineWasRead
  <2>1. CASE o.delivery = "review" /\ wroteBase
        BY <1>1, <1>2, <1>9, <2>1 DEF AdvanceReviewBaseline, Inv, ContextIsCovered
  <2>2. CASE ~(o.delivery = "review" /\ wroteBase)
    <3>1. baseline' = baseline
          BY <1>1, <2>2 DEF AdvanceReviewBaseline
    <3> QED
          BY <1>8, <1>9, <3>1 DEF Inv, BaselineWasRead
  <2> QED
        BY <2>1, <2>2
<1>11. WatermarkWasShown'
  <2> DEFINE stored == Persists(o, posted) /\ r.usable /\ wroteRow
  <2> SUFFICES ASSUME ~rebuilt', watermark' # None, NEW c \in Comments \ edited, watermark'[c] # 0
               PROVE  <<c, watermark'[c]>> \in shown'
      BY <1>2 DEF WatermarkWasShown
  <2>1. CASE stored
    <3>1. watermark' = run.ctx.comments /\ shown' = shown \cup run.told
          BY <1>1, <1>9, <2>1 DEF PersistGithubSnapshot
    <3> QED
          BY <1>2, <1>9, <3>1 DEF Inv, ContextIsCovered
  <2>2. CASE ~stored
    <3>1. watermark' = watermark
          BY <1>1, <2>2 DEF PersistGithubSnapshot
    <3> QED
          BY <1>8, <1>9, <3>1 DEF Inv, WatermarkWasShown
  <2> QED
        BY <2>1, <2>2
<1> QED
      BY <1>2, <1>5, <1>7, <1>10, <1>11 DEF Inv, TriggerIsFresh, ContextIsCovered

LEMMA ForgetInv ==
    ASSUME Inv, ForgetChatHistory
    PROVE  Inv'
<1>1. TypeOK'
  <2>1. /\ baseline' \in (SUBSET Patches) \cup {None}
        /\ watermark' \in [Comments -> Versions] \cup {None}
        BY DEF Inv, TypeOK, ForgetChatHistory
  <2> QED
        BY <2>1 DEF Inv, TypeOK, ForgetChatHistory, github, history, counters
<1> QED
      BY <1>1 DEF Inv, ForgetChatHistory, github, history, TriggerIsFresh, ContextIsCovered,
                  BaselineWasRead, WatermarkWasShown

LEMMA RestartInv ==
    ASSUME Inv, Restart
    PROVE  Inv'
<1>1. run' \in Run \cup {None} /\ (run' # None => run'.ctx = None)
      BY DEF Inv, TypeOK, Restart, Run
<1>2. restarts' \in 0 .. MaxRestarts
      BY ScopeAssumption DEF Inv, TypeOK, Restart
<1>3. TypeOK'
      BY <1>1, <1>2 DEF Inv, TypeOK, Restart, github, rows, history
<1> QED
      BY <1>1, <1>3 DEF Inv, Restart, github, rows, history, TriggerIsFresh, ContextIsCovered,
                        BaselineWasRead, WatermarkWasShown

LEMMA StepInv == Inv /\ [Next]_vars => Inv'
<1> SUFFICES ASSUME Inv, [Next]_vars PROVE Inv'
    OBVIOUS
<1>1. CASE Next
      BY <1>1, PushInv, WriteInv, WebhookInv, DispatchInv, DispatchBlindInv, RunEndedInv,
         ForgetInv, RestartInv DEF Next
<1>2. CASE UNCHANGED vars
      BY <1>2 DEF vars, Inv, TypeOK, TriggerIsFresh, ContextIsCovered, BaselineWasRead,
                  WatermarkWasShown
<1> QED
      BY <1>1, <1>2

LEMMA Invariance == Spec => []Inv
      BY InitInv, StepInv, PTL DEF Spec

-----------------------------------------------------------------------------
(* The theorems.                                                            *)

(* The variables keep their types: in particular a row is never anything    *)
(* but what a later dispatch can compare with.                              *)
THEOREM TypeCorrect == Spec => []TypeOK
<1>1. Inv => TypeOK
      BY DEF Inv
<1> QED
      BY Invariance, <1>1, PTL

(* No commit counts as reviewed that no delivered review was asked to read: *)
(* the commits pushed, listed, lost or forgotten while a run was under way  *)
(* included (advanceReviewBaseline).                                        *)
THEOREM BaselineSound == Spec => []BaselineWasRead
<1>1. Inv => BaselineWasRead
      BY DEF Inv
<1> QED
      BY Invariance, <1>1, PTL

(* No comment is taken for seen that no settled run was told of, in the     *)
(* version the row holds (persistGithubSnapshot, commentDelta).             *)
THEOREM WatermarkSound == Spec => []WatermarkWasShown
<1>1. Inv => WatermarkWasShown
      BY DEF Inv
<1> QED
      BY Invariance, <1>1, PTL

(* A run that could list the commits is asked to read every one no          *)
(* delivered review has read (reviewScope).                                 *)
THEOREM ScopeComplete == Spec => []ListedReviewMissesNothing
<1>1. Inv => ListedReviewMissesNothing
      BY DEF Inv, ContextIsCovered, ListedReviewMissesNothing
<1> QED
      BY Invariance, <1>1, PTL
==============================================================================
