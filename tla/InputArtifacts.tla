---------------------------- MODULE InputArtifacts ----------------------------
(***************************************************************************)
(* What a dispatch hands its agent (src/github/artifactio.go).             *)
(*                                                                         *)
(* One endpoint after the other is read, page by page, and stored as a     *)
(* named artifact; a failure skips the one at hand.  Which annotations and *)
(* which linked issues are read comes of what was read before.  Meanwhile  *)
(* the thread goes on: a list grows, at its end or in the middle if it is  *)
(* in an order of its own (files by name), or an item is deleted, and      *)
(* those after it move.  An endpoint or an artifact is <<what, which>>.    *)
(***************************************************************************)
EXTENDS Naturals, Sequences, Functions, FiniteSets, TLC, Selection

CONSTANTS IsPR, CheckSHA,       \* BOOLEAN: the request
          Bodies,               \* what pull requests close: sequences of issue numbers
          Runs,                 \* sequences of check runs, [name, failed]
          Lists,                \* the lists at the start: [endpoint -> Seq(item)]
          Changing,             \* the endpoints whose lists change meanwhile
          Ordered,              \* those whose items are not in the order they came
          sanitizeCheckName(_), \* a check's name as a part of an artifact's
          PageSize, Cap, MaxChanges, MaxFailures

\* The items a list starts with are numbered below 100, each its own.
ArtifactsAssumption ==
    /\ PageSize \in Nat \ {0} /\ Cap \in Nat \ {0} /\ MaxChanges \in Nat /\ MaxFailures \in Nat
    /\ Ordered \subseteq Changing
    /\ \A l \in Lists : /\ l \in [DOMAIN l -> Seq(0 .. 99)] /\ Changing \subseteq DOMAIN l
                         /\ \A e \in DOMAIN l : IsInjective(l[e])

VARIABLES
    lists, body, checks, \* GitHub: each list's items, the description, the runs
    bounds,              \* items grown, inserted and deleted, failures so far
    store,               \* the host: a name -> the content stored under it
    todo,                \* the requests left
    got, page,           \* the items of the one at hand, the page to read next
    since,               \* what its list has held ever since its first page was read
    manifest             \* [name, note, content, since]

github == <<lists, body, checks>>
vars == <<github, bounds, store, todo, got, page, since, manifest>>

\* capped: no more than Cap items are read.
Request(kind, what, which, capped) ==
    [kind |-> kind, of |-> <<what, which>>, name |-> <<what, which>>, capped |-> capped]
Object(what) == Request("object", what, 0, FALSE)
List(what) == Request("list", what, 0, FALSE)
Capped(what) == Request("list", what, 0, TRUE)

\* writeInputArtifacts, in its order.
Endpoints ==
    <<Object("issue"), List("comments")>> \o
    IF ~IsPR THEN <<List("timeline")>>
    ELSE <<Object("pull"), Capped("files"), Capped("commits"), List("reviews"),
           List("review-comments")>>
         \o IF CheckSHA THEN <<Request("checks", "check-runs", 0, FALSE)>> ELSE <<>>

\* Of failed check runs, named for the check.
Annotations(runs) ==
    LET failed == SelectSeq(runs, LAMBDA i : checks[i].failed)
    IN  [k \in DOMAIN failed |->
           [Request("list", "annotations", failed[k], FALSE) EXCEPT
              !.name = <<"annotations", sanitizeCheckName(checks[failed[k]].name)>>]]

\* linkedIssueNumbers: each once, where it is first named.
LinkedIssues(numbers) ==
    LET first == SelectAt(numbers, FirstIndexes(numbers))
    IN  [k \in 1 .. 2 * Len(first) |->
           IF k % 2 = 1
           THEN Request("object", "linked-issue", first[(k + 1) \div 2], FALSE)
           ELSE Request("list", "linked-issue-comments", first[k \div 2], FALSE)]

\* Without a token nothing is written at all.
Init ==
    /\ lists \in Lists /\ body \in Bodies /\ checks \in Runs
    /\ bounds = [grown |-> 0, inserted |-> 0, deleted |-> 0, failed |-> 0]
    /\ store = <<>> /\ todo \in {Endpoints, <<>>}
    /\ got = <<>> /\ page = 1 /\ since = {} /\ manifest = <<>>

-----------------------------------------------------------------------------
(* One endpoint.                                                            *)

Within(b, max) == bounds[b] < max /\ bounds' = [bounds EXCEPT ![b] = @ + 1]

Now == Head(todo)
Begin(rest) == todo' = rest /\ got' = <<>> /\ page' = 1 /\ since' = {}

\* writeArtifact; the host may be unable to.
Write(name, content, note, whole) ==
    \/ /\ store' = (name :> content) @@ store
       /\ manifest' = Append(manifest,
             [name |-> name, content |-> content, note |-> note, since |-> whole])
       /\ UNCHANGED bounds
    \/ Within("failed", MaxFailures) /\ UNCHANGED <<store, manifest>>

\* fetchAndWriteObject; what a pull request links is read at the end.
ReadObject ==
    /\ todo # <<>> /\ Now.kind = "object"
    /\ Write(Now.name, <<>>, "1 object", {})
    /\ Begin(Tail(todo) \o IF Now.of = <<"pull", 0>> THEN LinkedIssues(body) ELSE <<>>)
    /\ UNCHANGED github

\* doPagedGET: the page of the list as it is now; what was there from the first.
Least(a, b) == IF a < b THEN a ELSE b
Read(items) ==
    got \o SubSeq(items, PageSize * (page - 1) + 1, Least(PageSize * page, Len(items)))
Stayed(items) == IF page = 1 THEN Range(items) ELSE since
AtCap(items) == Now.capped /\ Len(items) >= Cap

\* fetchAllPages and fetchCheckRuns: page by page, up to the cap or the last one.
ReadList ==
    /\ todo # <<>> /\ Now.kind \in {"list", "checks"} /\ Now.of \in DOMAIN lists
    /\ LET items == Read(lists[Now.of])
           stayed == Stayed(lists[Now.of])
       IN  \/ /\ ~AtCap(items) /\ Len(lists[Now.of]) > PageSize * page
              /\ got' = items /\ page' = page + 1 /\ since' = stayed
              /\ UNCHANGED <<bounds, store, todo, manifest>>
           \/ /\ AtCap(items)
              /\ Write(Now.name, SubSeq(items, 1, Cap), "cut off", stayed)
              /\ Begin(Tail(todo))
           \/ /\ ~AtCap(items) /\ Len(lists[Now.of]) <= PageSize * page
              /\ Write(Now.name, items, "whole", stayed)
              /\ Begin(IF Now.kind = "checks" THEN Annotations(items) \o Tail(todo) ELSE Tail(todo))
    /\ UNCHANGED github

\* Mutant: what was read before a page failed is kept as if it were the list.
SkippedKeeping(request) ==
    /\ store' = (request.name :> got) @@ store
    /\ manifest' = Append(manifest,
          [name |-> request.name, content |-> got, note |-> "whole", since |-> since])

\* A read that fails leaves that artifact out.
Skipped(request) == UNCHANGED <<store, manifest>>

Fail ==
    /\ todo # <<>> /\ Skipped(Now) /\ Within("failed", MaxFailures)
    /\ Begin(Tail(todo))
    /\ UNCHANGED github

-----------------------------------------------------------------------------
(* The thread.                                                              *)

New == 100 + bounds.grown + bounds.inserted

Grow(e) ==
    /\ Within("grown", MaxChanges)
    /\ lists' = [lists EXCEPT ![e] = Append(@, New)]
    /\ UNCHANGED since

\* x before the i-th of a list.
Before(list, i, x) ==
    [k \in 1 .. Len(list) + 1 |-> IF k < i THEN list[k] ELSE IF k = i THEN x ELSE list[k - 1]]

Insert(e) ==
    /\ e \in Ordered /\ Within("inserted", MaxChanges)
    /\ \E i \in DOMAIN lists[e] : lists' = [lists EXCEPT ![e] = Before(@, i, New)]
    /\ UNCHANGED since

Delete(e) ==
    /\ Within("deleted", MaxChanges)
    /\ \E i \in DOMAIN lists[e] :
          /\ lists' = [lists EXCEPT ![e] = SelectAt(@, DOMAIN @ \ {i})]
          /\ since' = IF todo # <<>> /\ Now.of = e THEN since \ {lists[e][i]} ELSE since

Thread ==
    /\ \E e \in Changing : Grow(e) \/ Insert(e) \/ Delete(e)
    /\ UNCHANGED <<body, checks, store, todo, got, page, manifest>>

Next == ReadObject \/ ReadList \/ Fail \/ Thread

Spec == Init /\ [][Next]_vars

-----------------------------------------------------------------------------
(* Properties.                                                              *)

\* A list the agent is handed holds every item that was in it all the while it
\* was read, unless it says it was cut off, however the list grew, wherever items
\* came in and whichever page failed; and no item twice, unless one came in before
\* others, which shows the last of a page again (artifactio.go 137, 222).
ListsAreWhole ==
    bounds.deleted = 0 =>
        \A k \in DOMAIN manifest :
            /\ bounds.inserted = 0 => IsInjective(manifest[k].content)
            /\ manifest[k].note = "whole" => manifest[k].since \subseteq Range(manifest[k].content)

\* "fetches a list endpoint to exhaustion" (artifactio.go 137): the same, also
\* when an item is deleted between two pages.
ExhaustsTheList ==
    \A k \in DOMAIN manifest :
        manifest[k].note = "whole" => manifest[k].since \subseteq Range(manifest[k].content)

\* "stores each as a named input artifact" (artifactio.go 61): what the manifest
\* lists is what is read under that name.
ManifestNamesEach ==
    \A k \in DOMAIN manifest : store[manifest[k].name] = manifest[k].content

==============================================================================
