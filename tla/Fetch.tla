-------------------------------- MODULE Fetch --------------------------------
(***************************************************************************)
(* One search as the pipeline reads it: iter_search_pages and              *)
(* _full_changelog of pipeline/sync_issues.py over the requests of         *)
(* jira/client.py, against a server that answers late, refuses, caps pages *)
(* as it likes, and whose answer changes while it is read.                 *)
(***************************************************************************)
EXTENDS Integers, Sequences, FiniteSets, SequencesExt

CONSTANTS
    Issues,         \* the issues that match the query
    TotalOf,        \* the length of each one's changelog
    Inline,         \* histories a search or an issue answers with
    Caps,           \* the maxResults the server may answer with
    MaxAttempts,    \* MAX_ATTEMPTS
    MaxEdits        \* bound on the edits while pages are read

ASSUME IssueAssumption  == IsFiniteSet(Issues) /\ TotalOf \in [Issues -> Nat]
ASSUME ServerAssumption == Inline \in Nat /\ Caps \subseteq Nat
ASSUME BoundAssumption  == MaxAttempts \in Nat \ {0} /\ MaxEdits \in Nat

VARIABLES
    order,      \* Jira: the issues ORDER BY updated ASC
    edits,
    pc,         \* the request under way, or how it ended
    attempt,    \* of that request, from 1
    startAt,    \* of the next page
    total, cap, \* what the last page said of itself
    page,       \* its issues still to be looked at
    yielded,    \* the issues looked at, in order
    kept,       \* the histories collected of each
    offered,    \* the histories the server ever served of each
    truncated,  \* the issues counted in changelog_truncated
    stalled,    \* whether a page said maxResults is 0
    sliced      \* the issues a second call was answered of from the middle

vars == <<order, edits, pc, attempt, startAt, total, cap, page, yielded, kept, offered,
          truncated, stalled, sliced>>

Histories == UNION {1 .. TotalOf[i] : i \in Issues}

TypeOK ==
    /\ order \in SetToSeqs(Issues)
    /\ edits \in 0 .. MaxEdits
    /\ pc \in {"search", "page", "changelog", "done", "failed"}
    /\ attempt \in 1 .. MaxAttempts
    /\ startAt \in Nat /\ total \in Nat /\ cap \in Caps \cup {0}
    /\ page \in Seq(Issues) /\ yielded \in Seq(Issues)
    /\ pc = "changelog" => page # <<>>
    /\ kept \in [Issues -> SUBSET Histories] /\ offered \in [Issues -> SUBSET Histories]
    /\ truncated \subseteq Issues /\ sliced \subseteq Issues /\ stalled \in BOOLEAN
-----------------------------------------------------------------------------
(* An issue is edited while the run is reading: it goes to the end. *)
Edit(n) ==
    /\ edits < MaxEdits /\ pc \notin {"done", "failed"}
    /\ n < Len(order)
    /\ order' = Append(RemoveAt(order, n), order[n])
    /\ edits' = edits + 1
    /\ UNCHANGED <<pc, attempt, startAt, total, cap, page, yielded, kept, offered,
                   truncated, stalled, sliced>>
-----------------------------------------------------------------------------
(* _request.                                                               *)

GivesUp(n) == n = MaxAttempts

(* 429 or 5xx: sleep and try again, or give up. *)
Retry ==
    /\ pc \in {"search", "changelog"}
    /\ IF GivesUp(attempt) THEN pc' = "failed" /\ UNCHANGED attempt
                                ELSE attempt' = attempt + 1 /\ UNCHANGED pc
    /\ UNCHANGED <<order, edits, startAt, total, cap, page, yielded, kept, offered,
                   truncated, stalled, sliced>>

NoAnswer == 0

(* Mutant: a 404 is an empty answer whatever was asked. *)
RefusedAsEmpty(answer) == IF answer = 404 THEN "done" ELSE "failed"

(* 401, 403: JiraAuthError; 404 and the rest: raise_for_status.  A timeout *)
(* of httpx or a broken connection is no answer: it is caught by nobody    *)
(* and not tried again (client.py:53).                                     *)
Refused(answer) == "failed"

Refuse ==
    /\ pc \in {"search", "changelog"}
    /\ \E answer \in {NoAnswer, 401, 403, 404, 400} : pc' = Refused(answer)
    /\ UNCHANGED <<order, edits, attempt, startAt, total, cap, page, yielded, kept, offered,
                   truncated, stalled, sliced>>
-----------------------------------------------------------------------------
(* iter_search_pages.                                                      *)

(* The server caps the page at m; one that says 0 may still send an issue. *)
SearchAnswer ==
    \E m \in Caps :
        LET issues == SubSeq(order, startAt + 1, Min({startAt + Max({m, 1}), Len(order)}))
        IN  /\ pc = "search"
            /\ page' = issues /\ cap' = m /\ total' = Len(order)
            /\ stalled' = (stalled \/ (m = 0 /\ issues # <<>>))
            /\ pc' = IF issues = <<>> THEN "done" ELSE "page"
            /\ attempt' = 1
            /\ UNCHANGED <<order, edits, startAt, yielded, kept, offered, truncated, sliced>>

(* Mutant: the page size that was asked for. *)
AdvanceByRequest(c) == IF c = 0 \/ startAt + Max(Caps) >= total THEN {} ELSE {startAt + Max(Caps)}

(* The offset of the page after one capped at c, if another is asked for. *)
Advance(c) == IF c = 0 \/ startAt + c >= total THEN {} ELSE {startAt + c}

PageDone ==
    /\ pc = "page" /\ page = <<>>
    /\ IF Advance(cap) = {}
       THEN pc' = "done" /\ UNCHANGED startAt
       ELSE pc' = "search" /\ startAt' \in Advance(cap)
    /\ UNCHANGED <<order, edits, attempt, total, cap, page, yielded, kept, offered,
                   truncated, stalled, sliced>>
-----------------------------------------------------------------------------
(* _full_changelog.                                                        *)

(* Mutant: truncation is judged by what one answer holds. *)
FallsShortOfInline(i, got) == Cardinality(got) < Min({Inline, TotalOf[i]})

FallsShort(i, got) == Cardinality(got) < TotalOf[i]

(* The issue at the head of the page is done with, and got is its changelog. *)
Leave(got) ==
    LET i == Head(page)
    IN  /\ pc' = "page" /\ page' = Tail(page)
        /\ yielded' = Append(yielded, i)
        /\ kept' = [kept EXCEPT ![i] = got]
        /\ truncated' = IF FallsShort(i, got) THEN truncated \cup {i} ELSE truncated

(* The histories that came with the search. *)
TakeIssue ==
    /\ pc = "page" /\ page # <<>>
    /\ LET i == Head(page)
           got == 1 .. Min({Inline, TotalOf[i]})
       IN  /\ offered' = [offered EXCEPT ![i] = got]
           /\ IF Inline < TotalOf[i]
              THEN /\ pc' = "changelog" /\ kept' = [kept EXCEPT ![i] = got]
                   /\ UNCHANGED <<page, yielded, truncated>>
              ELSE Leave(got)
    /\ attempt' = 1
    /\ UNCHANGED <<order, edits, startAt, total, cap, stalled, sliced>>

(* Mutant: one history too many is dropped. *)
SlicedTooFar(S, n) == {h \in S : Cardinality({g \in S : g < h}) > n}

(* get_issue_changelog drops as many histories as there already are from   *)
(* the front of whatever the server sends.                                 *)
Sliced(S, n) == {h \in S : Cardinality({g \in S : g < h}) >= n}

(* The server repeats or lengthens its first answer, or sends another part. *)
Answers(i) ==
    {1 .. n : n \in Inline .. TotalOf[i]} \cup {n .. TotalOf[i] : n \in 2 .. TotalOf[i]}

(* Mutant: a call that brought nothing new is repeated. *)
StopsWhenComplete(fresh, i, got) == ~FallsShort(i, got)

(* The while loop and its no-progress guard. *)
Stops(fresh, i, got) == fresh = {} \/ ~FallsShort(i, got)

ChangelogAnswer ==
    /\ pc = "changelog"
    /\ LET i == Head(page)
       IN  \E sent \in Answers(i) :
              LET fresh == Sliced(sent, Cardinality(kept[i])) \ kept[i]
                  got   == kept[i] \cup fresh
              IN  /\ offered' = [offered EXCEPT ![i] = @ \cup sent]
                  /\ sliced' = IF 1 \in sent THEN sliced ELSE sliced \cup {i}
                  /\ IF Stops(fresh, i, got)
                     THEN Leave(got)
                     ELSE /\ kept' = [kept EXCEPT ![i] = got]
                          /\ UNCHANGED <<pc, page, yielded, truncated>>
    /\ attempt' = 1
    /\ UNCHANGED <<order, edits, startAt, total, cap, stalled>>
-----------------------------------------------------------------------------
Init ==
    /\ order \in SetToSeqs(Issues) /\ edits = 0
    /\ pc = "search" /\ attempt = 1 /\ startAt = 0 /\ total = 0 /\ cap = 0
    /\ page = <<>> /\ yielded = <<>>
    /\ kept = [i \in Issues |-> {}] /\ offered = kept
    /\ truncated = {} /\ sliced = {} /\ stalled = FALSE

Client == Retry \/ Refuse \/ SearchAnswer \/ PageDone \/ TakeIssue \/ ChangelogAnswer

Next == Client \/ \E n \in DOMAIN order : Edit(n)

Spec == Init /\ [][Next]_vars

(* A request is answered, or httpx raises after the client's timeout. *)
FairSpec == Spec /\ WF_vars(Client)
-----------------------------------------------------------------------------
(* Properties.                                                             *)

Ended == pc = "done"

(* A search that ends without an error has yielded each issue once, in     *)
(* order, whatever page sizes and failures it met, if nothing was edited   *)
(* meanwhile: no refusal is ever taken for an empty answer (client.py:47-50). *)
Complete == Ended /\ edits = 0 /\ ~stalled => yielded = order

(* While pages are read each edit makes the search skip at most one issue. *)
SkipsBounded ==
    Ended /\ ~stalled =>
        Cardinality(Issues) - Cardinality({yielded[n] : n \in DOMAIN yielded}) <= edits

Left(i) == i \in ToSet(yielded) /\ i \notin ToSet(page)

(* An issue of which less is kept than its changelog has is counted as     *)
(* truncated, whatever the server answered (sync_issues.py:95).            *)
TruncationIsTold ==
    \A i \in Issues : Left(i) => kept[i] = 1 .. TotalOf[i] \/ i \in truncated

(* Of a server that always answers from the first history on, each history *)
(* it ever sent is kept, without a gap (client.py:109-116).                *)
OfferedIsKept ==
    \A i \in Issues : Left(i) /\ i \notin sliced =>
        offered[i] \subseteq kept[i] /\ kept[i] = 1 .. Cardinality(kept[i])

(* Every search ends, even over answers that make no progress. *)
Terminates == <>(pc \in {"done", "failed"})
=============================================================================
