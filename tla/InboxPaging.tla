----------------------------- MODULE InboxPaging -----------------------------
(***************************************************************************)
(* Reading one mailbox with the inbox tool (agent/tools/inbox.ts): pages   *)
(* bounded by a number of messages and by the size of the rendered result, *)
(* the nextAfterRowId that continues a page, and the read cursor that the  *)
(* round's commit advances to the last message really rendered             *)
(* (agent/inbox-read-cursors.ts).                                          *)
(***************************************************************************)
EXTENDS Integers, Sequences, FiniteSetsExt

CONSTANTS
    PageLimit,   \* messages a page may hold
    OutputCap,   \* INBOX_OUTPUT_CAP_CHARS, in units of message size
    ContextMax,  \* MAX_CONTEXT_BEFORE
    Sizes,       \* sizes of a projected message; its text is cut to a bound
    MaxInboxRows \* bound: rows of the mailbox

ASSUME PagingAssumption ==
    /\ {PageLimit, OutputCap} \subseteq Nat \ {0} /\ {ContextMax, MaxInboxRows} \subseteq Nat
    /\ Sizes \subseteq 1..OutputCap

VARIABLES
    inboxRows,  \* the sizes of the mailbox's rows, in row order
    readCursor, \* inboxReadCursors of the mailbox
    lastPage,   \* the last result, and whether it awaits its round's commit
    rendered    \* history: rows some committed result rendered

pagingVars == <<inboxRows, readCursor, lastPage, rendered>>

(* A result shows rows from..to of the mailbox: up to row after the        *)
(* context (previousMessages), then the page (messages), both ascending.   *)
NoPage == [from |-> 1, after |-> 0, to |-> 0, hasMore |-> FALSE, pending |-> FALSE]
ShowsNone(page) == page.to = page.after

PagingInit == inboxRows = <<>> /\ readCursor = 0 /\ lastPage = NoPage /\ rendered = {}

(* The size of the first n rows, and of the rows from..to of a payload.    *)
Through(rows, n) ==
    LET sum[k \in 0..Len(rows)] == IF k = 0 THEN 0 ELSE sum[k - 1] + rows[k]
    IN  sum[n]
SizeOf(from, to) == Through(inboxRows, to) - Through(inboxRows, from - 1)

Lesser(a, b) == IF a < b THEN a ELSE b

(* The longest page that leaves the result within the cap, and the longest *)
(* context before it, the nearest rows first, that still does.             *)
LastFitting(after, last) == Max({n \in after..last : SizeOf(after + 1, n) <= OutputCap})
FirstFitting(first, after, to) ==
    Min({n \in first..after + 1 : SizeOf(n, after) <= OutputCap - SizeOf(after + 1, to)})

(* Of the queried rows, which are one more than a page may hold, some are   *)
(* not in the page: they are past it, or no longer fitted.                 *)
HasMore(after, to, queried) == queried > after + PageLimit \/ to < queried

(* renderBoundedRead.                                                      *)
ReadPage(after, context) ==
    LET queried == Lesser(Len(inboxRows), after + PageLimit + 1)
        to == LastFitting(after, Lesser(queried, after + PageLimit))
        first == IF after < context THEN 1 ELSE after - context + 1
    IN  [from |-> FirstFitting(first, after, to), after |-> after, to |-> to,
         hasMore |-> HasMore(after, to, queried), pending |-> TRUE]

MessageStored(size) ==
    /\ Len(inboxRows) < MaxInboxRows
    /\ inboxRows' = Append(inboxRows, size)
    /\ UNCHANGED <<readCursor, lastPage, rendered>>

(* A read from the read cursor, or going on after a page that had more     *)
(* (nextAfterRowId).                                                       *)
Read(context) ==
    /\ ~lastPage.pending
    /\ \/ lastPage' = ReadPage(readCursor, context)
       \/ /\ lastPage.hasMore /\ ~ShowsNone(lastPage)
          /\ lastPage' = ReadPage(lastPage.to, context)
    /\ UNCHANGED <<inboxRows, readCursor, rendered>>

(* Seeded fault: the cursor covers what was asked for.                     *)
AdvancedToQueried(page) == Lesser(Len(inboxRows), page.after + PageLimit)
(* The effect inbox_read, from the rows of the rendered payload; the       *)
(* cursor never goes back.                                                 *)
AdvancedCursor(page) ==
    IF ShowsNone(page) \/ page.to < readCursor THEN readCursor ELSE page.to

CommitRead ==
    /\ lastPage.pending
    /\ readCursor' = AdvancedCursor(lastPage)
    /\ rendered' = rendered \cup lastPage.from..lastPage.to
    /\ lastPage' = [lastPage EXCEPT !.pending = FALSE]
    /\ UNCHANGED inboxRows

(* The round fails, so its effects are not committed either.               *)
LoseRead ==
    /\ lastPage.pending
    /\ lastPage' = NoPage
    /\ UNCHANGED <<inboxRows, readCursor, rendered>>

PagingNext ==
    \/ \E size \in Sizes : MessageStored(size)
    \/ \E context \in 0..ContextMax : Read(context)
    \/ CommitRead
    \/ LoseRead

PagingSpec == PagingInit /\ [][PagingNext]_pagingVars

-----------------------------------------------------------------------------
(* The read cursor only ever covers messages the Agent was shown, however  *)
(* pages are cut by number and size; a page that says more follows shows at *)
(* least one message, so that paging makes progress; and page and context   *)
(* together stay within the cap.                                           *)
CursorCoversShown ==
    /\ 1..readCursor \subseteq rendered
    /\ lastPage.pending =>
          /\ lastPage.hasMore => ~ShowsNone(lastPage)
          /\ SizeOf(lastPage.after + 1, lastPage.to) + SizeOf(lastPage.from, lastPage.after) <= OutputCap
=============================================================================
