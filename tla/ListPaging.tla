----------------------------- MODULE ListPaging -----------------------------
(***************************************************************************)
(* The list tools' filter and paging (projectList and clampList in         *)
(* tools.go).  A client asks for one page after another, each from where   *)
(* the one before ended, until it has the total; other calls may edit the  *)
(* config between two pages.                                               *)
(*                                                                         *)
(* An entry is one that the filter keeps or one that it does not.  Limits  *)
(* and offsets are whatever the client sends, negative ones included.      *)
(***************************************************************************)
EXTENDS Integers, Sequences, SequencesExt

CONSTANTS
    DefaultLimit, MaxLimit,     \* defaultListLimit, maxListLimit
    Names,                      \* names of entries
    Kept,                       \* those with the filter's text in them
    Limits, Offsets,            \* what clients send
    MaxEntries                  \* bound: entries of the list

ASSUME LimitsAssumption ==
    /\ DefaultLimit \in Nat /\ MaxLimit \in Nat
    /\ 1 <= DefaultLimit /\ DefaultLimit <= MaxLimit
ASSUME InputAssumption == Limits \subseteq Int /\ Offsets \subseteq Int
ASSUME KeptAssumption == Kept \subseteq Names
ASSUME MaxEntriesAssumption == MaxEntries \in Nat

VARIABLES
    entries,    \* the stored list, as svc.List returns it
    limit, offset,  \* of the next page
    first,      \* the offset the paging began with
    page,       \* the last answer
    collected,  \* what the pages have shown
    shrunk,     \* an entry was deleted since the paging began
    done        \* the pages have reached the total

vars == <<entries, limit, offset, first, page, collected, shrunk, done>>

NoPage == [total |-> 0, offset |-> 0, count |-> 0, entries |-> <<>>]

Distinct(s) == \A i, j \in DOMAIN s : i # j => s[i] # s[j]

TypeOK ==
    /\ entries \in Seq(Names) /\ Distinct(entries)
    /\ limit \in Limits /\ first \in Offsets
    /\ offset \in Int
    /\ page.entries \in Seq(Kept) /\ Distinct(page.entries)
    /\ page.count = Len(page.entries)
    /\ page.total \in Nat /\ page.offset \in Nat
    /\ shrunk \in BOOLEAN /\ done \in BOOLEAN

Init ==
    /\ \E n \in 0 .. MaxEntries : entries \in {s \in [1 .. n -> Names] : Distinct(s)}
    /\ limit \in Limits
    /\ offset \in Offsets /\ first = offset
    /\ page = NoPage
    /\ collected = <<>>
    /\ shrunk = FALSE
    /\ done = FALSE

-----------------------------------------------------------------------------
(* Mutants: the limit is taken as it comes; no limit gives no entries.     *)
clampListUnlimited(lim, off, n) ==
    LET lo == IF off < 0 THEN 0 ELSE IF off > n THEN n ELSE off
        end == lo + (IF lim <= 0 THEN DefaultLimit ELSE lim) IN
    [lo |-> lo, hi |-> IF end > n THEN n ELSE end]

clampListZeroLimit(lim, off, n) ==
    LET size == IF lim <= 0 THEN 0 ELSE IF lim > MaxLimit THEN MaxLimit ELSE lim
        lo == IF off < 0 THEN 0 ELSE IF off > n THEN n ELSE off IN
    [lo |-> lo, hi |-> IF lo + size > n THEN n ELSE lo + size]

(* The half-open range of the page.                                        *)
clampList(lim, off, n) ==
    LET size == IF lim <= 0 THEN DefaultLimit
                ELSE IF lim > MaxLimit THEN MaxLimit ELSE lim
        lo == IF off < 0 THEN 0 ELSE IF off > n THEN n ELSE off IN
    [lo |-> lo, hi |-> IF lo + size > n THEN n ELSE lo + size]

(* The filter's loop: what it keeps of the first n entries, for every n.   *)
KeptRuns(list) ==
    LET kept[n \in 0 .. Len(list)] ==
            IF n = 0 THEN <<>>
            ELSE IF list[n] \in Kept THEN Append(kept[n - 1], list[n])
            ELSE kept[n - 1] IN
    kept
KeptOf(list) == KeptRuns(list)[Len(list)]

(* Mutant: the page is cut before the filter.                              *)
projectListUnfiltered(list) ==
    LET range == clampList(limit, offset, Len(list))
        out == KeptOf(SubSeq(list, range.lo + 1, range.hi)) IN
    [total |-> Len(list), offset |-> range.lo, count |-> Len(out), entries |-> out]

(* Mutant: the filter counts, and the page is cut from the whole list.     *)
projectListOfAll(list) ==
    LET kept == KeptOf(list)
        range == clampList(limit, offset, Len(kept)) IN
    [total |-> Len(kept), offset |-> range.lo, count |-> range.hi - range.lo,
     entries |-> SubSeq(list, range.lo + 1, range.hi)]

(* The filter first, then the page; the total is that of the filter.       *)
projectList(list) ==
    LET kept == KeptOf(list)
        range == clampList(limit, offset, Len(kept)) IN
    [total |-> Len(kept), offset |-> range.lo, count |-> range.hi - range.lo,
     entries |-> SubSeq(kept, range.lo + 1, range.hi)]

(* A list call, and the client's next offset.                              *)
ListPage ==
    /\ ~done
    /\ page' = projectList(entries)
    /\ collected' = collected \o page'.entries
    /\ offset' = page'.offset + page'.count
    /\ done' = (offset' >= page'.total)
    /\ UNCHANGED <<entries, limit, first, shrunk>>

(* Other calls create entries, at the end, and delete them.                *)
CreateEntry ==
    /\ ~done
    /\ Len(entries) < MaxEntries
    /\ \E e \in Names \ ToSet(entries) : entries' = Append(entries, e)
    /\ UNCHANGED <<limit, offset, first, page, collected, shrunk, done>>

DeleteEntry ==
    /\ ~done
    /\ \E i \in DOMAIN entries : entries' = RemoveAt(entries, i)
    /\ shrunk' = TRUE
    /\ UNCHANGED <<limit, offset, first, page, collected, done>>

Next == ListPage \/ CreateEntry \/ DeleteEntry

Spec == Init /\ [][Next]_vars

(* The client goes on to the end.                                          *)
FairSpec == Spec /\ WF_vars(ListPage)

-----------------------------------------------------------------------------
(* Whatever limit and offset a client sends, a page lies within the list   *)
(* and holds no more than MaxLimit entries, and it is empty only at the    *)
(* list's end (clampList).                                                 *)
PageInList ==
    /\ page.offset + page.count <= page.total
    /\ page.count \in 0 .. MaxLimit
    /\ page.count = 0 => page.offset = page.total

(* The pages of a list that only grows are the list from the first offset  *)
(* on, in order, each entry once and none missed; so are those of a list   *)
(* nobody touches (projectList).                                           *)
PagesAreTheList ==
    ~shrunk =>
        LET kept == KeptOf(entries)
            lo == clampList(limit, first, page.total).lo IN
        /\ IsPrefix(collected, SubSeq(kept, lo + 1, Len(kept)))
        /\ done => Len(collected) = page.total - lo

(* A client that follows the pages reaches the end, however the list       *)
(* changes under it: no page leaves it where it was.                       *)
PagingEnds == <>done
=============================================================================
