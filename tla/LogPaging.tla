------------------------------ MODULE LogPaging ------------------------------
(***************************************************************************)
(* Paging through a log with panos_log_query (encodeLogEntries and logPage *)
(* in log_tools.go).  A client asks for pages, each with skip set to the   *)
(* next_skip of the one before, until an answer has none; the log grows    *)
(* between the pages.  The device returns at most nlogs entries after      *)
(* skip, newest first or oldest first; the server keeps the wanted fields  *)
(* and cuts the page where its size budget ends.                           *)
(*                                                                         *)
(* An entry has an attribute of size 1, which is always kept, the field a  *)
(* client may ask for and other fields: "asked" and "other" are the sizes  *)
(* of those, 0 where the entry has none.                                   *)
(*                                                                         *)
(* Its names are its own (LogInit, LogNext), so that a module can extend   *)
(* it beside ListPaging.                                                   *)
(***************************************************************************)
EXTENDS Integers, Sequences, SequencesExt, FiniteSets

CONSTANTS
    FieldSizes,     \* sizes a field can have
    Nlogs,          \* entries a client asks for (log_tools.go:26-27)
    Budget,         \* logResultBudget
    MaxLog          \* bound: entries the log grows to

ASSUME NlogsAssumption == Nlogs \in Nat \ {0}
ASSUME BudgetAssumption == Budget \in Nat
ASSUME MaxLogAssumption == MaxLog \in Nat
ASSUME FieldSizesAssumption == FieldSizes \subseteq Nat

Entries == [asked : FieldSizes, other : FieldSizes]

VARIABLES
    log,        \* the matching entries, oldest first
    direction, wanted,  \* of the query: "wanted" when it names the field
    start,      \* the length of the log when the paging began
    skip,       \* of the next page
    reply,      \* the last answer
    shown,      \* the entries shown so far, by their place in the log, in order
    finished    \* whether the last answer has no next_skip

logVars == <<log, direction, wanted, start, skip, reply, shown, finished>>

NoReply == [out |-> <<>>, truncated |-> FALSE, unmatched |-> FALSE]

LogTypeOK ==
    /\ log \in Seq(Entries) /\ Len(log) <= MaxLog
    /\ direction \in {"forward", "backward"}
    /\ wanted \in BOOLEAN /\ finished \in BOOLEAN
    /\ start \in 0 .. Len(log) /\ skip \in 0 .. Len(log)
    /\ reply.truncated \in BOOLEAN /\ reply.unmatched \in BOOLEAN
    /\ reply.out \in Seq(1 .. Len(log)) /\ Len(reply.out) <= Nlogs
    /\ shown \in Seq(1 .. Len(log))

LogInit ==
    /\ \E n \in 0 .. MaxLog : log \in [1 .. n -> Entries]
    /\ direction \in {"forward", "backward"}
    /\ wanted \in BOOLEAN
    /\ start = Len(log)
    /\ skip = 0
    /\ reply = NoReply
    /\ shown = <<>>
    /\ finished = FALSE

-----------------------------------------------------------------------------
(* The device: the places of the entries of a page, in its order.          *)
DevicePage ==
    LET n == IF skip + Nlogs <= Len(log) THEN Nlogs ELSE Len(log) - skip IN
    [i \in 1 .. n |-> IF direction = "forward" THEN skip + i
                                              ELSE Len(log) + 1 - (skip + i)]

(* projectLogFields and encodeLogEntry, reduced to sizes.                  *)
SizeOf(entry) == 1 + entry.asked + (IF wanted THEN 0 ELSE entry.other)

(* The sizes of the first k of some entries together, for every k.         *)
SizesOf(places) ==
    LET sum[k \in 0 .. Len(places)] ==
            IF k = 0 THEN 0 ELSE sum[k - 1] + SizeOf(log[places[k]]) IN
    sum
SizeOfAll(places) == SizesOf(places)[Len(places)]

Matches(entry) == wanted /\ entry.asked > 0

Uncut == [out |-> <<>>, size |-> 0, truncated |-> FALSE, matched |-> FALSE]

(* Mutant: the budget cuts the first entry too.                            *)
encodeNextAll(acc, p) ==
    LET size == acc.size + SizeOf(log[p]) IN
    IF acc.truncated \/ size > Budget
    THEN [acc EXCEPT !.truncated = TRUE]
    ELSE [out |-> Append(acc.out, p), size |-> size, truncated |-> FALSE,
          matched |-> acc.matched \/ Matches(log[p])]

(* Mutant: the size is compared before the entry is added to it.           *)
encodeNextLate(acc, p) ==
    LET seen == acc.matched \/ Matches(log[p]) IN
    IF acc.truncated \/ (acc.out # <<>> /\ acc.size > Budget)
    THEN [acc EXCEPT !.truncated = TRUE, !.matched = seen]
    ELSE [out |-> Append(acc.out, p), size |-> acc.size + SizeOf(log[p]),
          truncated |-> FALSE, matched |-> seen]

(* Mutant: an entry over the budget is left out, not the whole tail.       *)
encodeNextThatFits(acc, p) ==
    LET size == acc.size + SizeOf(log[p])
        seen == acc.matched \/ Matches(log[p]) IN
    IF acc.out # <<>> /\ size > Budget
    THEN [acc EXCEPT !.truncated = TRUE, !.matched = seen]
    ELSE [out |-> Append(acc.out, p), size |-> size,
          truncated |-> acc.truncated, matched |-> seen]

(* Mutant: the entries after the cut are not looked at.                    *)
encodeNextToCut(acc, p) ==
    LET size == acc.size + SizeOf(log[p]) IN
    IF acc.truncated \/ (acc.out # <<>> /\ size > Budget)
    THEN [acc EXCEPT !.truncated = TRUE]
    ELSE [out |-> Append(acc.out, p), size |-> size, truncated |-> FALSE,
          matched |-> acc.matched \/ Matches(log[p])]

(* The body of its loop.  The budget cuts only the tail and never the      *)
(* first entry; every entry, cut or not, counts for the fields that        *)
(* matched.                                                                *)
encodeNext(acc, p) ==
    LET size == acc.size + SizeOf(log[p])
        seen == acc.matched \/ Matches(log[p]) IN
    IF acc.truncated \/ (acc.out # <<>> /\ size > Budget)
    THEN [acc EXCEPT !.truncated = TRUE, !.matched = seen]
    ELSE [out |-> Append(acc.out, p), size |-> size, truncated |-> FALSE,
          matched |-> seen]

(* What it has of a page after k entries, for every k, and at the end.     *)
EncodingsOf(places) ==
    LET acc[k \in 0 .. Len(places)] ==
            IF k = 0 THEN Uncut ELSE encodeNext(acc[k - 1], places[k]) IN
    acc
encodeLogEntries(places) == EncodingsOf(places)[Len(places)]

(* Mutants: next_skip goes on from the page's start, or by what was asked. *)
nextSkipOfPage(count) == count
nextSkipOfRequest(count) == skip + Nlogs

nextSkip(count) == skip + count

(* logPage.  next_skip is there when entries were cut or the page is full. *)
LogPage ==
    LET places == DevicePage
        encoded == encodeLogEntries(places) IN
    /\ ~finished
    /\ reply' = [out |-> encoded.out, truncated |-> encoded.truncated,
                unmatched |-> wanted /\ places # <<>> /\ ~encoded.matched]
    /\ shown' = shown \o encoded.out
    /\ IF encoded.truncated \/ Len(places) >= Nlogs
       THEN skip' = nextSkip(Len(encoded.out)) /\ UNCHANGED finished
       ELSE finished' = TRUE /\ UNCHANGED skip
    /\ UNCHANGED <<log, direction, wanted, start>>

(* The log grows.                                                          *)
Arrive ==
    /\ Len(log) < MaxLog
    /\ ~finished
    /\ \E e \in Entries : log' = Append(log, e)
    /\ UNCHANGED <<direction, wanted, start, skip, reply, shown, finished>>

LogNext == LogPage \/ Arrive

LogSpec == LogInit /\ [][LogNext]_logVars

(* The client keeps asking until there is nothing to continue from.        *)
FairLogSpec == LogSpec /\ WF_logVars(LogPage)

-----------------------------------------------------------------------------
(* A client that follows next_skip to the end has been shown every entry   *)
(* the log had when it began, and all along there is no hole between the   *)
(* first entry shown and how far the paging has come, whatever arrives     *)
(* meanwhile and wherever pages are cut (nextSkip).                        *)
NothingSkipped ==
    /\ finished => 1 .. start \subseteq ToSet(shown)
    /\ shown # <<>> =>
        (IF direction = "forward" THEN 1 .. Last(shown) ELSE Last(shown) .. shown[1])
            \subseteq ToSet(shown)

(* No entry is shown twice, unless the log grew under a query that starts  *)
(* at its newest entry (the tool's description warns of that case,         *)
(* op_tools.go:894-895).                                                   *)
NothingTwice ==
    direction = "forward" \/ Len(log) = start =>
        Cardinality(ToSet(shown)) = Len(shown)

(* A page is cut only when it must be: it keeps within the budget unless   *)
(* it is a single entry, and one entry more would not have fitted.         *)
CutWhereItMust ==
    [][LogPage =>
        LET kept == Len(reply'.out) IN
        /\ SizeOfAll(reply'.out) <= Budget \/ kept = 1
        /\ reply'.truncated =>
              SizeOfAll(SubSeq(DevicePage, 1, kept + 1)) > Budget
        /\ ~reply'.truncated => kept = Len(DevicePage)]_logVars

(* A field is reported as unmatched when no entry of the device's page has *)
(* it, the entries that were cut included (log_tools.go:332-334).          *)
UnmatchedIsOfThePage ==
    [][LogPage => reply'.unmatched =
            (wanted /\ DevicePage # <<>>
                    /\ \A i \in DOMAIN DevicePage : log[DevicePage[i]].asked = 0)]_logVars

(* Every page that is to be continued moves on, so that the paging ends    *)
(* when the log stops growing.                                             *)
LogPagingEnds == <>finished
=============================================================================
