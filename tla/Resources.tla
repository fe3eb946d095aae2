------------------------------ MODULE Resources ------------------------------
(***************************************************************************)
(* One entry of one resource, under the tools that write and show it       *)
(* (the cores of tools.go, the handlers of system_scope.go) and under the  *)
(* other administrators and servers of the device, whom no lock of this    *)
(* process holds back.  What the tools of a resource do with its fields is *)
(* its schema's; the order of the handlers of one process is               *)
(* CrudHandlers'.                                                          *)
(***************************************************************************)
EXTENDS Schemas

CONSTANTS
    Kinds,          \* the resources
    SchemaOf(_),    \* the schema of each
    Inputs(_),      \* what callers give its tools
    Entries(_),     \* what other clients of the device store
    Absent,         \* no entry
    NoCall

VARIABLES
    kind,       \* the resource this entry is of
    stored,     \* the entry in the candidate config, or Absent
    call,       \* the write under way: its input, what it read, what it sends
    answer,     \* what the last answer said and which fields it showed
    lost        \* the last write, if it landed and was answered as failed

vars == <<kind, stored, call, answer, lost>>

schema == SchemaOf(kind)

(* The settings of a device are there once: update makes them (systemUpdateHandler). *)
Singleton(s) == "create" \notin s.tools

Write(in, seed, entry, verb) ==
    [in |-> in, seed |-> seed, entry |-> entry, verb |-> verb]
Answers == {"none", "ok", "refused", "failed"}

-----------------------------------------------------------------------------
(* What a field holds, in an entry and in the input of a call.             *)
ElementLists == UNION {[D -> Vals \cup {Unset}] : D \in SUBSET Elements}
Held == Vals \cup {AnyValue, Unset} \cup ElementLists
HeldIn(s, f) == IF f \in s.merge THEN ElementLists \cup {Unset} ELSE Held
Holdings(s, g, b) ==
    {x \in [FieldsOf(g, b) -> Held] : \A f \in FieldsOf(g, b) : x[f] \in HeldIn(s, f)}
GivenValues(s, f) ==
    (IF f \in s.merge THEN ElementLists ELSE Vals) \cup {Unset, Empty, Bad}

EntryShapes(s) ==
    [plain  : [PlainFields(s) -> Held],
     branch : [AllBranches(s) ->
        {Unset} \cup UNION {[FieldsOf(g, b) -> Held] : g \in s.choices, b \in AllBranches(s)}]]

IsEntry(s, e) ==
    /\ e = [plain |-> e.plain, branch |-> e.branch]
    /\ e.plain = [f \in PlainFields(s) |-> e.plain[f]]
    /\ \A f \in PlainFields(s) : e.plain[f] \in HeldIn(s, f)
    /\ e.branch = [b \in AllBranches(s) |-> e.branch[b]]
    /\ \A g \in s.choices : \A b \in Branches(g) :
        e.branch[b] \in Holdings(s, g, b) \cup {Unset}

(* Choices share no branch; a default, and what a branch must have, are    *)
(* of branches that can be picked; nothing needed can be cleared, and a    *)
(* branch that a field names is not taken away by emptying another.        *)
ChoiceOK(s, g) ==
    /\ g.other \cap DOMAIN g.of = {}
    /\ g.beside \subseteq g.other
    /\ g.default \subseteq DOMAIN g.of /\ AtMostOne(g.default)
    /\ g.drop \subseteq Inner(g)
    /\ g.must \/ g.by # NoField => g.drop = {}
    /\ \A b \in g.default : b \notin DOMAIN g.whole /\ b \notin g.some
    /\ \A b \in DOMAIN g.whole : g.whole[b] \subseteq FieldsOf(g, b)
    /\ \A h \in s.choices : h # g => Branches(g) \cap Branches(h) = {}

SchemaOK(s) ==
    /\ \A g \in s.choices : ChoiceOK(s, g)
    /\ s.need \cap (s.clear \cup s.merge) = {}
    /\ s.orAny \subseteq PlainFields(s)
    /\ s.merge \cap s.orAny = {}

(* An input can be empty only where it is a list, or takes a branch away.  *)
InputOK(s, in) ==
    /\ in = [f \in InputFields(s) |-> in[f]]
    /\ \A f \in PlainFields(s) \cup AllInner(s) : in[f] \in GivenValues(s, f)
    /\ \A f \in Selectors(s) : in[f] \in AllBranches(s) \cup {Unset, Bad}
    /\ \A f \in InputFields(s) : in[f] = Empty =>
        \/ f \in s.clear \cup s.members \cup s.orAny \cup s.merge
        \/ \E g \in s.choices : f \in g.drop

ASSUME KindsAssumption ==
    /\ \A k \in Kinds :
        /\ SchemaOK(SchemaOf(k))
        /\ \A in \in Inputs(k) : InputOK(SchemaOf(k), in)
        /\ \A e \in Entries(k) : IsEntry(SchemaOf(k), e) /\ Valid(SchemaOf(k), e)
        /\ \A g \in SchemaOf(k).choices : \A b \in Branches(g) :
            Unset \notin [FieldsOf(g, b) -> Held]
        /\ Absent \notin EntryShapes(SchemaOf(k))
    /\ Unset \notin ElementLists /\ Empty \notin ElementLists

-----------------------------------------------------------------------------
(* What answers show.                                                      *)
Filled(s, e) ==
    {f \in PlainFields(s) : e.plain[f] # Unset} \cup
    UNION {{f \in DOMAIN e.branch[b] : e.branch[b][f] # Unset} :
            b \in {b \in AllBranches(s) : e.branch[b] # Unset}}

(* A summary tells of a secret only whether there is one.                  *)
View(s, e) == Filled(s, e) \ s.secret

(* Mutant: the body is left out only when this call has given a secret.    *)
CollapsesIfGiven(s, in) == \E f \in s.secret : Given(in, f)

(* A resource with a secret never shows the body of a failed write: an     *)
(* update sends again secrets the caller never gave (isSecretBearing).     *)
Collapses(s, in) == s.secret # {}

(* The secrets of this call's input, which are replaced in any message.    *)
Submitted(s, in) == {f \in s.secret : Given(in, f)}

(* What a failed write's message shows.  The device says what is wrong     *)
(* with what it was given, or says nothing and pango quotes the whole      *)
(* body, with all that was sent in it.                                     *)
WriteErrors(s, in, entry) ==
    {{f \in InputFields(s) : Given(in, f)} \ Submitted(s, in),
     IF Collapses(s, in) THEN {} ELSE Filled(s, entry)}

Says(result, shown) == answer' = [result |-> result, shown |-> shown]

-----------------------------------------------------------------------------
(* What lands on the device: an edit replaces the entry, a set merges into *)
(* one of the same name, in which the device keeps one branch of a choice. *)
Over(new, old) == [f \in DOMAIN new |-> IF new[f] # Unset THEN new[f] ELSE old[f]]

SetBranch(s, node, e, b) ==
    LET g == ChoiceOf(s, b) IN
    CASE e.branch[b] # Unset /\ node.branch[b] # Unset ->
            Over(e.branch[b], node.branch[b])
      [] e.branch[b] = Unset /\ ChosenIn(e, g) # {} /\ b \in Replaced(g) -> Unset
      [] e.branch[b] # Unset /\ node.branch[b] = Unset -> e.branch[b]
      [] OTHER -> node.branch[b]

Landed(s, node, w) ==
    IF w.verb = "edit" \/ node = Absent THEN w.entry
    ELSE [plain  |-> Over(w.entry.plain, node.plain),
          branch |-> [b \in AllBranches(s) |-> SetBranch(s, node, w.entry, b)]]

-----------------------------------------------------------------------------
Init ==
    /\ kind \in Kinds
    /\ stored \in Entries(kind) \cup {Absent}
    /\ call = NoCall
    /\ answer = [result |-> "none", shown |-> {}]
    /\ lost = NoCall

(* The handler answers without a request, or without a write.              *)
Refuse ==
    /\ Says("refused", {})
    /\ lost' = NoCall
    /\ UNCHANGED <<kind, stored, call>>

Starts(w) ==
    /\ call' = w
    /\ Says("none", {})
    /\ lost' = NoCall
    /\ UNCHANGED <<kind, stored>>

Create(in) ==
    /\ call = NoCall
    /\ "create" \in schema.tools
    /\ IF AcceptsCreate(schema, in)
       THEN Starts(Write(in, Absent, Built(schema, in), "set"))
       ELSE Refuse

(* The read of a read-modify-write, and the overlay on what it read.       *)
UpdateStored(in) ==
    /\ call = NoCall
    /\ "update" \in schema.tools
    /\ stored # Absent
    /\ IF Accepts(schema, stored, in)
       THEN Starts(Write(in, stored, Overlaid(schema, stored, in), "edit"))
       ELSE Refuse

(* Settings that are not there yet are overlaid on nothing and created.    *)
UpdateAbsent(in) ==
    /\ call = NoCall
    /\ "update" \in schema.tools
    /\ stored = Absent
    /\ IF Singleton(schema) /\ AcceptsCreate(schema, in)
       THEN Starts(Write(in, Absent, Built(schema, in), "set"))
       ELSE Refuse

(* An edit finds the entry gone, when another client has deleted it.       *)
Lands == call.verb = "set" \/ stored # Absent

WriteOk ==
    /\ call # NoCall
    /\ Lands
    /\ stored' = Landed(schema, stored, call)
    /\ Says("ok", View(schema, stored'))
    /\ call' = NoCall
    /\ lost' = NoCall
    /\ UNCHANGED kind

(* A write that is answered as failed has landed or not.                   *)
WriteFails ==
    /\ call # NoCall
    /\ \E shown \in WriteErrors(schema, call.in, call.entry) : Says("failed", shown)
    /\ \/ /\ Lands
          /\ stored' = Landed(schema, stored, call)
          /\ lost' = [call EXCEPT !.seed = Absent]
       \/ UNCHANGED <<stored, lost>>
    /\ call' = NoCall
    /\ UNCHANGED kind

Delete ==
    /\ call = NoCall
    /\ "delete" \in schema.tools
    /\ \/ stored # Absent /\ Says("ok", {}) /\ stored' = Absent
       \/ Says("failed", {}) /\ stored' \in {stored, Absent}
    /\ lost' = NoCall
    /\ UNCHANGED <<kind, call>>

(* get and list.  The body of a failed read is never shown.                *)
Show ==
    /\ call = NoCall
    /\ \/ stored # Absent /\ Says("ok", View(schema, stored))
       \/ Says("failed", {})
    /\ lost' = NoCall
    /\ UNCHANGED <<kind, stored, call>>

(* Another administrator, or another server, edits or deletes the entry.   *)
Elsewhere ==
    /\ stored' \in Entries(kind) \cup {Absent}
    /\ stored' # stored
    /\ Says("none", {})
    /\ lost' = NoCall
    /\ UNCHANGED <<kind, call>>

Next ==
    \/ \E in \in Inputs(kind) : Create(in) \/ UpdateStored(in) \/ UpdateAbsent(in)
    \/ WriteOk \/ WriteFails \/ Delete \/ Show \/ Elsewhere

Spec == Init /\ [][Next]_vars

-----------------------------------------------------------------------------
IsWrite(c) ==
    /\ c = Write(c.in, c.seed, c.entry, c.verb)
    /\ c.in \in Inputs(kind)
    /\ IsEntry(schema, c.entry)
    /\ c.seed # Absent => IsEntry(schema, c.seed)
    /\ c.verb \in {"set", "edit"}

TypeOK ==
    /\ kind \in Kinds
    /\ stored # Absent => IsEntry(schema, stored)
    /\ call # NoCall => IsWrite(call)
    /\ lost # NoCall => IsWrite(lost)
    /\ answer.result \in Answers

(* No sequence of creates and updates, whoever else edits the entry in     *)
(* between and whichever answers are lost, leaves an entry with two        *)
(* branches of a choice (the overlay functions clear the others).          *)
StoredOneKind == stored # Absent => OneBranch(schema, stored)

(* Nor one without a branch it must have, or without what the resource or  *)
(* the branch cannot be without: a switch of branches, a cleared list or a *)
(* write that merges with another's leaves no half of one.                 *)
StoredComplete == stored # Absent => Complete(schema, stored)

(* A call whose answer was lost can be made again: while nobody else has   *)
(* touched the entry, an update is accepted and a create would set the     *)
(* same, and the entry stays as it is.                                     *)
RetryIsIdle ==
    lost # NoCall =>
        /\ stored # Absent
        /\ "update" \in schema.tools /\ lost.verb = "edit" =>
            /\ Accepts(schema, stored, lost.in)
            /\ Overlaid(schema, stored, lost.in) = stored
        /\ lost.verb = "set" => Landed(schema, stored, lost) = stored

(* A secret is never shown: not by a summary, and not by the message of a  *)
(* failed write, which can quote the stored secret that an update sends    *)
(* again (issue 99 of the repository, redact.go).                          *)
NoSecretShown == answer.shown \cap schema.secret = {}

(* An update that lands on the entry it read keeps what was not given:     *)
(* plain fields, what an element of a list that is given again had (the    *)
(* secret of a server), the choices none of whose fields were given and,   *)
(* where picking a branch again does not rebuild it, its other fields.     *)
KeepsPlain(in) ==
    \A f \in PlainFields(schema) :
        IF ~Given(in, f) THEN stored'.plain[f] = stored.plain[f]
        ELSE f \in schema.merge /\ Wanted(in, f) /\ stored.plain[f] # Unset =>
            \A n \in DOMAIN in[f] \cap DOMAIN stored.plain[f] :
                in[f][n] = Unset => stored'.plain[f][n] = stored.plain[f][n]
KeepsBranches(in) ==
    \A g \in schema.choices :
        /\ GivenIn(g, in) = {} /\ Picked(g, in) = {} =>
            \A b \in Branches(g) : stored'.branch[b] = stored.branch[b]
        /\ \A b \in ChosenIn(stored, g) \cap ChosenIn(stored', g) :
            \A f \in DOMAIN stored.branch[b] :
                f \in g.hidden \/ (g.seed /\ ~Given(in, f)) =>
                    stored'.branch[b][f] = stored.branch[b][f]
KeepsTheRest == [][
    call # NoCall /\ call' = NoCall /\ stored # Absent /\ stored = call.seed =>
        stored' # Absent /\ KeepsPlain(call.in) /\ KeepsBranches(call.in)]_vars
=============================================================================
