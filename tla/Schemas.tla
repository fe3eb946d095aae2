------------------------------- MODULE Schemas -------------------------------
(***************************************************************************)
(* What the tools of one resource do with an entry.  Each resource has a   *)
(* build function for create and an overlay function for update; they are  *)
(* made of a few parts (setStrPtr, setPtr, replaceListOrRejectEmpty,       *)
(* orAny, merging by name, one-of branches), and a schema says which field *)
(* is treated by which part.                                               *)
(*                                                                         *)
(* An entry gives each plain field a value or leaves it Unset, and has a   *)
(* branch or Unset for each alternative of a choice, as pango's structs    *)
(* have a pointer for each.  An input omits a field (Unset), gives a list  *)
(* with nothing in it (Empty), a value the handler refuses (Bad), or a     *)
(* value.                                                                  *)
(***************************************************************************)
EXTENDS FiniteSets

CONSTANTS
    Vals,       \* values of a field
    Elements,   \* names of the elements of a list that is merged by name
    Unset, Empty, Bad, AnyValue,
    NoField     \* a choice that no field of its own selects

ASSUME ValuesAssumption ==
    /\ {Unset, Empty, Bad} \cap (Vals \cup {AnyValue}) = {}
    /\ Unset \notin {Empty, Bad} /\ Empty # Bad

(* A resource with the five tools and nothing but a name.                  *)
Plain == [
    at      |-> "object",       \* where it can be: the scopes of its location
    tools   |-> {"list", "get", "create", "update", "delete"},
    keep    |-> {},     \* setStrPtr, setPtr: an empty input leaves it alone
    clear   |-> {},     \* a list: an empty one clears it
    members |-> {},     \* a list: an empty one is refused
    orAny   |-> {},     \* a list: create defaults it to any, empty leaves it
    merge   |-> {},     \* a list of named elements, each merged into its old one
    checked |-> {},     \* fields with values the handler refuses
    need    |-> {},     \* fields create refuses to do without
    with    |-> [f \in {} |-> {}],  \* fields refused without some others
    secret  |-> {},     \* fields no answer shows
    choices |-> {}]

(* A choice between branches, each with the fields it holds.  Giving a     *)
(* field of a branch, or naming the branch in the field by, picks it.      *)
Choice == [
    by      |-> NoField,
    of      |-> [b \in {} |-> {}],
    other   |-> {},     \* branches no input can pick, set by other clients
    beside  |-> {},     \* of these, those left standing beside a picked one
    loose   |-> {},     \* fields another branch ignores when they are empty
    must    |-> FALSE,  \* create refuses to do without a branch
    seed    |-> FALSE,  \* picking the stored branch again keeps its fields
    hidden  |-> {},     \* fields without an input, kept with their branch
    whole   |-> [b \in {} |-> {}],  \* what a branch cannot be without
    some    |-> {},     \* branches that cannot be left with no field at all
    inplace |-> FALSE,  \* the stored branch's fields can be given without by
    fixed   |-> FALSE,  \* a stored branch is not changed for another
    default |-> {},     \* the branch create makes when the input picks none
    drop    |-> {},     \* fields that given empty take the branch away
    apart   |-> {}]     \* sets of fields of which at most one may be given

(* One value, held by one of several fields.                               *)
OneOf(fields) == [Choice EXCEPT !.of = [b \in fields |-> {b}]]

Branches(g) == DOMAIN g.of \cup g.other
FieldsOf(g, b) == (IF b \in DOMAIN g.of THEN g.of[b] ELSE {}) \cup g.hidden
Inner(g) == UNION {g.of[b] : b \in DOMAIN g.of}
AllInner(s) == UNION {Inner(g) : g \in s.choices}
AllBranches(s) == UNION {Branches(g) : g \in s.choices}
PlainFields(s) ==
    (s.keep \cup s.clear \cup s.members \cup s.orAny \cup s.merge) \ AllInner(s)
Selectors(s) == {g.by : g \in s.choices} \ {NoField}
InputFields(s) == PlainFields(s) \cup AllInner(s) \cup Selectors(s)

Blank(s) ==
    [plain  |-> [f \in PlainFields(s) |-> Unset],
     branch |-> [b \in AllBranches(s) |-> Unset]]

-----------------------------------------------------------------------------
Given(in, f) == in[f] # Unset
Wanted(in, f) == in[f] \notin {Unset, Empty}
ChosenIn(e, g) == {b \in Branches(g) : e.branch[b] # Unset}
AtMostOne(S) == \A x, y \in S : x = y

(* Elements the input names take over what the stored ones of their name   *)
(* have and the input omits; the others are gone (indexByName).            *)
Merged(old, new) ==
    [n \in DOMAIN new |->
        IF new[n] # Unset THEN new[n]
        ELSE IF old # Unset /\ n \in DOMAIN old THEN old[n] ELSE Unset]

(* Mutant: elements of a list are built fresh.                             *)
LaidFresh(s, in, f, old) ==
    CASE in[f] = Unset -> old
      [] in[f] = Empty -> IF f \in s.orAny THEN old ELSE Unset
      [] Wanted(in, f) -> in[f]

(* What an input leaves in a field that held old.                          *)
Laid(s, in, f, old) ==
    CASE in[f] = Unset -> old
      [] in[f] = Empty -> IF f \in s.orAny THEN old ELSE Unset
      [] Wanted(in, f) -> IF f \in s.merge THEN Merged(old, in[f]) ELSE in[f]

(* The branches of a choice that an input picks.                           *)
Picks(g, in, b) ==
    \E f \in g.of[b] : IF f \in g.drop THEN Wanted(in, f) ELSE Given(in, f)
Picked(g, in) ==
    IF g.by # NoField THEN {in[g.by]} \ {Unset}
    ELSE {b \in DOMAIN g.of : Picks(g, in, b)}
GivenIn(g, in) == {f \in Inner(g) : Given(in, f)}
Meant(g, in) == {f \in GivenIn(g, in) : f \notin g.loose \/ Wanted(in, f)}

(* Mutant: a branch that no input can pick survives another's being picked.*)
ReplacedOwn(g) == DOMAIN g.of

(* The branches that picking one takes away with it.                       *)
Replaced(g) == Branches(g) \ g.beside

(* A branch with the input's fields over those it keeps.                   *)
Rebuilt(s, g, in, b, kept) ==
    [f \in FieldsOf(g, b) |->
        IF f \in g.hidden THEN kept[f] ELSE Laid(s, in, f, kept[f])]

(* What the branch b keeps of the stored one when an input picks it.       *)
Kept(g, old, b) ==
    [f \in FieldsOf(g, b) |->
        IF old # Unset /\ (g.seed \/ f \in g.hidden) THEN old[f] ELSE Unset]

(* A branch after an input: picked, displaced, emptied, changed in place,  *)
(* or left alone.                                                          *)
Chosen(s, g, in, old, b) ==
    CASE b \in Picked(g, in) -> Rebuilt(s, g, in, b, Kept(g, old, b))
      [] b \notin Picked(g, in) /\ Picked(g, in) # {} /\ b \in Replaced(g) -> Unset
      [] Picked(g, in) = {} /\ \E f \in g.drop : in[f] = Empty -> Unset
      [] /\ Picked(g, in) = {} /\ \A f \in g.drop : in[f] # Empty
         /\ g.inplace /\ old # Unset /\ GivenIn(g, in) # {}
            -> Rebuilt(s, g, in, b, old)
      [] OTHER -> old

ChoiceOf(s, b) == CHOOSE g \in s.choices : b \in Branches(g)

Overlaid(s, e, in) ==
    [plain  |-> [f \in PlainFields(s) |-> Laid(s, in, f, e.plain[f])],
     branch |-> [b \in AllBranches(s) |->
                    Chosen(s, ChoiceOf(s, b), in, e.branch[b], b)]]

-----------------------------------------------------------------------------
(* A branch has what it cannot be without.                                 *)
Whole(g, e) ==
    \A b \in ChosenIn(e, g) \cap DOMAIN g.of :
        /\ b \in DOMAIN g.whole => \A f \in g.whole[b] : e.branch[b][f] # Unset
        /\ b \in g.some => \E f \in g.of[b] : e.branch[b][f] # Unset

(* Mutant: naming the branch that is stored is refused as well.            *)
AcceptsChoiceOnce(g, in, e) ==
    /\ AtMostOne(Picked(g, in))
    /\ Picked(g, in) \subseteq DOMAIN g.of \ ChosenIn(e, g)

(* What the handlers refuse: two branches, a field that is not of the      *)
(* branch, a branch that is not the stored one and is not named.           *)
AcceptsChoice(g, in, e) ==
    /\ AtMostOne(Picked(g, in))
    /\ Picked(g, in) \subseteq DOMAIN g.of
    /\ g.fixed /\ Picked(g, in) # {} =>
        ChosenIn(e, g) \ g.beside \subseteq Picked(g, in)
    /\ \A b \in Picked(g, in) : g.by # NoField => Meant(g, in) \subseteq g.of[b]
    /\ g.by # NoField /\ Picked(g, in) = {} /\ GivenIn(g, in) # {} =>
        /\ g.inplace
        /\ \E b \in ChosenIn(e, g) \cap DOMAIN g.of : GivenIn(g, in) \subseteq g.of[b]
    /\ \A fs \in g.apart : AtMostOne({f \in fs : Given(in, f)})

(* Some fields are refused without others.                                 *)
Together(s, in) ==
    \A f \in DOMAIN s.with : Given(in, f) => \A r \in s.with[f] : Wanted(in, r)

(* Mutant: the result of an overlay is not looked at.                      *)
AcceptsUnseen(s, e, in) ==
    /\ \A f \in InputFields(s) : in[f] # Bad
    /\ \A f \in s.members : in[f] # Empty
    /\ Together(s, in)
    /\ \A g \in s.choices : AcceptsChoice(g, in, e)

Accepts(s, e, in) ==
    /\ \A f \in InputFields(s) : in[f] # Bad
    /\ \A f \in s.members : in[f] # Empty
    /\ Together(s, in)
    /\ \A g \in s.choices : AcceptsChoice(g, in, e)
    /\ LET after == Overlaid(s, e, in) IN \A g \in s.choices : Whole(g, after)

AcceptsCreate(s, in) ==
    /\ \A f \in s.need : Wanted(in, f)
    /\ \A g \in s.choices : g.must => Picked(g, in) # {}
    /\ Accepts(s, Blank(s), in)

(* What create makes of a branch: a default one if the input picks none.   *)
BuiltBranch(g, e, in, b) ==
    IF Picked(g, in) = {} /\ b \in g.default
    THEN [f \in FieldsOf(g, b) |-> Unset]
    ELSE e.branch[b]

(* What create makes of an input: its fields over nothing, and the lists   *)
(* that a rule cannot do without on any.                                   *)
Built(s, in) ==
    LET e == Overlaid(s, Blank(s), in) IN
    [plain  |-> [f \in PlainFields(s) |->
                    IF f \in s.orAny /\ e.plain[f] = Unset THEN AnyValue
                    ELSE e.plain[f]],
     branch |-> [b \in AllBranches(s) |->
                    BuiltBranch(ChoiceOf(s, b), e, in, b)]]

-----------------------------------------------------------------------------
(* An entry the device would take: no choice has two branches (dual-typed  *)
(* is what object_tools.go:258 calls the other kind), and nothing the      *)
(* tools insist on is missing.                                             *)
OneBranch(s, e) == \A g \in s.choices : AtMostOne(ChosenIn(e, g) \ g.beside)

Complete(s, e) ==
    /\ \A f \in s.need \cap PlainFields(s) : e.plain[f] # Unset
    /\ \A f \in s.orAny : e.plain[f] # Unset
    /\ \A g \in s.choices :
        /\ g.must => ChosenIn(e, g) # {}
        /\ Whole(g, e)

Valid(s, e) == OneBranch(s, e) /\ Complete(s, e)
=============================================================================
