--------------------------- MODULE ResourcesProofs ---------------------------
(***************************************************************************)
(* Theorems about Resources, for every schema that is well formed          *)
(* (KindsAssumption), whatever its fields, branches, inputs and the        *)
(* entries other clients store.                                            *)
(*                                                                         *)
(* EntryInv, that the stored entry and the one a write is about to send    *)
(* are both well typed and valid, is inductive: an overlay, a build and a  *)
(* merge by the device each make a valid entry of valid ones.              *)
(***************************************************************************)
EXTENDS Resources, TLAPS

(* A branch is a record of its fields, and so is never Unset.              *)
BranchesAreRecords(s) ==
    \A g \in s.choices : \A b \in Branches(g) : Unset \notin [FieldsOf(g, b) -> Held]

EntryOK(s, e) == IsEntry(s, e) /\ Valid(s, e)

-----------------------------------------------------------------------------
(* Choices and their branches.                                             *)

LEMMA BranchHasChoice ==
    ASSUME NEW s, NEW b \in AllBranches(s)
    PROVE  \E g \in s.choices : b \in Branches(g)
BY DEF AllBranches

LEMMA ChoiceOfBranch ==
    ASSUME NEW s, SchemaOK(s), NEW g \in s.choices, NEW b \in Branches(g)
    PROVE  /\ b \in AllBranches(s)
           /\ ChoiceOf(s, b) = g
<1>1. b \in AllBranches(s)
    BY DEF AllBranches
<1>2. ASSUME NEW h \in s.choices, b \in Branches(h)
      PROVE  h = g
    BY <1>2 DEF SchemaOK, ChoiceOK
<1> QED
    BY <1>1, <1>2 DEF ChoiceOf

LEMMA UnsetIsHeld ==
    ASSUME NEW s, NEW f
    PROVE  Unset \in HeldIn(s, f) /\ HeldIn(s, f) \subseteq Held
BY DEF HeldIn, Held

-----------------------------------------------------------------------------
(* What an input leaves in a field is of the field's type, and is there    *)
(* when it was before, unless an empty list has cleared it.                *)

LEMMA MergedType ==
    ASSUME NEW new \in ElementLists, NEW old \in ElementLists \cup {Unset}
    PROVE  Merged(old, new) \in ElementLists
<1>1. PICK D \in SUBSET Elements : new \in [D -> Vals \cup {Unset}]
    BY DEF ElementLists
<1>2. ASSUME NEW n \in D, old # Unset, n \in DOMAIN old
      PROVE  old[n] \in Vals \cup {Unset}
    <2>1. PICK C \in SUBSET Elements : old \in [C -> Vals \cup {Unset}]
        BY <1>2 DEF ElementLists
    <2> QED
        BY <1>2, <2>1
<1>3. Merged(old, new) \in [D -> Vals \cup {Unset}]
    BY <1>1, <1>2 DEF Merged
<1> QED
    BY <1>3 DEF ElementLists

LEMMA LaidType ==
    ASSUME NEW s, NEW in, NEW f, NEW old \in HeldIn(s, f),
           in[f] \in GivenValues(s, f), in[f] # Bad
    PROVE  Laid(s, in, f, old) \in HeldIn(s, f)
<1>1. CASE in[f] = Unset
    BY <1>1, ValuesAssumption DEF Laid, Wanted
<1>2. CASE in[f] = Empty
    BY <1>2, ValuesAssumption, UnsetIsHeld DEF Laid, Wanted
<1>3. CASE in[f] \notin {Unset, Empty} /\ f \in s.merge
    <2>1. in[f] \in ElementLists /\ old \in ElementLists \cup {Unset}
        BY <1>3 DEF GivenValues, HeldIn
    <2>2. Merged(old, in[f]) \in ElementLists
        BY <2>1, MergedType
    <2> QED
        BY <1>3, <2>2, ValuesAssumption DEF Laid, Wanted, HeldIn
<1>4. CASE in[f] \notin {Unset, Empty} /\ f \notin s.merge
    <2>1. in[f] \in Vals
        BY <1>4 DEF GivenValues
    <2> QED
        BY <1>4, <2>1, ValuesAssumption DEF Laid, Wanted, HeldIn, Held
<1> QED
    BY <1>1, <1>2, <1>3, <1>4

LEMMA LaidThere ==
    ASSUME NEW s, NEW in, NEW f, NEW old,
           in[f] = Empty => f \in s.orAny,
           f \notin s.merge,
           old # Unset \/ Wanted(in, f)
    PROVE  Laid(s, in, f, old) # Unset
BY ValuesAssumption DEF Laid, Wanted

-----------------------------------------------------------------------------
(* What an input leaves in a branch.                                       *)

LEMMA KeptType ==
    ASSUME NEW s, NEW g, NEW b, NEW old \in Holdings(s, g, b) \cup {Unset}
    PROVE  Kept(g, old, b) \in Holdings(s, g, b)
<1>1. ASSUME NEW f \in FieldsOf(g, b)
      PROVE  /\ Kept(g, old, b)[f] \in HeldIn(s, f)
             /\ Kept(g, old, b)[f] \in Held
    BY UnsetIsHeld DEF Kept, Holdings
<1> QED
    BY <1>1 DEF Kept, Holdings

LEMMA RebuiltType ==
    ASSUME NEW s, NEW g \in s.choices, NEW b \in Branches(g), NEW in,
           InputOK(s, in), \A f \in InputFields(s) : in[f] # Bad,
           NEW kept \in Holdings(s, g, b)
    PROVE  Rebuilt(s, g, in, b, kept) \in Holdings(s, g, b)
<1>1. ASSUME NEW f \in FieldsOf(g, b), f \notin g.hidden
      PROVE  Laid(s, in, f, kept[f]) \in HeldIn(s, f)
    <2>1. f \in AllInner(s)
        BY <1>1 DEF FieldsOf, AllInner, Inner
    <2>2. in[f] \in GivenValues(s, f) /\ in[f] # Bad
        BY <2>1 DEF InputOK, InputFields
    <2> QED
        BY <1>1, <2>2, LaidType DEF Holdings
<1>2. ASSUME NEW f \in FieldsOf(g, b)
      PROVE  /\ Rebuilt(s, g, in, b, kept)[f] \in HeldIn(s, f)
             /\ Rebuilt(s, g, in, b, kept)[f] \in Held
    BY <1>1, UnsetIsHeld DEF Rebuilt, Holdings
<1> QED
    BY <1>2 DEF Rebuilt, Holdings

(* A branch that an input picks is there afterwards and the others are     *)
(* gone; an input that picks none makes none, and takes none away but by   *)
(* a field that does so when it is empty.                                  *)
LEMMA ChosenBranch ==
    ASSUME NEW s, SchemaOK(s), BranchesAreRecords(s),
           NEW g \in s.choices, NEW b \in Branches(g), NEW in,
           InputOK(s, in), \A f \in InputFields(s) : in[f] # Bad,
           NEW old \in Holdings(s, g, b) \cup {Unset}
    PROVE  /\ Chosen(s, g, in, old, b) \in Holdings(s, g, b) \cup {Unset}
           /\ b \in Picked(g, in) => Chosen(s, g, in, old, b) # Unset
           /\ b \notin Picked(g, in) /\ Picked(g, in) # {} /\ b \in Replaced(g) =>
                Chosen(s, g, in, old, b) = Unset
           /\ Picked(g, in) = {} /\ old = Unset => Chosen(s, g, in, old, b) = Unset
           /\ Picked(g, in) = {} /\ old # Unset /\ g.drop = {} =>
                Chosen(s, g, in, old, b) # Unset
<1>1. Unset \notin Holdings(s, g, b)
    BY DEF BranchesAreRecords, Holdings
<1>2. CASE b \in Picked(g, in)
    <2>1. Rebuilt(s, g, in, b, Kept(g, old, b)) \in Holdings(s, g, b)
        BY KeptType, RebuiltType
    <2>2. Chosen(s, g, in, old, b) = Rebuilt(s, g, in, b, Kept(g, old, b))
        BY <1>2 DEF Chosen
    <2> QED
        BY <1>1, <1>2, <2>1, <2>2
<1>3. CASE b \notin Picked(g, in) /\ Picked(g, in) # {}
    <2>1. Chosen(s, g, in, old, b) = IF b \in Replaced(g) THEN Unset ELSE old
        BY <1>3 DEF Chosen
    <2> QED
        BY <1>3, <2>1
<1>4. CASE Picked(g, in) = {} /\ \E f \in g.drop : in[f] = Empty
    <2>1. Chosen(s, g, in, old, b) = Unset
        BY <1>4 DEF Chosen
    <2> QED
        BY <1>4, <2>1
<1>5. CASE Picked(g, in) = {} /\ \A f \in g.drop : in[f] # Empty
    <2>1. CASE g.inplace /\ old # Unset /\ GivenIn(g, in) # {}
        <3>1. Rebuilt(s, g, in, b, old) \in Holdings(s, g, b)
            BY <2>1, RebuiltType
        <3>2. Chosen(s, g, in, old, b) = Rebuilt(s, g, in, b, old)
            BY <1>5, <2>1 DEF Chosen
        <3> QED
            BY <1>1, <1>5, <2>1, <3>1, <3>2
    <2>2. CASE ~(g.inplace /\ old # Unset /\ GivenIn(g, in) # {})
        <3>1. Chosen(s, g, in, old, b) = old
            BY <1>5, <2>2 DEF Chosen
        <3> QED
            BY <1>5, <3>1
    <2> QED
        BY <2>1, <2>2
<1> QED
    BY <1>2, <1>3, <1>4, <1>5

-----------------------------------------------------------------------------
(* What an update sends.                                                   *)

LEMMA OverlaidBranch ==
    ASSUME NEW s, SchemaOK(s), NEW e, IsEntry(s, e), NEW in,
           NEW g \in s.choices, NEW b \in Branches(g)
    PROVE  /\ e.branch[b] \in Holdings(s, g, b) \cup {Unset}
           /\ Overlaid(s, e, in).branch[b] = Chosen(s, g, in, e.branch[b], b)
<1>1. b \in AllBranches(s) /\ ChoiceOf(s, b) = g
    BY ChoiceOfBranch
<1>2. e.branch[b] \in Holdings(s, g, b) \cup {Unset}
    BY DEF IsEntry
<1> QED
    BY <1>1, <1>2 DEF Overlaid

LEMMA OverlaidType ==
    ASSUME NEW s, SchemaOK(s), BranchesAreRecords(s), NEW e, IsEntry(s, e),
           NEW in, InputOK(s, in), \A f \in InputFields(s) : in[f] # Bad
    PROVE  IsEntry(s, Overlaid(s, e, in))
<1> DEFINE after == Overlaid(s, e, in)
<1>1. ASSUME NEW f \in PlainFields(s)
      PROVE  after.plain[f] \in HeldIn(s, f)
    <2>1. e.plain[f] \in HeldIn(s, f)
        BY DEF IsEntry
    <2>2. in[f] \in GivenValues(s, f) /\ in[f] # Bad
        BY DEF InputOK, InputFields
    <2>3. after.plain[f] = Laid(s, in, f, e.plain[f])
        BY DEF Overlaid
    <2> QED
        BY <2>1, <2>2, <2>3, LaidType
<1>2. ASSUME NEW g \in s.choices, NEW b \in Branches(g)
      PROVE  after.branch[b] \in Holdings(s, g, b) \cup {Unset}
    BY OverlaidBranch, ChosenBranch
<1>3. /\ after = [plain |-> after.plain, branch |-> after.branch]
      /\ after.plain = [f \in PlainFields(s) |-> after.plain[f]]
      /\ after.branch = [b \in AllBranches(s) |-> after.branch[b]]
    BY DEF Overlaid
<1> QED
    BY <1>1, <1>2, <1>3 DEF IsEntry

(* An overlay takes the branches of the entry or the one its input picks.  *)
LEMMA OverlaidChoice ==
    ASSUME NEW s, SchemaOK(s), BranchesAreRecords(s), NEW e, IsEntry(s, e),
           NEW in, InputOK(s, in), Accepts(s, e, in), NEW g \in s.choices
    PROVE  LET after == Overlaid(s, e, in) IN
           /\ Picked(g, in) = {} => ChosenIn(after, g) \subseteq ChosenIn(e, g)
           /\ Picked(g, in) = {} /\ g.drop = {} =>
                ChosenIn(e, g) \subseteq ChosenIn(after, g)
           /\ Picked(g, in) # {} =>
                \E p \in DOMAIN g.of : Picked(g, in) = {p}
                    /\ p \in ChosenIn(after, g)
                    /\ ChosenIn(after, g) \ g.beside \subseteq {p}
<1> DEFINE after == Overlaid(s, e, in)
<1>1. \A f \in InputFields(s) : in[f] # Bad
    BY DEF Accepts
<1>2. AtMostOne(Picked(g, in)) /\ Picked(g, in) \subseteq DOMAIN g.of
    BY DEF Accepts, AcceptsChoice
<1>3. ASSUME NEW b \in Branches(g)
      PROVE  /\ b \in Picked(g, in) => after.branch[b] # Unset
             /\ b \notin Picked(g, in) /\ Picked(g, in) # {} /\ b \in Replaced(g) =>
                    after.branch[b] = Unset
             /\ Picked(g, in) = {} /\ e.branch[b] = Unset => after.branch[b] = Unset
             /\ Picked(g, in) = {} /\ e.branch[b] # Unset /\ g.drop = {} =>
                    after.branch[b] # Unset
    <2>1. /\ e.branch[b] \in Holdings(s, g, b) \cup {Unset}
          /\ after.branch[b] = Chosen(s, g, in, e.branch[b], b)
        BY OverlaidBranch
    <2> HIDE DEF after
    <2> QED
        BY <1>1, <2>1, ChosenBranch
<1> HIDE DEF after
<1>4. Picked(g, in) = {} => ChosenIn(after, g) \subseteq ChosenIn(e, g)
    BY <1>3 DEF ChosenIn
<1>5. Picked(g, in) = {} /\ g.drop = {} => ChosenIn(e, g) \subseteq ChosenIn(after, g)
    BY <1>3 DEF ChosenIn
<1>6. ASSUME Picked(g, in) # {}
      PROVE  \E p \in DOMAIN g.of : Picked(g, in) = {p}
                /\ p \in ChosenIn(after, g)
                /\ ChosenIn(after, g) \ g.beside \subseteq {p}
    <2>1. PICK p \in DOMAIN g.of : Picked(g, in) = {p}
        BY <1>2, <1>6 DEF AtMostOne
    <2>2. p \in ChosenIn(after, g)
        BY <1>3, <2>1 DEF ChosenIn, Branches
    <2>3. ChosenIn(after, g) \ g.beside \subseteq {p}
        BY <1>3, <2>1 DEF ChosenIn, Replaced
    <2> QED
        BY <2>1, <2>2, <2>3
<1> QED
    BY <1>4, <1>5, <1>6 DEF after

LEMMA OverlaidOneBranch ==
    ASSUME NEW s, SchemaOK(s), BranchesAreRecords(s), NEW e, IsEntry(s, e),
           OneBranch(s, e), NEW in, InputOK(s, in), Accepts(s, e, in)
    PROVE  OneBranch(s, Overlaid(s, e, in))
<1> SUFFICES ASSUME NEW g \in s.choices
             PROVE  AtMostOne(ChosenIn(Overlaid(s, e, in), g) \ g.beside)
    BY DEF OneBranch
<1>1. AtMostOne(ChosenIn(e, g) \ g.beside)
    BY DEF OneBranch
<1>2. CASE Picked(g, in) = {}
    BY <1>1, <1>2, OverlaidChoice DEF AtMostOne
<1>3. CASE Picked(g, in) # {}
    BY <1>3, OverlaidChoice DEF AtMostOne
<1> QED
    BY <1>2, <1>3

(* An input clears nothing that an entry cannot be without.                *)
LEMMA NeededIsKept ==
    ASSUME NEW s, SchemaOK(s), NEW e, NEW in, InputOK(s, in), Accepts(s, e, in),
           NEW f \in PlainFields(s), f \in s.need \cup s.orAny
    PROVE  /\ in[f] = Empty => f \in s.orAny
           /\ f \notin s.merge
<1>1. f \notin s.merge
    BY DEF SchemaOK
<1>2. ASSUME in[f] = Empty, f \notin s.orAny
      PROVE  FALSE
    <2>1. f \notin s.clear \cup s.merge
        BY <1>2 DEF SchemaOK
    <2>2. f \notin s.members
        BY <1>2 DEF Accepts
    <2>3. \A g \in s.choices : f \notin g.drop
        BY DEF SchemaOK, ChoiceOK, PlainFields, AllInner
    <2> QED
        BY <1>2, <2>1, <2>2, <2>3 DEF InputOK, InputFields
<1> QED
    BY <1>1, <1>2

LEMMA OverlaidComplete ==
    ASSUME NEW s, SchemaOK(s), BranchesAreRecords(s), NEW e, IsEntry(s, e),
           Complete(s, e), NEW in, InputOK(s, in), Accepts(s, e, in)
    PROVE  Complete(s, Overlaid(s, e, in))
<1> DEFINE after == Overlaid(s, e, in)
<1>1. ASSUME NEW f \in PlainFields(s), f \in s.need \cup s.orAny
      PROVE  after.plain[f] # Unset
    <2>1. e.plain[f] # Unset
        BY <1>1 DEF Complete
    <2>2. after.plain[f] = Laid(s, in, f, e.plain[f])
        BY DEF Overlaid
    <2> QED
        BY <1>1, <2>1, <2>2, NeededIsKept, LaidThere
<1>2. ASSUME NEW g \in s.choices, g.must
      PROVE  ChosenIn(after, g) # {}
    <2>1. ChosenIn(e, g) # {} /\ g.drop = {}
        BY <1>2 DEF Complete, SchemaOK, ChoiceOK
    <2> QED
        BY <2>1, OverlaidChoice
<1>3. \A g \in s.choices : Whole(g, after)
    BY DEF Accepts
<1>4. s.orAny \subseteq PlainFields(s)
    BY DEF SchemaOK
<1> HIDE DEF after
<1>5. Complete(s, after)
    BY <1>1, <1>2, <1>3, <1>4 DEF Complete
<1> QED
    BY <1>5 DEF after

-----------------------------------------------------------------------------
(* What a create sends.                                                    *)

LEMMA BlankEntry ==
    ASSUME NEW s
    PROVE  /\ IsEntry(s, Blank(s))
           /\ \A g \in s.choices : ChosenIn(Blank(s), g) = {}
<1>1. ASSUME NEW g \in s.choices, NEW b \in Branches(g)
      PROVE  Blank(s).branch[b] = Unset
    BY DEF Blank, AllBranches
<1>2. \A f \in PlainFields(s) : Blank(s).plain[f] \in HeldIn(s, f)
    BY UnsetIsHeld DEF Blank
<1>3. /\ Blank(s) = [plain |-> Blank(s).plain, branch |-> Blank(s).branch]
      /\ Blank(s).plain = [f \in PlainFields(s) |-> Blank(s).plain[f]]
      /\ Blank(s).branch = [b \in AllBranches(s) |-> Blank(s).branch[b]]
    BY DEF Blank
<1> QED
    BY <1>1, <1>2, <1>3 DEF IsEntry, ChosenIn

LEMMA BuiltEntry ==
    ASSUME NEW s, SchemaOK(s), BranchesAreRecords(s),
           NEW in, InputOK(s, in), AcceptsCreate(s, in)
    PROVE  EntryOK(s, Built(s, in))
<1> DEFINE before == Overlaid(s, Blank(s), in)
           built == Built(s, in)
<1>1. IsEntry(s, Blank(s)) /\ Accepts(s, Blank(s), in)
    BY BlankEntry DEF AcceptsCreate
<1>2. IsEntry(s, before)
    BY <1>1, OverlaidType DEF Accepts
<1>3. ASSUME NEW g \in s.choices, NEW b \in Branches(g)
      PROVE  built.branch[b] = IF Picked(g, in) = {} /\ b \in g.default
                               THEN [f \in FieldsOf(g, b) |-> Unset]
                               ELSE before.branch[b]
    BY ChoiceOfBranch DEF Built, BuiltBranch
<1>4. ASSUME NEW f \in PlainFields(s)
      PROVE  built.plain[f] = IF f \in s.orAny /\ before.plain[f] = Unset
                              THEN AnyValue ELSE before.plain[f]
    BY DEF Built
<1>5. /\ built = [plain |-> built.plain, branch |-> built.branch]
      /\ built.plain = [f \in PlainFields(s) |-> built.plain[f]]
      /\ built.branch = [b \in AllBranches(s) |-> built.branch[b]]
    BY DEF Built
<1>6. ASSUME NEW f \in PlainFields(s), f \in s.need
      PROVE  before.plain[f] # Unset
    <2>1. Wanted(in, f)
        BY <1>6 DEF AcceptsCreate
    <2>2. before.plain[f] = Laid(s, in, f, Blank(s).plain[f])
        BY DEF Overlaid
    <2> QED
        BY <1>1, <1>6, <2>1, <2>2, NeededIsKept, LaidThere
<1>7. ASSUME NEW g \in s.choices, Picked(g, in) = {}
      PROVE  /\ ~g.must
             /\ \A b \in Branches(g) : before.branch[b] = Unset
    <2>1. ChosenIn(before, g) = {}
        BY <1>1, <1>7, BlankEntry, OverlaidChoice
    <2> QED
        BY <1>7, <2>1 DEF AcceptsCreate, ChosenIn
<1>8. ASSUME NEW g \in s.choices
      PROVE  /\ AtMostOne(ChosenIn(before, g) \ g.beside)
             /\ g.must => ChosenIn(before, g) # {}
             /\ Whole(g, before)
    <2>1. OneBranch(s, Blank(s))
        BY BlankEntry DEF OneBranch, AtMostOne
    <2>2. OneBranch(s, before)
        BY <1>1, <2>1, OverlaidOneBranch
    <2>3. g.must => Picked(g, in) # {}
        BY DEF AcceptsCreate
    <2> QED
        BY <1>1, <2>2, <2>3, OverlaidChoice DEF OneBranch, Accepts
<1> HIDE DEF before, built
<1>9. IsEntry(s, built)
    <2>1. ASSUME NEW f \in PlainFields(s)
          PROVE  built.plain[f] \in HeldIn(s, f)
        <3>1. before.plain[f] \in HeldIn(s, f)
            BY <1>2 DEF IsEntry
        <3>2. f \in s.orAny => AnyValue \in HeldIn(s, f)
            BY DEF SchemaOK, HeldIn, Held
        <3> QED
            BY <1>4, <3>1, <3>2
    <2>2. ASSUME NEW g \in s.choices, NEW b \in Branches(g)
          PROVE  built.branch[b] \in Holdings(s, g, b) \cup {Unset}
        <3>1. before.branch[b] \in Holdings(s, g, b) \cup {Unset}
            BY <1>2 DEF IsEntry
        <3>2. [f \in FieldsOf(g, b) |-> Unset] \in Holdings(s, g, b)
            BY UnsetIsHeld DEF Holdings, Held
        <3> QED
            BY <1>3, <3>1, <3>2
    <2> QED
        BY <1>5, <2>1, <2>2 DEF IsEntry
<1>10. ASSUME NEW g \in s.choices
       PROVE  /\ AtMostOne(ChosenIn(built, g) \ g.beside)
              /\ g.must => ChosenIn(built, g) # {}
              /\ Whole(g, built)
    <2>1. CASE Picked(g, in) = {}
        <3>1. ChosenIn(built, g) \subseteq g.default
            BY <1>3, <1>7, <2>1 DEF ChosenIn
        <3>2. /\ AtMostOne(g.default)
              /\ \A b \in g.default : b \notin DOMAIN g.whole /\ b \notin g.some
            BY DEF SchemaOK, ChoiceOK
        <3> QED
            BY <1>7, <2>1, <3>1, <3>2 DEF AtMostOne, Whole
    <2>2. CASE Picked(g, in) # {}
        <3>1. \A b \in Branches(g) : built.branch[b] = before.branch[b]
            BY <1>3, <2>2
        <3>2. ChosenIn(built, g) = ChosenIn(before, g)
            BY <3>1 DEF ChosenIn
        <3>3. ChosenIn(built, g) \subseteq Branches(g)
            BY DEF ChosenIn
        <3> QED
            BY <1>8, <3>1, <3>2, <3>3 DEF Whole
    <2> QED
        BY <2>1, <2>2
<1>11. \A f \in s.need \cap PlainFields(s) : built.plain[f] # Unset
    BY <1>4, <1>6, ValuesAssumption
<1>12. \A f \in s.orAny : built.plain[f] # Unset
    BY <1>4, ValuesAssumption DEF SchemaOK
<1>13. EntryOK(s, built)
    BY <1>9, <1>10, <1>11, <1>12 DEF EntryOK, Valid, OneBranch, Complete
<1> QED
    BY <1>13 DEF built

-----------------------------------------------------------------------------
(* What lands: the device merges a set into an entry of the same name.     *)

LEMMA SetBranchEffect ==
    ASSUME NEW s, SchemaOK(s), BranchesAreRecords(s),
           NEW node, IsEntry(s, node), NEW e, IsEntry(s, e),
           NEW g \in s.choices, NEW b \in Branches(g)
    PROVE  LET after == SetBranch(s, node, e, b) IN
           /\ after \in Holdings(s, g, b) \cup {Unset}
           /\ e.branch[b] # Unset =>
                /\ after # Unset
                /\ \A f \in FieldsOf(g, b) : e.branch[b][f] # Unset => after[f] # Unset
           /\ e.branch[b] = Unset /\ ChosenIn(e, g) # {} /\ b \in Replaced(g) =>
                after = Unset
           /\ e.branch[b] = Unset /\ after # Unset => after = node.branch[b]
           /\ ChosenIn(e, g) = {} => after = node.branch[b]
<1> DEFINE after == SetBranch(s, node, e, b)
<1>1. ChoiceOf(s, b) = g
    BY ChoiceOfBranch
<1>2. /\ e.branch[b] \in Holdings(s, g, b) \cup {Unset}
      /\ node.branch[b] \in Holdings(s, g, b) \cup {Unset}
    BY DEF IsEntry
<1>3. Unset \notin Holdings(s, g, b)
    BY DEF BranchesAreRecords, Holdings
<1>4. e.branch[b] # Unset => b \in ChosenIn(e, g)
    BY DEF ChosenIn
<1>5. CASE e.branch[b] # Unset /\ node.branch[b] # Unset
    <2>1. after = Over(e.branch[b], node.branch[b])
        BY <1>1, <1>5 DEF SetBranch
    <2>2. /\ Over(e.branch[b], node.branch[b]) \in Holdings(s, g, b)
          /\ \A f \in FieldsOf(g, b) : e.branch[b][f] # Unset =>
                Over(e.branch[b], node.branch[b])[f] # Unset
        BY <1>2, <1>5 DEF Over, Holdings
    <2> HIDE DEF after
    <2>3. /\ after \in Holdings(s, g, b)
          /\ \A f \in FieldsOf(g, b) : e.branch[b][f] # Unset => after[f] # Unset
        BY <2>1, <2>2
    <2> QED
        BY <1>3, <1>4, <1>5, <2>3 DEF after
<1>6. CASE e.branch[b] # Unset /\ node.branch[b] = Unset
    <2>1. after = e.branch[b]
        BY <1>1, <1>6 DEF SetBranch
    <2> QED
        BY <1>2, <1>4, <1>6, <2>1
<1>7. CASE e.branch[b] = Unset
    <2>1. after = IF ChosenIn(e, g) # {} /\ b \in Replaced(g) THEN Unset
                  ELSE node.branch[b]
        BY <1>1, <1>7 DEF SetBranch
    <2> QED
        BY <1>2, <1>7, <2>1
<1> QED
    BY <1>5, <1>6, <1>7

LEMMA MergedEntry ==
    ASSUME NEW s, SchemaOK(s), BranchesAreRecords(s),
           NEW node, EntryOK(s, node), NEW e, EntryOK(s, e)
    PROVE  EntryOK(s, [plain  |-> Over(e.plain, node.plain),
                       branch |-> [b \in AllBranches(s) |-> SetBranch(s, node, e, b)]])
<1> DEFINE after == [plain  |-> Over(e.plain, node.plain),
                     branch |-> [b \in AllBranches(s) |-> SetBranch(s, node, e, b)]]
<1>1. IsEntry(s, node) /\ IsEntry(s, e)
    BY DEF EntryOK
<1>2. ASSUME NEW f \in PlainFields(s)
      PROVE  after.plain[f] = IF e.plain[f] # Unset THEN e.plain[f] ELSE node.plain[f]
    BY <1>1 DEF Over, IsEntry
<1>3. /\ after = [plain |-> after.plain, branch |-> after.branch]
      /\ after.plain = [f \in PlainFields(s) |-> after.plain[f]]
      /\ after.branch = [b \in AllBranches(s) |-> after.branch[b]]
    BY <1>1 DEF Over, IsEntry
<1>4. ASSUME NEW g \in s.choices, NEW b \in Branches(g)
      PROVE  after.branch[b] = SetBranch(s, node, e, b)
    BY ChoiceOfBranch
<1> HIDE DEF after
<1>5. IsEntry(s, after)
    <2>1. ASSUME NEW f \in PlainFields(s)
          PROVE  after.plain[f] \in HeldIn(s, f)
        BY <1>1, <1>2 DEF IsEntry
    <2>2. ASSUME NEW g \in s.choices, NEW b \in Branches(g)
          PROVE  after.branch[b] \in Holdings(s, g, b) \cup {Unset}
        BY <1>1, <1>4, SetBranchEffect
    <2> QED
        BY <1>3, <2>1, <2>2 DEF IsEntry
<1>6. ASSUME NEW g \in s.choices, ChosenIn(e, g) # {}
      PROVE  /\ ChosenIn(e, g) \subseteq ChosenIn(after, g)
             /\ ChosenIn(after, g) \ g.beside \subseteq ChosenIn(e, g) \ g.beside
    BY <1>1, <1>4, <1>6, SetBranchEffect DEF ChosenIn, Replaced
<1>7. ASSUME NEW g \in s.choices, ChosenIn(e, g) = {}
      PROVE  \A b \in Branches(g) : after.branch[b] = node.branch[b]
    BY <1>1, <1>4, <1>7, SetBranchEffect
<1>8. ASSUME NEW g \in s.choices
      PROVE  /\ AtMostOne(ChosenIn(after, g) \ g.beside)
             /\ g.must => ChosenIn(after, g) # {}
    <2>1. /\ AtMostOne(ChosenIn(e, g) \ g.beside)
          /\ AtMostOne(ChosenIn(node, g) \ g.beside)
          /\ g.must => ChosenIn(e, g) # {}
        BY DEF EntryOK, Valid, OneBranch, Complete
    <2>2. CASE ChosenIn(e, g) # {}
        BY <1>6, <2>1, <2>2 DEF AtMostOne
    <2>3. CASE ChosenIn(e, g) = {}
        BY <1>7, <2>1, <2>3 DEF ChosenIn
    <2> QED
        BY <2>2, <2>3
<1>9. ASSUME NEW g \in s.choices
      PROVE  Whole(g, after)
    <2> SUFFICES ASSUME NEW b \in ChosenIn(after, g) \cap DOMAIN g.of
                 PROVE  /\ b \in DOMAIN g.whole =>
                            \A f \in g.whole[b] : after.branch[b][f] # Unset
                        /\ b \in g.some => \E f \in g.of[b] : after.branch[b][f] # Unset
        BY DEF Whole
    <2>1. b \in Branches(g) /\ after.branch[b] # Unset
        BY DEF ChosenIn
    <2>2. Whole(g, e) /\ Whole(g, node)
        BY DEF EntryOK, Valid, Complete
    <2>3. CASE e.branch[b] # Unset
        <3>1. \A f \in FieldsOf(g, b) :
                    e.branch[b][f] # Unset => after.branch[b][f] # Unset
            BY <1>1, <1>4, <2>1, <2>3, SetBranchEffect
        <3>2. /\ b \in DOMAIN g.whole => g.whole[b] \subseteq FieldsOf(g, b)
              /\ g.of[b] \subseteq FieldsOf(g, b)
            BY DEF SchemaOK, ChoiceOK, FieldsOf
        <3> QED
            BY <2>1, <2>2, <2>3, <3>1, <3>2 DEF Whole, ChosenIn
    <2>4. CASE e.branch[b] = Unset
        <3>1. after.branch[b] = node.branch[b]
            BY <1>1, <1>4, <2>1, <2>4, SetBranchEffect
        <3> QED
            BY <2>1, <2>2, <3>1 DEF Whole, ChosenIn
    <2> QED
        BY <2>3, <2>4
<1>10. \A f \in (s.need \cap PlainFields(s)) \cup s.orAny : after.plain[f] # Unset
    BY <1>2 DEF EntryOK, Valid, Complete, SchemaOK
<1>11. EntryOK(s, after)
    BY <1>5, <1>8, <1>9, <1>10 DEF EntryOK, Valid, OneBranch, Complete
<1> QED
    BY <1>11 DEF after

-----------------------------------------------------------------------------
(* The inductive invariant.                                                *)
EntryInv ==
    /\ TypeOK
    /\ stored # Absent => Valid(schema, stored)
    /\ call # NoCall => Valid(schema, call.entry)

LEMMA SchemaFacts ==
    ASSUME kind \in Kinds
    PROVE  /\ SchemaOK(schema)
           /\ BranchesAreRecords(schema)
           /\ \A in \in Inputs(kind) : InputOK(schema, in)
           /\ \A e \in Entries(kind) : EntryOK(schema, e)
BY KindsAssumption DEF schema, BranchesAreRecords, EntryOK

LEMMA EntryInvInit == Init => EntryInv
<1> SUFFICES ASSUME Init PROVE EntryInv
    OBVIOUS
<1>1. stored # Absent => EntryOK(schema, stored)
    BY SchemaFacts DEF Init
<1> QED
    BY <1>1 DEF Init, EntryInv, EntryOK, TypeOK, Answers

(* A handler that goes on to write sends a valid entry.                    *)
LEMMA StartsKeeps ==
    ASSUME EntryInv, NEW in \in Inputs(kind), NEW seed, NEW entry, NEW verb,
           EntryOK(schema, entry), seed # Absent => IsEntry(schema, seed),
           verb \in {"set", "edit"}, Starts(Write(in, seed, entry, verb))
    PROVE  EntryInv'
<1>1. IsWrite(Write(in, seed, entry, verb)) /\ Valid(schema, entry)
    BY DEF IsWrite, Write, EntryOK
<1>2. kind' = kind /\ stored' = stored /\ lost' = NoCall
      /\ call' = Write(in, seed, entry, verb) /\ answer'.result = "none"
    BY DEF Starts, Says
<1>3. call'.entry = entry
    BY <1>2 DEF Write
<1>4. IsWrite(Write(in, seed, entry, verb))'
    BY <1>1, <1>2 DEF IsWrite, Write, schema
<1> QED
    BY <1>1, <1>2, <1>3, <1>4 DEF EntryInv, TypeOK, schema, Answers, IsWrite

LEMMA RefuseKeeps ==
    ASSUME EntryInv, Refuse
    PROVE  EntryInv'
BY DEF EntryInv, TypeOK, Refuse, Says, IsWrite, schema, Answers

(* What lands is valid.                                                    *)
LEMMA LandedEntry ==
    ASSUME EntryInv, call # NoCall
    PROVE  EntryOK(schema, Landed(schema, stored, call))
<1>1. EntryOK(schema, call.entry)
    BY DEF EntryInv, TypeOK, IsWrite, EntryOK
<1>2. CASE call.verb = "edit" \/ stored = Absent
    BY <1>1, <1>2 DEF Landed
<1>3. CASE ~(call.verb = "edit" \/ stored = Absent)
    <2>1. EntryOK(schema, stored)
        BY <1>3 DEF EntryInv, TypeOK, EntryOK
    <2>2. SchemaOK(schema) /\ BranchesAreRecords(schema)
        BY SchemaFacts DEF EntryInv, TypeOK
    <2> QED
        BY <1>1, <1>3, <2>1, <2>2, MergedEntry DEF Landed
<1> QED
    BY <1>2, <1>3

LEMMA EntryInvNext == EntryInv /\ [Next]_vars => EntryInv'
<1> SUFFICES ASSUME EntryInv, [Next]_vars PROVE EntryInv'
    OBVIOUS
<1>1. /\ SchemaOK(schema) /\ BranchesAreRecords(schema)
      /\ \A in \in Inputs(kind) : InputOK(schema, in)
      /\ \A e \in Entries(kind) : EntryOK(schema, e)
    BY SchemaFacts DEF EntryInv, TypeOK
<1>2. ASSUME NEW in \in Inputs(kind), AcceptsCreate(schema, in)
      PROVE  EntryOK(schema, Built(schema, in))
    BY <1>1, <1>2, BuiltEntry
<1>3. ASSUME NEW in \in Inputs(kind), Create(in)
      PROVE  EntryInv'
    BY <1>2, <1>3, StartsKeeps, RefuseKeeps DEF Create
<1>4. ASSUME NEW in \in Inputs(kind), UpdateStored(in)
      PROVE  EntryInv'
    <2>1. IsEntry(schema, stored) /\ OneBranch(schema, stored) /\ Complete(schema, stored)
        BY <1>4 DEF UpdateStored, EntryInv, TypeOK, Valid
    <2>2. CASE Accepts(schema, stored, in)
        <3>1. IsEntry(schema, Overlaid(schema, stored, in))
            BY <1>1, <2>1, <2>2, OverlaidType DEF Accepts
        <3>2. OneBranch(schema, Overlaid(schema, stored, in))
            BY <1>1, <2>1, <2>2, OverlaidOneBranch
        <3>3. Complete(schema, Overlaid(schema, stored, in))
            BY <1>1, <2>1, <2>2, OverlaidComplete
        <3>4. EntryOK(schema, Overlaid(schema, stored, in))
            BY <3>1, <3>2, <3>3 DEF EntryOK, Valid
        <3> QED
            BY <1>4, <2>1, <2>2, <3>4, StartsKeeps DEF UpdateStored
    <2>3. CASE ~Accepts(schema, stored, in)
        BY <1>4, <2>3, RefuseKeeps DEF UpdateStored
    <2> QED
        BY <2>2, <2>3
<1>5. ASSUME NEW in \in Inputs(kind), UpdateAbsent(in)
      PROVE  EntryInv'
    BY <1>2, <1>5, StartsKeeps, RefuseKeeps DEF UpdateAbsent
<1>6. CASE WriteOk
    <2>1. EntryOK(schema, stored')
        BY <1>6, LandedEntry DEF WriteOk
    <2> QED
        BY <1>6, <2>1 DEF EntryInv, TypeOK, WriteOk, Says, schema, EntryOK, Answers
<1>7. CASE WriteFails
    <2>1. stored' # Absent => EntryOK(schema, stored')
        BY <1>7, LandedEntry DEF WriteFails, EntryInv, TypeOK, EntryOK
    <2>2. IsWrite(call) /\ IsWrite([call EXCEPT !.seed = Absent])
        BY <1>7 DEF WriteFails, EntryInv, TypeOK, IsWrite, Write
    <2>3. kind' = kind /\ call' = NoCall /\ answer'.result = "failed"
          /\ lost' \in {lost, [call EXCEPT !.seed = Absent]}
        BY <1>7 DEF WriteFails, Says
    <2>4. lost' # NoCall => IsWrite(lost')
        BY <2>2, <2>3 DEF EntryInv, TypeOK
    <2> QED
        BY <2>1, <2>3, <2>4 DEF EntryInv, TypeOK, schema, EntryOK, Answers, IsWrite
<1>8. CASE Delete
    BY <1>8 DEF EntryInv, TypeOK, Delete, Says, schema, Answers
<1>9. CASE Show
    BY <1>9 DEF EntryInv, TypeOK, Show, Says, schema, Answers
<1>10. CASE Elsewhere
    <2>1. stored' # Absent => EntryOK(schema, stored')
        BY <1>1, <1>10 DEF Elsewhere
    <2> QED
        BY <1>10, <2>1 DEF EntryInv, TypeOK, Elsewhere, Says, schema, EntryOK, Answers,
                           IsWrite
<1>11. CASE UNCHANGED vars
    BY <1>11 DEF EntryInv, TypeOK, vars, schema, IsWrite
<1> QED
    BY <1>3, <1>4, <1>5, <1>6, <1>7, <1>8, <1>9, <1>10, <1>11 DEF Next

(* EntryInv: the stored entry, and the one a write is about to send, are   *)
(* well typed and valid, for every well-formed schema (the builders and    *)
(* overlays of tools/).                                                    *)
THEOREM EntriesStayValid == Spec => []EntryInv
BY EntryInvInit, EntryInvNext, PTL DEF Spec

(* TypeOK: entries, inputs and answers are of their types, for every       *)
(* well-formed schema.                                                     *)
THEOREM TypesHold == Spec => []TypeOK
<1>1. EntryInv => TypeOK
    BY DEF EntryInv
<1> QED
    BY <1>1, EntriesStayValid, PTL

(* StoredOneKind: no overlay, build or merge of any well-formed schema     *)
(* leaves two branches of a choice (the overlay functions of tools/).      *)
THEOREM OneKindHolds == Spec => []StoredOneKind
<1>1. EntryInv => StoredOneKind
    BY DEF EntryInv, StoredOneKind, Valid
<1> QED
    BY <1>1, EntriesStayValid, PTL

(* StoredComplete: nor do they leave a branch, or an entry, without what   *)
(* it cannot be without.                                                   *)
THEOREM CompleteHolds == Spec => []StoredComplete
<1>1. EntryInv => StoredComplete
    BY DEF EntryInv, StoredComplete, Valid
<1> QED
    BY <1>1, EntriesStayValid, PTL

-----------------------------------------------------------------------------
(* NoSecretShown: no answer, of any tool in any order, shows a field that  *)
(* its schema calls secret, the message of a failed write included         *)
(* (redact.go).                                                            *)
THEOREM SecretsAreKept == Spec => []NoSecretShown
<1>1. Init => NoSecretShown
    BY DEF Init, NoSecretShown
<1>2. NoSecretShown /\ [Next]_vars => NoSecretShown'
    <2> SUFFICES ASSUME NoSecretShown, [Next]_vars PROVE NoSecretShown'
        OBVIOUS
    <2>1. ASSUME NEW s, NEW e
          PROVE  View(s, e) \cap s.secret = {}
        BY DEF View
    <2>2. ASSUME NEW s, NEW in, NEW entry, NEW shown \in WriteErrors(s, in, entry)
          PROVE  shown \cap s.secret = {}
        <3>1. CASE shown = {f \in InputFields(s) : Given(in, f)} \ Submitted(s, in)
            BY <3>1 DEF Submitted
        <3>2. CASE shown = IF Collapses(s, in) THEN {} ELSE Filled(s, entry)
            BY <3>2 DEF Collapses
        <3> QED
            BY <3>1, <3>2 DEF WriteErrors
    <2>3. ASSUME NEW in \in Inputs(kind), Create(in) \/ UpdateStored(in) \/ UpdateAbsent(in)
          PROVE  kind' = kind /\ answer'.shown = {}
        BY <2>3 DEF Create, UpdateStored, UpdateAbsent, Starts, Refuse, Says
    <2>4. CASE WriteOk
        BY <2>1, <2>4 DEF WriteOk, Says, NoSecretShown, schema
    <2>5. CASE WriteFails
        BY <2>2, <2>5 DEF WriteFails, Says, NoSecretShown, schema
    <2>6. CASE Delete \/ Elsewhere
        BY <2>6 DEF Delete, Elsewhere, Says, NoSecretShown
    <2>7. CASE Show
        BY <2>1, <2>7 DEF Show, Says, NoSecretShown, schema
    <2>8. CASE UNCHANGED vars
        BY <2>8 DEF vars, NoSecretShown, schema
    <2> QED
        BY <2>3, <2>4, <2>5, <2>6, <2>7, <2>8 DEF Next, NoSecretShown
<1> QED
    BY <1>1, <1>2, PTL DEF Spec
-----------------------------------------------------------------------------
(* Calls made again.  What an input leaves in a field, it leaves there     *)
(* again.                                                                  *)

LEMMA LaidAgain ==
    ASSUME NEW s, NEW in, NEW f, NEW old \in HeldIn(s, f), Unset \notin ElementLists,
           in[f] \in GivenValues(s, f), in[f] # Bad
    PROVE  Laid(s, in, f, Laid(s, in, f, old)) = Laid(s, in, f, old)
<1>1. CASE in[f] = Unset
    BY <1>1, ValuesAssumption DEF Laid, Wanted
<1>2. CASE in[f] = Empty
    BY <1>2, ValuesAssumption DEF Laid, Wanted
<1>3. CASE in[f] \notin {Unset, Empty} /\ f \in s.merge
    <2>1. in[f] \in ElementLists /\ old \in ElementLists \cup {Unset}
        BY <1>3 DEF GivenValues, HeldIn
    <2>2. Merged(old, in[f]) # Unset
        BY <2>1, MergedType
    <2>3. /\ DOMAIN Merged(old, in[f]) = DOMAIN in[f]
          /\ \A n \in DOMAIN in[f] : in[f][n] # Unset => Merged(old, in[f])[n] = in[f][n]
        BY DEF Merged
    <2> DEFINE m == Merged(old, in[f])
    <2>4. m = [n \in DOMAIN in[f] |-> m[n]]
        BY DEF Merged
    <2>5. Merged(m, in[f]) = m
        <3> HIDE DEF m
        <3> QED
            BY <2>2, <2>3, <2>4 DEF Merged, m
    <2>6. ASSUME NEW x PROVE Laid(s, in, f, x) = Merged(x, in[f])
        BY <1>3, ValuesAssumption DEF Laid, Wanted
    <2> QED
        BY <2>5, <2>6
<1>4. CASE in[f] \notin {Unset, Empty} /\ f \notin s.merge
    BY <1>4, ValuesAssumption DEF Laid, Wanted
<1> QED
    BY <1>1, <1>2, <1>3, <1>4

LEMMA RebuiltAgain ==
    ASSUME NEW s, NEW g \in s.choices, NEW b \in Branches(g), NEW in, InputOK(s, in),
           \A f \in InputFields(s) : in[f] # Bad, Unset \notin ElementLists,
           NEW kept \in Holdings(s, g, b), NEW again,
           \A f \in FieldsOf(g, b) : again[f] \in {kept[f], Rebuilt(s, g, in, b, kept)[f]}
    PROVE  Rebuilt(s, g, in, b, again) = Rebuilt(s, g, in, b, kept)
<1>1. ASSUME NEW f \in FieldsOf(g, b), f \notin g.hidden
      PROVE  Laid(s, in, f, again[f]) = Laid(s, in, f, kept[f])
    <2>1. f \in AllInner(s)
        BY <1>1 DEF FieldsOf, AllInner, Inner
    <2>2. in[f] \in GivenValues(s, f) /\ in[f] # Bad
        BY <2>1 DEF InputOK, InputFields
    <2>3. again[f] = kept[f] \/ again[f] = Laid(s, in, f, kept[f])
        BY <1>1 DEF Rebuilt
    <2>4. kept[f] \in HeldIn(s, f)
        BY DEF Holdings
    <2> QED
        BY <2>2, <2>3, <2>4, LaidAgain
<1>2. ASSUME NEW f \in FieldsOf(g, b), f \in g.hidden
      PROVE  again[f] = kept[f]
    BY <1>2 DEF Rebuilt
<1> QED
    BY <1>1, <1>2 DEF Rebuilt

LEMMA ChosenAgain ==
    ASSUME NEW s, SchemaOK(s), BranchesAreRecords(s),
           NEW g \in s.choices, NEW b \in Branches(g), NEW in,
           InputOK(s, in), \A f \in InputFields(s) : in[f] # Bad, Unset \notin ElementLists,
           NEW old \in Holdings(s, g, b) \cup {Unset}
    PROVE  Chosen(s, g, in, Chosen(s, g, in, old, b), b) = Chosen(s, g, in, old, b)
<1> DEFINE x == Chosen(s, g, in, old, b)
<1>1. Unset \notin Holdings(s, g, b)
    BY DEF BranchesAreRecords, Holdings
<1>2. CASE b \in Picked(g, in)
    <2>1. Kept(g, old, b) \in Holdings(s, g, b)
        BY KeptType
    <2>2. x = Rebuilt(s, g, in, b, Kept(g, old, b))
        BY <1>2 DEF Chosen
    <2>3. x \in Holdings(s, g, b) /\ x # Unset
        BY <1>1, <2>1, <2>2, RebuiltType
    <2>4. Chosen(s, g, in, x, b) = Rebuilt(s, g, in, b, Kept(g, x, b))
        BY <1>2 DEF Chosen
    <2> HIDE DEF x
    <2>5. ASSUME NEW f \in FieldsOf(g, b)
          PROVE  Kept(g, x, b)[f] \in {Kept(g, old, b)[f], x[f]}
        BY <2>3 DEF Kept
    <2>6. Rebuilt(s, g, in, b, Kept(g, x, b)) = Rebuilt(s, g, in, b, Kept(g, old, b))
        BY <2>1, <2>2, <2>5, RebuiltAgain
    <2> QED
        BY <2>2, <2>4, <2>6 DEF x
<1>3. CASE b \notin Picked(g, in) /\ Picked(g, in) # {}
    BY <1>3 DEF Chosen
<1>4. CASE Picked(g, in) = {} /\ \E f \in g.drop : in[f] = Empty
    BY <1>4 DEF Chosen
<1>5. CASE Picked(g, in) = {} /\ \A f \in g.drop : in[f] # Empty
    <2>1. CASE g.inplace /\ old # Unset /\ GivenIn(g, in) # {}
        <3>1. x = Rebuilt(s, g, in, b, old)
            BY <1>5, <2>1 DEF Chosen
        <3>2. x # Unset
            BY <1>1, <2>1, <3>1, RebuiltType
        <3>3. Chosen(s, g, in, x, b) = Rebuilt(s, g, in, b, x)
            BY <1>5, <2>1, <3>2 DEF Chosen
        <3> HIDE DEF x
        <3>4. Rebuilt(s, g, in, b, x) = Rebuilt(s, g, in, b, old)
            BY <2>1, <3>1, RebuiltAgain
        <3> QED
            BY <3>1, <3>3, <3>4 DEF x
    <2>2. CASE ~(g.inplace /\ old # Unset /\ GivenIn(g, in) # {})
        <3>1. x = old
            BY <1>5, <2>2 DEF Chosen
        <3> QED
            BY <3>1
    <2> QED
        BY <2>1, <2>2
<1> QED
    BY <1>2, <1>3, <1>4, <1>5

(* An overlay that was accepted is accepted again on its own result, and   *)
(* changes nothing.                                                        *)
LEMMA OverlaidAgain ==
    ASSUME NEW s, SchemaOK(s), BranchesAreRecords(s), Unset \notin ElementLists,
           NEW e, IsEntry(s, e), NEW in, InputOK(s, in), Accepts(s, e, in)
    PROVE  LET after == Overlaid(s, e, in) IN
           Overlaid(s, after, in) = after /\ Accepts(s, after, in)
<1> DEFINE after == Overlaid(s, e, in)
           twice == Overlaid(s, after, in)
<1>1. \A f \in InputFields(s) : in[f] # Bad
    BY DEF Accepts
<1>2. IsEntry(s, after)
    BY <1>1, OverlaidType
<1>3. ASSUME NEW f \in PlainFields(s)
      PROVE  Laid(s, in, f, after.plain[f]) = after.plain[f]
    <2>1. e.plain[f] \in HeldIn(s, f) /\ in[f] \in GivenValues(s, f) /\ in[f] # Bad
        BY <1>1 DEF IsEntry, InputOK, InputFields
    <2>2. after.plain[f] = Laid(s, in, f, e.plain[f])
        BY DEF Overlaid
    <2> QED
        BY <2>1, <2>2, LaidAgain
<1>4. ASSUME NEW b \in AllBranches(s)
      PROVE  Chosen(s, ChoiceOf(s, b), in, after.branch[b], b) = after.branch[b]
    <2>1. PICK g \in s.choices : b \in Branches(g)
        BY BranchHasChoice
    <2>2. /\ e.branch[b] \in Holdings(s, g, b) \cup {Unset}
          /\ after.branch[b] = Chosen(s, g, in, e.branch[b], b)
          /\ ChoiceOf(s, b) = g
        BY <2>1, OverlaidBranch, ChoiceOfBranch
    <2> HIDE DEF after
    <2> QED
        BY <1>1, <2>1, <2>2, ChosenAgain
<1>5. /\ after = [plain |-> after.plain, branch |-> after.branch]
      /\ after.plain = [f \in PlainFields(s) |-> after.plain[f]]
      /\ after.branch = [b \in AllBranches(s) |-> after.branch[b]]
    BY DEF Overlaid
<1> HIDE DEF after
<1>6. twice = after
    BY <1>3, <1>4, <1>5 DEF Overlaid
<1>7. ASSUME NEW g \in s.choices
      PROVE  AcceptsChoice(g, in, after) /\ Whole(g, twice)
    <2>1. AcceptsChoice(g, in, e) /\ Whole(g, after)
        BY DEF Accepts, after
    <2>2. /\ Picked(g, in) = {} /\ g.drop = {} => ChosenIn(e, g) \subseteq ChosenIn(after, g)
          /\ Picked(g, in) # {} => ChosenIn(after, g) \ g.beside \subseteq Picked(g, in)
        BY OverlaidChoice DEF after
    <2>3. g.by # NoField => g.drop = {}
        BY DEF SchemaOK, ChoiceOK
    <2>4. AcceptsChoice(g, in, after)
        BY <2>1, <2>2, <2>3 DEF AcceptsChoice
    <2> QED
        BY <1>6, <2>1, <2>4
<1> HIDE DEF twice
<1>8. Accepts(s, after, in)
    BY <1>7 DEF Accepts, twice
<1> QED
    BY <1>6, <1>8 DEF after, twice

(* A set that has landed sets nothing more when it lands again.            *)
LEMMA OverAgain ==
    ASSUME NEW new, NEW old
    PROVE  Over(new, Over(new, old)) = Over(new, old)
BY DEF Over

LEMMA OverItself ==
    ASSUME NEW D, NEW R, NEW x \in [D -> R]
    PROVE  Over(x, x) = x
BY DEF Over

LEMMA SetBranchAgain ==
    ASSUME NEW s, SchemaOK(s), BranchesAreRecords(s),
           NEW node, IsEntry(s, node), NEW e, IsEntry(s, e), NEW after,
           NEW g \in s.choices, NEW b \in Branches(g),
           after.branch[b] = SetBranch(s, node, e, b)
    PROVE  SetBranch(s, after, e, b) = after.branch[b]
<1>1. ChoiceOf(s, b) = g
    BY ChoiceOfBranch
<1>2. /\ e.branch[b] \in Holdings(s, g, b) \cup {Unset}
      /\ node.branch[b] \in Holdings(s, g, b) \cup {Unset}
    BY DEF IsEntry
<1>3. after.branch[b] # Unset \/ e.branch[b] = Unset
    BY SetBranchEffect
<1>4. e.branch[b] # Unset => b \in ChosenIn(e, g)
    BY DEF ChosenIn
<1>5. CASE e.branch[b] # Unset /\ node.branch[b] # Unset
    <2>1. after.branch[b] = Over(e.branch[b], node.branch[b])
        BY <1>1, <1>5 DEF SetBranch
    <2>2. SetBranch(s, after, e, b) = Over(e.branch[b], after.branch[b])
        BY <1>1, <1>3, <1>5 DEF SetBranch
    <2> QED
        BY <2>1, <2>2, OverAgain
<1>6. CASE e.branch[b] # Unset /\ node.branch[b] = Unset
    <2>1. after.branch[b] = e.branch[b]
        BY <1>1, <1>6 DEF SetBranch
    <2>2. SetBranch(s, after, e, b) = Over(e.branch[b], after.branch[b])
        BY <1>1, <1>3, <1>6 DEF SetBranch
    <2>3. e.branch[b] \in [FieldsOf(g, b) -> Held]
        BY <1>2, <1>6 DEF Holdings
    <2> QED
        BY <2>1, <2>2, <2>3, OverItself
<1>7. CASE e.branch[b] = Unset
    BY <1>1, <1>7 DEF SetBranch
<1> QED
    BY <1>5, <1>6, <1>7

(* No entry is Absent.                                                     *)
LEMMA EntryThere ==
    ASSUME kind \in Kinds, NEW e, IsEntry(schema, e)
    PROVE  e # Absent
<1>1. SchemaOK(schema) /\ Absent \notin EntryShapes(schema)
    BY KindsAssumption DEF schema
<1> DEFINE Records == {[FieldsOf(g, c) -> Held] :
                            g \in schema.choices, c \in AllBranches(schema)}
           Bodies == {Unset} \cup UNION Records
<1>2. e.plain \in [PlainFields(schema) -> Held]
    <2>1. ASSUME NEW f \in PlainFields(schema) PROVE e.plain[f] \in Held
        BY UnsetIsHeld DEF IsEntry
    <2>2. e.plain = [f \in PlainFields(schema) |-> e.plain[f]]
        BY DEF IsEntry
    <2> QED
        BY <2>1, <2>2
<1>3. ASSUME NEW b \in AllBranches(schema)
      PROVE  e.branch[b] \in Bodies
    <2>1. PICK g \in schema.choices : b \in Branches(g)
        BY BranchHasChoice
    <2>2. e.branch[b] \in Holdings(schema, g, b) \cup {Unset}
        BY <2>1 DEF IsEntry
    <2>3. Holdings(schema, g, b) \subseteq [FieldsOf(g, b) -> Held]
        BY DEF Holdings
    <2>4. [FieldsOf(g, b) -> Held] \subseteq Bodies
        <3>1. [FieldsOf(g, b) -> Held] \in Records
            OBVIOUS
        <3> HIDE DEF Records
        <3> QED
            BY <3>1
    <2> QED
        BY <2>2, <2>3, <2>4
<1>4. EntryShapes(schema) =
        [plain : [PlainFields(schema) -> Held], branch : [AllBranches(schema) -> Bodies]]
    BY DEF EntryShapes
<1> HIDE DEF Bodies
<1>5. e.branch \in [AllBranches(schema) -> Bodies]
    <2>1. e.branch = [b \in AllBranches(schema) |-> e.branch[b]]
        BY DEF IsEntry
    <2> QED
        BY <1>3, <2>1
<1>6. e = [plain |-> e.plain, branch |-> e.branch]
    BY DEF IsEntry
<1>7. e \in EntryShapes(schema)
    BY <1>2, <1>4, <1>5, <1>6
<1> QED
    BY <1>1, <1>7

(* What has landed is there, and does not change when it lands again.      *)
LEMMA LandedAgain ==
    ASSUME EntryInv, call # NoCall, NEW w, w.verb = "set", w.entry = call.entry,
           call.verb = "set"
    PROVE  LET after == Landed(schema, stored, call) IN Landed(schema, after, w) = after
<1> DEFINE after == Landed(schema, stored, call)
           e == call.entry
<1>1. /\ SchemaOK(schema) /\ BranchesAreRecords(schema) /\ kind \in Kinds
      /\ IsEntry(schema, e) /\ (stored # Absent => IsEntry(schema, stored))
    BY SchemaFacts DEF EntryInv, TypeOK, IsWrite
<1>2. IsEntry(schema, after) /\ after # Absent
    BY <1>1, LandedEntry, EntryThere DEF EntryOK
<1>3. PICK node : /\ IsEntry(schema, node)
                  /\ after.plain = Over(e.plain, node.plain)
                  /\ \A b \in AllBranches(schema) :
                        after.branch[b] = SetBranch(schema, node, e, b)
    <2>1. CASE stored # Absent
        BY <1>1, <2>1 DEF Landed
    <2>2. CASE stored = Absent
        <3>1. after = e
            BY <2>2 DEF Landed
        <3>2. Over(e.plain, e.plain) = e.plain
            <4>1. e.plain = [f \in PlainFields(schema) |-> e.plain[f]]
                BY <1>1 DEF IsEntry
            <4> QED
                BY <4>1 DEF Over
        <3>3. ASSUME NEW b \in AllBranches(schema)
              PROVE  SetBranch(schema, e, e, b) = e.branch[b]
            <4>1. PICK g \in schema.choices : b \in Branches(g)
                BY BranchHasChoice
            <4>2. e.branch[b] \in Holdings(schema, g, b) \cup {Unset}
                BY <1>1, <4>1 DEF IsEntry
            <4>3. CASE e.branch[b] = Unset
                BY <4>3 DEF SetBranch
            <4>4. CASE e.branch[b] # Unset
                <5>1. e.branch[b] \in [FieldsOf(g, b) -> Held]
                    BY <4>2, <4>4 DEF Holdings
                <5>2. SetBranch(schema, e, e, b) = Over(e.branch[b], e.branch[b])
                    BY <4>4 DEF SetBranch
                <5> QED
                    BY <5>1, <5>2, OverItself
            <4> QED
                BY <4>3, <4>4
        <3> QED
            BY <1>1, <3>1, <3>2, <3>3
    <2> QED
        BY <2>1, <2>2
<1>4. Over(e.plain, after.plain) = after.plain
    BY <1>3, OverAgain
<1>5. ASSUME NEW b \in AllBranches(schema)
      PROVE  SetBranch(schema, after, e, b) = after.branch[b]
    <2>1. PICK g \in schema.choices : b \in Branches(g)
        BY BranchHasChoice
    <2>2. after.branch[b] = SetBranch(schema, node, e, b)
        BY <1>3
    <2> HIDE DEF after, e
    <2>3. SchemaOK(schema) /\ BranchesAreRecords(schema)
          /\ IsEntry(schema, node) /\ IsEntry(schema, e)
        BY <1>1, <1>3
    <2> QED
        BY <2>1, <2>2, <2>3, SetBranchAgain
<1>6. /\ after = [plain |-> after.plain, branch |-> after.branch]
      /\ after.branch = [b \in AllBranches(schema) |-> after.branch[b]]
    <2> HIDE DEF after
    <2> QED
        BY <1>2 DEF IsEntry
<1> HIDE DEF after
<1>7. Landed(schema, after, w) = after
    BY <1>2, <1>4, <1>5, <1>6 DEF Landed
<1> QED
    BY <1>7 DEF after
-----------------------------------------------------------------------------
(* An update that has read the entry sends the overlay of what it read;    *)
(* the other writes are sets.                                              *)
CallFits ==
    call # NoCall =>
        /\ call.verb = "edit" => call.seed # Absent
        /\ call.seed # Absent =>
            /\ call.verb = "edit"
            /\ Accepts(schema, call.seed, call.in)
            /\ call.entry = Overlaid(schema, call.seed, call.in)

RetryInv == EntryInv /\ CallFits /\ RetryIsIdle

LEMMA NotStartedFits ==
    ASSUME kind' = kind, call' = call \/ call' = NoCall, CallFits
    PROVE  CallFits'
BY DEF CallFits, schema

(* What an update or a set leaves behind can be sent again.                *)
LEMMA LandedIsIdle ==
    ASSUME RetryInv, call # NoCall, kind' = kind, Lands,
           stored' = Landed(schema, stored, call), lost' = [call EXCEPT !.seed = Absent]
    PROVE  RetryIsIdle'
<1>1. /\ SchemaOK(schema) /\ BranchesAreRecords(schema) /\ kind \in Kinds
      /\ \A in \in Inputs(kind) : InputOK(schema, in)
      /\ Unset \notin ElementLists
    BY SchemaFacts, KindsAssumption DEF RetryInv, EntryInv, TypeOK
<1>2. /\ call = Write(call.in, call.seed, call.entry, call.verb)
      /\ call.in \in Inputs(kind) /\ call.verb \in {"set", "edit"}
      /\ call.seed # Absent => IsEntry(schema, call.seed)
    BY DEF RetryInv, EntryInv, TypeOK, IsWrite
<1>3. lost' = Write(call.in, Absent, call.entry, call.verb)
    BY <1>2 DEF Write
<1>4. lost'.in = call.in /\ lost'.entry = call.entry /\ lost'.verb = call.verb
    BY <1>3 DEF Write
<1>5. stored' # Absent
    <2>1. EntryOK(schema, stored')
        BY LandedEntry DEF RetryInv
    <2> QED
        BY <1>1, <2>1, EntryThere DEF EntryOK
<1>6. CASE call.verb = "edit"
    <2>1. /\ call.seed # Absent /\ Accepts(schema, call.seed, call.in)
          /\ stored' = Overlaid(schema, call.seed, call.in)
        BY <1>6 DEF RetryInv, CallFits, Landed
    <2>2. IsEntry(schema, call.seed) /\ InputOK(schema, call.in)
        BY <1>1, <1>2, <2>1
    <2>3. /\ Accepts(schema, stored', call.in)
          /\ Overlaid(schema, stored', call.in) = stored'
        BY <1>1, <2>1, <2>2, OverlaidAgain
    <2>4. schema' = schema
        BY DEF schema
    <2> QED
        BY <1>4, <1>5, <1>6, <2>3, <2>4 DEF RetryIsIdle
<1>7. CASE call.verb = "set"
    <2>1. Landed(schema, stored', lost') = stored'
        BY <1>4, <1>7, LandedAgain DEF RetryInv
    <2>2. schema' = schema
        BY DEF schema
    <2> QED
        BY <1>4, <1>5, <1>7, <2>1, <2>2 DEF RetryIsIdle
<1> QED
    BY <1>2, <1>6, <1>7

LEMMA RetryInvNext == RetryInv /\ [Next]_vars => RetryInv'
<1> SUFFICES ASSUME RetryInv, [Next]_vars PROVE RetryInv'
    OBVIOUS
<1>1. EntryInv'
    BY EntryInvNext DEF RetryInv
<1>2. ASSUME Refuse
      PROVE  CallFits' /\ RetryIsIdle'
    BY <1>2, NotStartedFits DEF Refuse, RetryIsIdle, RetryInv
<1>3. ASSUME NEW in, NEW seed, NEW entry, NEW verb,
             Starts(Write(in, seed, entry, verb)),
             verb = "edit" => seed # Absent,
             seed # Absent =>
                /\ verb = "edit"
                /\ Accepts(schema, seed, in)
                /\ entry = Overlaid(schema, seed, in)
      PROVE  CallFits' /\ RetryIsIdle'
    <2>1. /\ call' = Write(in, seed, entry, verb) /\ lost' = NoCall
          /\ schema' = schema
        BY <1>3 DEF Starts, schema
    <2>2. /\ call'.in = in /\ call'.seed = seed
          /\ call'.entry = entry /\ call'.verb = verb
        BY <2>1 DEF Write
    <2> QED
        BY <1>3, <2>1, <2>2 DEF CallFits, RetryIsIdle
<1>4. ASSUME NEW in \in Inputs(kind), Create(in) \/ UpdateAbsent(in)
      PROVE  CallFits' /\ RetryIsIdle'
    BY <1>2, <1>3, <1>4 DEF Create, UpdateAbsent
<1>5. ASSUME NEW in \in Inputs(kind), UpdateStored(in)
      PROVE  CallFits' /\ RetryIsIdle'
    BY <1>2, <1>3, <1>5 DEF UpdateStored
<1>6. CASE WriteOk
    BY <1>1, <1>6, NotStartedFits DEF WriteOk, RetryIsIdle, RetryInv
<1>7. CASE WriteFails
    <2>1. CallFits'
        BY <1>7, NotStartedFits DEF WriteFails, RetryInv
    <2>2. CASE UNCHANGED <<stored, lost>>
        BY <1>1, <1>7, <2>1, <2>2 DEF WriteFails, RetryIsIdle, RetryInv, schema
    <2>3. CASE ~UNCHANGED <<stored, lost>>
        <3>1. RetryIsIdle'
            BY <1>7, <2>3, LandedIsIdle DEF WriteFails
        <3> QED
            BY <1>1, <2>1, <3>1 DEF RetryInv
    <2> QED
        BY <2>1, <2>2, <2>3
<1>8. CASE Delete \/ Show \/ Elsewhere
    BY <1>1, <1>8, NotStartedFits DEF Delete, Show, Elsewhere, RetryIsIdle, RetryInv
<1>9. CASE UNCHANGED vars
    BY <1>1, <1>9 DEF vars, CallFits, RetryIsIdle, RetryInv, schema
<1> QED
    BY <1>1, <1>4, <1>5, <1>6, <1>7, <1>8, <1>9 DEF Next, RetryInv

(* RetryIsIdle: a write that landed but was answered as failed can be made *)
(* again, in every well-formed schema: an update is accepted and a set     *)
(* merges into what it made, and the entry stays as it is (the overlay     *)
(* functions of tools/ are idempotent).                                    *)
THEOREM RetriesAreIdle == Spec => []RetryIsIdle
<1>1. Init => RetryInv
    BY EntryInvInit DEF Init, RetryInv, CallFits, RetryIsIdle
<1>2. RetryInv => RetryIsIdle
    BY DEF RetryInv
<1> QED
    BY <1>1, <1>2, RetryInvNext, PTL DEF Spec

-----------------------------------------------------------------------------
(* What an overlay leaves alone.                                           *)

LEMMA OverlaidKeepsPlain ==
    ASSUME NEW s, NEW e, NEW in, NEW f \in PlainFields(s)
    PROVE  LET after == Overlaid(s, e, in).plain[f] IN
           /\ ~Given(in, f) => after = e.plain[f]
           /\ f \in s.merge /\ Wanted(in, f) /\ e.plain[f] # Unset =>
                \A n \in DOMAIN in[f] \cap DOMAIN e.plain[f] :
                    in[f][n] = Unset => after[n] = e.plain[f][n]
<1>1. Overlaid(s, e, in).plain[f] = Laid(s, in, f, e.plain[f])
    BY DEF Overlaid
<1>2. ASSUME ~Given(in, f)
      PROVE  Laid(s, in, f, e.plain[f]) = e.plain[f]
    BY <1>2, ValuesAssumption DEF Laid, Given, Wanted
<1>3. ASSUME f \in s.merge, Wanted(in, f)
      PROVE  Laid(s, in, f, e.plain[f]) = Merged(e.plain[f], in[f])
    BY <1>3 DEF Laid, Wanted
<1>4. ASSUME e.plain[f] # Unset, NEW n \in DOMAIN in[f] \cap DOMAIN e.plain[f],
             in[f][n] = Unset
      PROVE  Merged(e.plain[f], in[f])[n] = e.plain[f][n]
    BY <1>4 DEF Merged
<1> QED
    BY <1>1, <1>2, <1>3, <1>4

LEMMA ChosenKeeps ==
    ASSUME NEW s, SchemaOK(s), NEW g \in s.choices, NEW b \in Branches(g), NEW in,
           NEW old \in Holdings(s, g, b) \cup {Unset}
    PROVE  LET after == Chosen(s, g, in, old, b) IN
           /\ GivenIn(g, in) = {} /\ Picked(g, in) = {} => after = old
           /\ old # Unset /\ after # Unset =>
                \A f \in FieldsOf(g, b) : f \in g.hidden \/ (g.seed /\ ~Given(in, f)) =>
                    after[f] = old[f]
<1> DEFINE after == Chosen(s, g, in, old, b)
           Keeps(new) == \A f \in FieldsOf(g, b) :
                f \in g.hidden \/ (g.seed /\ ~Given(in, f)) => new[f] = old[f]
<1>1. ASSUME NEW f, ~Given(in, f), NEW x
      PROVE  Laid(s, in, f, x) = x
    BY <1>1, ValuesAssumption DEF Laid, Given, Wanted
<1>2. ASSUME NEW f \in g.drop, in[f] = Empty
      PROVE  GivenIn(g, in) # {}
    BY <1>2, ValuesAssumption DEF SchemaOK, ChoiceOK, GivenIn, Given
<1>3. CASE b \in Picked(g, in)
    <2>1. after = Rebuilt(s, g, in, b, Kept(g, old, b))
        BY <1>3 DEF Chosen
    <2>2. ASSUME old # Unset PROVE Keeps(after)
        BY <1>1, <2>1, <2>2 DEF Rebuilt, Kept
    <2> QED
        BY <1>3, <2>2
<1>4. CASE b \notin Picked(g, in) /\ Picked(g, in) # {}
    <2>1. after = IF b \in Replaced(g) THEN Unset ELSE old
        BY <1>4 DEF Chosen
    <2> QED
        BY <1>4, <2>1
<1>5. CASE Picked(g, in) = {} /\ \E f \in g.drop : in[f] = Empty
    <2>1. after = Unset
        BY <1>5 DEF Chosen
    <2> QED
        BY <1>2, <1>5, <2>1
<1>6. CASE Picked(g, in) = {} /\ \A f \in g.drop : in[f] # Empty
    <2>1. CASE g.inplace /\ old # Unset /\ GivenIn(g, in) # {}
        <3>1. after = Rebuilt(s, g, in, b, old)
            BY <1>6, <2>1 DEF Chosen
        <3>2. Keeps(after)
            BY <1>1, <3>1 DEF Rebuilt
        <3> QED
            BY <2>1, <3>2
    <2>2. CASE ~(g.inplace /\ old # Unset /\ GivenIn(g, in) # {})
        <3>1. after = old
            BY <1>6, <2>2 DEF Chosen
        <3> QED
            BY <3>1
    <2> QED
        BY <2>1, <2>2
<1> QED
    BY <1>3, <1>4, <1>5, <1>6

LEMMA OverlayKeepsTheRest ==
    ASSUME RetryInv, call # NoCall, stored # Absent, stored = call.seed,
           stored' = Landed(schema, stored, call)
    PROVE  stored' # Absent /\ KeepsPlain(call.in) /\ KeepsBranches(call.in)
<1> DEFINE in == call.in
<1>1. SchemaOK(schema) /\ IsEntry(schema, stored) /\ kind \in Kinds
    BY SchemaFacts DEF RetryInv, EntryInv, TypeOK
<1>2. stored' = Overlaid(schema, stored, in)
    BY DEF RetryInv, CallFits, Landed
<1>3. EntryOK(schema, stored')
    BY LandedEntry DEF RetryInv
<1>4. stored' # Absent
    BY <1>1, <1>3, EntryThere DEF EntryOK
<1>5. KeepsPlain(in)
    BY <1>2, OverlaidKeepsPlain DEF KeepsPlain
<1>6. ASSUME NEW g \in schema.choices, NEW b \in Branches(g)
      PROVE  /\ GivenIn(g, in) = {} /\ Picked(g, in) = {} =>
                    stored'.branch[b] = stored.branch[b]
             /\ stored.branch[b] # Unset /\ stored'.branch[b] # Unset =>
                    \A f \in DOMAIN stored.branch[b] :
                        f \in g.hidden \/ (g.seed /\ ~Given(in, f)) =>
                            stored'.branch[b][f] = stored.branch[b][f]
    <2>1. /\ stored.branch[b] \in Holdings(schema, g, b) \cup {Unset}
          /\ stored'.branch[b] = Chosen(schema, g, in, stored.branch[b], b)
        BY <1>1, <1>2, OverlaidBranch
    <2>2. stored.branch[b] # Unset => DOMAIN stored.branch[b] = FieldsOf(g, b)
        BY <2>1 DEF Holdings
    <2> HIDE DEF in
    <2> QED
        BY <1>1, <2>1, <2>2, ChosenKeeps
<1>7. KeepsBranches(in)
    BY <1>6 DEF KeepsBranches, ChosenIn
<1> QED
    BY <1>4, <1>5, <1>7

(* KeepsTheRest: an update that lands on the entry it read keeps what was  *)
(* not given, for every well-formed schema and every input.                *)
THEOREM RestIsKept == Spec => KeepsTheRest
<1> DEFINE Keeps ==
        call # NoCall /\ call' = NoCall /\ stored # Absent /\ stored = call.seed =>
            stored' # Absent /\ KeepsPlain(call.in) /\ KeepsBranches(call.in)
<1>1. Init => RetryInv
    BY EntryInvInit DEF Init, RetryInv, CallFits, RetryIsIdle
<1>2. RetryInv /\ [Next]_vars => [Keeps]_vars
    <2> SUFFICES ASSUME RetryInv, Next, call # NoCall, call' = NoCall,
                        stored # Absent, stored = call.seed
                 PROVE  stored' # Absent /\ KeepsPlain(call.in) /\ KeepsBranches(call.in)
        OBVIOUS
    <2>1. stored' = stored \/ stored' = Landed(schema, stored, call)
        BY DEF Next, Create, UpdateStored, UpdateAbsent, WriteOk, WriteFails, Delete,
               Show, Elsewhere
    <2>2. CASE stored' = stored
        BY <2>2 DEF KeepsPlain, KeepsBranches
    <2>3. CASE stored' = Landed(schema, stored, call)
        BY <2>3, OverlayKeepsTheRest
    <2> QED
        BY <2>1, <2>2, <2>3
<1>3. Spec => [][Keeps]_vars
    BY <1>1, <1>2, RetryInvNext, PTL DEF Spec
<1> QED
    BY <1>3 DEF KeepsTheRest
=============================================================================
