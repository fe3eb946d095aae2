----------------------------- MODULE MCResources -----------------------------
(***************************************************************************)
(* Every resource of the server, each with the fields that its schema      *)
(* treats differently: of fields it treats alike, one.                     *)
(***************************************************************************)
EXTENDS Resources, Catalogue, Integers, Sequences, TLC

LOCAL SE == INSTANCE SequencesExt

CONSTANT v, n1, n2
MCVals == {v}
MCElements == {n1, n2}

(* What the theorems ask of a schema holds of all of them, uncut.          *)
ASSUME CatalogueAssumption == \A s \in AllSchemas : SchemaOK(s)

(* How a schema treats a field, a branch, and a field in the branches.     *)
Treatment(s, f) ==
    <<f \in s.clear, f \in s.members, f \in s.orAny, f \in s.merge,
      f \in s.checked, f \in s.need, f \in s.secret,
      {r \in DOMAIN s.with : f \in s.with[r] \cup {r}},
      \E g \in s.choices : f \in g.drop>>

BranchTreatment(s, g, b) ==
    <<{Treatment(s, f) : f \in g.of[b]},
      b \in DOMAIN g.whole, b \in DOMAIN g.whole /\ g.of[b] = g.whole[b],
      b \in g.default, Cardinality(g.of[b]) > 1>>

(* Of branches treated alike, two.                                         *)
KeptBranches(s, g) ==
    LET alike(b) == {c \in DOMAIN g.of :
                        BranchTreatment(s, g, c) = BranchTreatment(s, g, b)}
        first(b) == CHOOSE c \in alike(b) : TRUE
        second(b) == CHOOSE c \in alike(b) : c # first(b) \/ Cardinality(alike(b)) = 1
    IN  {first(b) : b \in DOMAIN g.of} \cup {second(b) : b \in DOMAIN g.of}

Place(s, f) ==
    <<Treatment(s, f),
      {<<g, b>> \in s.choices \X AllBranches(s) :
        b \in DOMAIN g.of /\ f \in g.of[b]},
      {b \in AllBranches(s) : \E g \in s.choices :
        b \in DOMAIN g.whole /\ f \in g.whole[b]}>>

AlikeTo(s, f) ==
    CHOOSE h \in PlainFields(s) \cup AllInner(s) : Place(s, h) = Place(s, f)

(* Of fields treated alike in the same branches, one.                      *)
Focus(s) ==
    {AlikeTo(s, f) : f \in PlainFields(s) \cup
        UNION {UNION {g.of[b] : b \in KeptBranches(s, g)} : g \in s.choices}}

Focused(s) ==
    LET F == Focus(s)
        Only(g) == [g EXCEPT
            !.of = [b \in KeptBranches(s, g) |-> @[b] \cap F],
            !.whole = [b \in DOMAIN @ \cap KeptBranches(s, g) |-> @[b] \cap F],
            !.some = @ \cap KeptBranches(s, g),
            !.drop = @ \cap F,
            !.apart = {fs \cap F : fs \in @}]
    IN  [s EXCEPT
            !.keep = @ \cap F, !.clear = @ \cap F, !.members = @ \cap F,
            !.orAny = @ \cap F, !.merge = @ \cap F, !.checked = @ \cap F,
            !.need = @ \cap F, !.secret = @ \cap F,
            !.choices = {Only(g) : g \in @}]

SchemaTable ==
    SE!FoldSet(LAMBDA s, table : Append(table, s), <<>>, {Focused(s) : s \in AllSchemas})
MCKinds == 1..Len(SchemaTable)
MCSchemaOf(k) == SchemaTable[k]

-----------------------------------------------------------------------------
Full(s, f) == IF f \in s.merge THEN [n \in {n1, n2} |-> v] ELSE v

(* What can be given in a field.                                           *)
Gives(s, f) ==
    {Full(s, f)}
    \cup (IF f \in s.merge THEN {[n \in {n1} |-> Unset]} ELSE {})
    \cup (IF \/ f \in s.clear \cup s.members \cup s.orAny \cup s.merge
             \/ \E g \in s.choices : f \in g.drop
          THEN {Empty} ELSE {})
    \cup (IF f \in s.checked THEN {Bad} ELSE {})

(* The branches of one choice, or none.                                    *)
NoPick == [g |-> Choice, b |-> NoField]
Picks2(s) ==
    {NoPick} \cup
    UNION {[g : {g}, b : DOMAIN g.of] : g \in {g \in s.choices : g.by # NoField}}

(* Inputs give what create needs or not, a branch with what it must have   *)
(* or not, and a field more, or two that pick a branch.                    *)
Bases(s, pick) ==
    {needs \cup whole :
        needs \in {{}, s.need},
        whole \in {{}} \cup
            (IF pick.b \in DOMAIN pick.g.whole THEN {pick.g.whole[pick.b]} ELSE {})}
Extras(s) ==
    {{}} \cup {{f} : f \in PlainFields(s) \cup AllInner(s)} \cup
    UNION {{{f, h} : f \in Inner(g), h \in Inner(g)} :
            g \in {g \in s.choices : g.by = NoField}}

InputOf(s, pick, base, x) ==
    [f \in InputFields(s) |->
        CASE f \in Selectors(s) -> IF f = pick.g.by THEN pick.b ELSE Unset
          [] f \in DOMAIN x -> x[f]
          [] f \in base \ (DOMAIN x \cup Selectors(s)) -> Full(s, f)
          [] OTHER -> Unset]

Fillings(s, fs) ==
    {x \in [fs -> UNION {Gives(s, f) : f \in fs}] : \A f \in fs : x[f] \in Gives(s, f)}

InputsOf(s) ==
    UNION {UNION {{InputOf(s, pick, base, x) : x \in UNION {Fillings(s, fs) : fs \in Extras(s)}}
                    : base \in Bases(s, pick)} : pick \in Picks2(s)}
InputTable == [k \in MCKinds |-> InputsOf(SchemaTable[k])]
MCInputs(k) == InputTable[k]

(* Others store entries of each branch, with all its fields, and one with  *)
(* as little as there can be.                                              *)
Anything(s, bs, full) ==
    [plain |-> [f \in PlainFields(s) |->
        CASE full \/ f \in s.need -> Full(s, f)
          [] ~full /\ f \in s.orAny -> AnyValue
          [] OTHER -> Unset],
     branch |-> [b \in AllBranches(s) |->
        LET g == ChoiceOf(s, b) IN
        IF b \notin bs THEN Unset
        ELSE [f \in FieldsOf(g, b) |->
                IF \/ full \/ b \in g.some
                   \/ b \in DOMAIN g.whole /\ f \in g.whole[b]
                THEN Full(s, f) ELSE Unset]]]

EntriesOf(s) ==
    {e \in {Anything(s, bs, full) :
                bs \in {bs \in SUBSET AllBranches(s) :
                            Cardinality(bs) \in {0, Cardinality(s.choices)}},
                full \in BOOLEAN} : Valid(s, e)}
EntryTable == [k \in MCKinds |-> EntriesOf(SchemaTable[k])]
MCEntries(k) == EntryTable[k]
=============================================================================
