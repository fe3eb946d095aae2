----------------------------- MODULE ConfigData -----------------------------
(***************************************************************************)
(* The data the create, read, update and delete tools work on, reduced to  *)
(* what their properties tell apart: a location holds named nodes, a node  *)
(* is absent or an entry, an entry gives each field a value or leaves it   *)
(* unset, and a call names a node and carries a patch of fields.           *)
(***************************************************************************)

CONSTANTS
    Names,      \* object names, and the one name of a singleton setting
    Fields,     \* fields of an entry
    Values,     \* what a field can hold
    Tools,      \* the kinds of call that are made: a read-only server has no writes
    Unset,      \* a field that is not there (nil in pango's structs)
    Absent,     \* a node that is not there
    Failed,     \* what a call has seen when it answers an error
    Nothing     \* what a call has seen before it saw anything

ASSUME UnsetAssumption == Unset \notin Values
ASSUME AbsentAssumption == Absent \notin [Fields -> Values \cup {Unset}]

Entry == [Fields -> Values \cup {Unset}]
Node == Entry \cup {Absent}
Blank == [f \in Fields |-> Unset]

(* An overlay applies only the fields the caller provided and keeps the    *)
(* rest of the stored entry (updateHandler, tools.go:757-759).             *)
Overlay(entry, patch) ==
    [f \in Fields |-> IF patch[f] = Unset THEN entry[f] ELSE patch[f]]

(* The device side of a write.  "set" (pango's Create) merges onto what is *)
(* there, "edit" (pango's Update) replaces it, "delete" removes it.        *)
Writes == [kind : {"set", "edit", "delete"}, name : Names, entry : Entry]

Landed(node, w) ==
    CASE w.kind = "set" -> Overlay(IF node = Absent THEN Blank ELSE node, w.entry)
      [] w.kind = "edit" -> w.entry
      [] w.kind = "delete" -> Absent

(* What a tool call asks for.  "upsert" is the update of a singleton       *)
(* system setting, "peek" its get.  "malformed" is any write whose input   *)
(* the handler refuses: no name, no such location, an entry that does not  *)
(* build.                                                                  *)
ReadOps == {"get", "list", "peek"}
PatchOps == {"create", "update", "upsert"}
WriteOps == PatchOps \cup {"delete"}

Requests ==
    [op : Tools \ PatchOps, name : Names, patch : {Blank}]
        \cup [op : Tools \cap PatchOps, name : Names, patch : Entry]

ASSUME ToolsAssumption == Tools \subseteq ReadOps \cup WriteOps \cup {"malformed"}

NoRequest == [op |-> "none", name |-> Nothing, patch |-> Blank]

(* What an answer can show: a node, a listing, an error.                   *)
Views == Node \cup [Names -> Node] \cup {Failed, Nothing}

(* What a read shows of the candidate config.  The get of a singleton that *)
(* is not configured shows an empty config (systemGetHandler).             *)
Seen(candidate, r) ==
    CASE r.op = "list" -> candidate
      [] r.op = "get" -> candidate[r.name]
      [] r.op = "peek" ->
            IF candidate[r.name] = Absent THEN Blank ELSE candidate[r.name]

(* What a call promises to do to the node it names, taken as one step.     *)
Intended(node, r) ==
    CASE r.op = "delete" -> Absent
      [] r.op \in {"create", "upsert"} ->
            Overlay(IF node = Absent THEN Blank ELSE node, r.patch)
      [] r.op = "update" -> Overlay(node, r.patch)
=============================================================================
