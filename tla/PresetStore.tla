----------------------------- MODULE PresetStore -----------------------------
(***************************************************************************)
(* What editing a preset promises: a value for each key of each section,   *)
(* and edits, taken one at a time and in their order, that each set or     *)
(* delete some keys of one section and leave every other key alone; or are *)
(* refused as a whole, for a value that is not allowed or a section that   *)
(* is not there (scripts/apply_preset_patch.py).                           *)
(***************************************************************************)
EXTENDS Sequences

CONSTANTS
    Sections,
    Keys,
    Values,
    Patches,    \* functions from some keys to values
    Refused,    \* values that are not allowed
    Unset       \* the value of a key that is not there; in a patch: delete the key

VARIABLES
    conf,
    there,      \* the sections there are: no edit adds or drops one
    todo        \* the edits that are still to be taken

StoreInit ==
    /\ conf \in [Sections -> [Keys -> Values \union {Unset}]]
    /\ there \subseteq Sections
    /\ todo = <<>>

Ask(s, patch) ==
    /\ todo' = Append(todo, [section |-> s, patch |-> patch])
    /\ UNCHANGED <<conf, there>>

Allowed(e) == e.section \in there /\ \A k \in DOMAIN e.patch : e.patch[k] \notin Refused

Take ==
    /\ todo # <<>>
    /\ Allowed(Head(todo))
    /\ LET e == Head(todo)
       IN  conf' = [conf EXCEPT ![e.section] =
                      [k \in Keys |-> IF k \in DOMAIN e.patch THEN e.patch[k] ELSE @[k]]]
    /\ todo' = Tail(todo)
    /\ UNCHANGED there

Refuse ==
    /\ todo # <<>>
    /\ ~Allowed(Head(todo))
    /\ todo' = Tail(todo)
    /\ UNCHANGED <<conf, there>>

StoreNext ==
    \/ \E s \in Sections, patch \in Patches : Ask(s, patch)
    \/ Take
    \/ Refuse

StoreSpec == StoreInit /\ [][StoreNext]_<<conf, there, todo>>

=============================================================================
