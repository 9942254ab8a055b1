-------------------------- MODULE MCMachineModels --------------------------
(***************************************************************************)
(* The models of a machine, two of them, which can be copies of each       *)
(* other, and the edits of its preset.  They share no state: a behaviour   *)
(* is one of either, and the other part stays as it is.                    *)
(***************************************************************************)
EXTENDS MachineModels, PresetEdits, TLC

CONSTANTS
    m1, m2, shared, other,              \* models and their repos
    big, tiny,                          \* sections of the preset
    ctx, small, large, padded, noGpu, repo1, repo2, tag, odd

VARIABLE part

partVars == <<part, vars, editVars>>

MCOrder2 == <<m1, m2>>
MCRepo2 == (m1 :> shared) @@ (m2 :> other)
MCCopies2 == (m1 :> shared) @@ (m2 :> shared)

\* Every file of up to three lines after a header: two sections, which can be there
\* twice, keys that are missing, repeated or commented out.
MCLines == {Header(big), Header(tiny), Entry(ctx, small), Entry(HfRepo, <<repo1, NoTag>>),
            Text(ctx)}
MCFiles == {<<Header(big)>> \o f : f \in UNION {[1 .. n -> MCLines] : n \in 0 .. 3}}
MCRefused == {noGpu} \union {<<r, odd>> : r \in {repo1, repo2}}
MCWritten == padded :> large

\* One key set, refused or deleted; a repo set, with a tag or without; two keys at
\* once.
MCEdited ==
    {[k \in {ctx} |-> v] : v \in {padded, noGpu, Unset}} \union
    {[k \in {HfRepo} |-> <<repo2, t>>] : t \in {tag, NoTag}} \union
    {[k \in PresetKeys |-> IF k = ctx THEN v ELSE <<repo2, tag>>] : v \in {small, Unset}}

MachineInit ==
    /\ part \in {"models", "edits"}
    /\ Init /\ EditsInit
    /\ part = "models" \/ child = [m \in Models |-> "unloaded"]
    /\ part = "edits" \/ preset = <<Header(big)>>

ModelChanges == part = "models" /\ Next /\ UNCHANGED editVars
PresetChanges == part = "edits" /\ EditsNext /\ UNCHANGED vars

MachineNext == UNCHANGED part /\ (ModelChanges \/ PresetChanges)

MachineSpec == MachineInit /\ [][MachineNext]_partVars
FairMachineSpec == MachineSpec /\ Fairness
=============================================================================
