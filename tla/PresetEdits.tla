----------------------------- MODULE PresetEdits -----------------------------
(***************************************************************************)
(* Edits of a machine's preset file from the Models page: set_preset of    *)
(* gateway/llm_gateway.py makes a patch, a heartbeat carries it to the     *)
(* machine, scripts/apply_preset_patch.py edits the file line by line, and *)
(* the next heartbeat reports the sections back (preset_json of bin/llm).  *)
(*                                                                         *)
(* The page may give a quant tag alone: the gateway completes it to an     *)
(* hf-repo with the repo the machine reported last.                        *)
(***************************************************************************)
EXTENDS Naturals, Sequences, FiniteSets, SequencesExt

CONSTANTS
    Sections,
    Settings,   \* keys other than hf-repo: ctx-size, device, ...
    Plain,      \* values of these
    Refused,    \* values `validate` refuses: a GPU that is not there, an odd tag
    Written,    \* how it writes values that have several spellings: 04096, CUDA0, CUDA1
    HubRepos,
    QuantTags,
    NoTag,
    NoRepo,     \* nothing is known of the section's repo
    Unset,      \* no such line; in a patch: the empty value, which deletes
    Garbled,    \* two lines run together
    Files,      \* what the file can be at first
    Edited,     \* what a page sends, a quant tag alone aside
    MaxEdits    \* bound: edits made in one behaviour

HfRepo == "hf-repo"
PresetKeys == Settings \union {HfRepo}
Sources == HubRepos \X (QuantTags \union {NoTag})
Values == Plain \union Sources

ASSUME SettingsAssumption == HfRepo \notin Settings /\ IsFiniteSet(Settings)
ASSUME EditedAssumption ==
    \A patch \in Edited :
       /\ DOMAIN patch \subseteq PresetKeys
       /\ \A k \in DOMAIN patch : patch[k] \in Values \union {Unset}
ASSUME RefusedAssumption == Refused \subseteq Values
ASSUME WrittenAssumption ==
    /\ DOMAIN Written \subseteq Plain \ Refused
    /\ \A v \in DOMAIN Written : Written[v] \in Plain \ Refused
ASSUME MaxEditsAssumption == MaxEdits \in Nat

\* name: the section or the key.  ended: the line has its newline; only the last
\* one can be without.  A line of text (a comment, a `; match:`, a blank) may hold
\* a key behind its `;`.
PresetLines ==
    [kind : {"section", "key", "text"}, name : Sections \union PresetKeys,
     val : Values \union {Unset, Garbled}, ended : BOOLEAN]
Header(s) == [kind |-> "section", name |-> s, val |-> Unset, ended |-> TRUE]
Entry(k, v) == [kind |-> "key", name |-> k, val |-> v, ended |-> TRUE]
Text(k) == [kind |-> "text", name |-> k, val |-> Unset, ended |-> TRUE]
Unended(l) == [l EXCEPT !.ended = FALSE]

ASSUME FilesAssumption == Files \subseteq Seq(PresetLines)

VARIABLES
    preset,     \* the lines of the preset
    known,      \* the repo of each section in the gateway's record of the machine
    pending,    \* edits that wait at the gateway
    batch,      \* edits the machine has fetched
    made,       \* number of edits made so far
    done,       \* number of them the machine is through with
    reported,   \* how many it was through with at its last heartbeat
    moved       \* number of the last edit that gave a section its hf-repo

editVars == <<preset, known, pending, batch, made, done, reported, moved>>

TagPatch(source) == [k \in {HfRepo} |-> source]
Patches == Edited \union {TagPatch(source) : source \in Sources}

\* from: what the gateway had heard to be done when the edit was made.
Edits == [section : Sections, patch : Patches, byTag : BOOLEAN, from : 0 .. MaxEdits]

EditsTypeOK ==
    /\ preset \in Seq(PresetLines)
    /\ known \in [Sections -> HubRepos \union {NoRepo}]
    /\ pending \in Seq(Edits) /\ batch \in Seq(Edits)
    /\ made \in 0 .. MaxEdits /\ done \in 0 .. made /\ reported \in 0 .. done
    /\ moved \in [Sections -> 0 .. done]

-----------------------------------------------------------------------------
(* Reading the file *)

Latest(S) == CHOOSE i \in S : \A j \in S : j <= i
Earliest(S) == CHOOSE i \in S : \A j \in S : i <= j

\* The section a line is in; the lines before the first header are in none.
Headers(lines, i) == {j \in 1 .. i : lines[j].kind = "section"}
In(lines, i, s) ==
    LET hs == Headers(lines, i)
    IN  hs # {} /\ lines[Latest(hs)].name = s

Occurrences(lines, s, k) ==
    {i \in DOMAIN lines : /\ lines[i].kind = "key" /\ lines[i].name = k
                          /\ In(lines, i, s)}

\* ini_get of bin/llm prints the first line of the key,
IniGet(lines, s, k) ==
    LET is == Occurrences(lines, s, k)
    IN  IF is = {} THEN Unset ELSE lines[Earliest(is)].val

\* configparser in preset_json keeps the last.
Parsed(lines, s, k) ==
    LET is == Occurrences(lines, s, k)
    IN  IF is = {} THEN Unset ELSE lines[Latest(is)].val

RepoOf(v) == IF v \in Sources THEN v[1] ELSE NoRepo

-----------------------------------------------------------------------------
(* patch_lines *)

\* A line the patch replaces, or deletes: not a comment that holds the key, but
\* every line of the key.
HoldsKey(l, patch, seen) == l.name \in DOMAIN patch
UnseenKey(l, patch, seen) == l.kind = "key" /\ l.name \in DOMAIN patch \ seen
PatchedKey(l, patch, seen) == l.kind = "key" /\ l.name \in DOMAIN patch

\* What the patch sets and the section has not shown.
Missing(patch, seen) ==
    LET new == SetToSeq({k \in DOMAIN patch \ seen : patch[k] # Unset})
    IN  [i \in DOMAIN new |-> Entry(new[i], patch[new[i]])]

Replaced(k, v) == IF v = Unset THEN <<>> ELSE <<Entry(k, v)>>

\* At the end of a section, which can be the end of the file.
LeftOpen(acc, patch) == acc.out
Finished(acc, patch) ==
    IF acc.in THEN acc.out \o Missing(patch, acc.seen) ELSE acc.out

\* One line; acc: the output so far, whether this is the section, the keys seen.
PatchLine(acc, l, s, patch) ==
    IF l.kind = "section"
    THEN [acc EXCEPT !.out = Append(Finished(acc, patch), l), !.in = l.name = s]
    ELSE IF acc.in /\ PatchedKey(l, patch, acc.seen)
    THEN [acc EXCEPT !.out = @ \o Replaced(l.name, patch[l.name]),
                     !.seen = @ \union {l.name}]
    ELSE [acc EXCEPT !.out = Append(@, l)]

\* A line without its newline and the one written after it are one line.
Joined(lines) ==
    LET open == {i \in DOMAIN lines : ~lines[i].ended /\ i < Len(lines)}
        i == Latest(open)
        glued == [lines[i] EXCEPT
                    !.kind = IF @ = "section" THEN "text" ELSE @,
                    !.val = IF lines[i].kind = "key" THEN Garbled ELSE @,
                    !.ended = lines[i + 1].ended]
    IN  IF open = {} THEN lines
        ELSE SubSeq(lines, 1, i - 1) \o <<glued>> \o SubSeq(lines, i + 2, Len(lines))

NoLines == [out |-> <<>>, in |-> FALSE, seen |-> {}]
Patched(lines, s, patch) ==
    LET after[n \in 0 .. Len(lines)] ==
            IF n = 0 THEN NoLines ELSE PatchLine(after[n - 1], lines[n], s, patch)
    IN  Joined(Finished(after[Len(lines)], patch))

Has(lines, s) == \E i \in DOMAIN lines : lines[i].kind = "section" /\ lines[i].name = s

\* validate: one bad value refuses the whole patch.
Valid(patch) == \A k \in DOMAIN patch : patch[k] \notin Refused
Clean(v) == IF v \in DOMAIN Written THEN Written[v] ELSE v
Validated(patch) == [k \in DOMAIN patch |-> Clean(patch[k])]

-----------------------------------------------------------------------------
\* What a heartbeat reports of a section's repo.
Reported(s) == RepoOf(Parsed(preset, s, HfRepo))

\* The machine has registered with the file as it is.
EditsInit ==
    /\ preset \in Files
    /\ known = [s \in Sections |-> Reported(s)]
    /\ pending = <<>> /\ batch = <<>>
    /\ made = 0 /\ done = 0 /\ reported = 0
    /\ moved = [s \in Sections |-> 0]

Queue(s, patch, byTag) ==
    /\ made < MaxEdits
    /\ made' = made + 1
    /\ pending' = Append(pending, [section |-> s, patch |-> patch,
                                   byTag |-> byTag, from |-> reported])
    /\ UNCHANGED <<preset, known, batch, done, reported, moved>>

\* A patch that names what it sets; the gateway does not ask whether the machine
\* has the section.
EditKeys(s, patch) == DOMAIN patch # {} /\ Queue(s, patch, FALSE)

\* A tag alone is put behind the repo of the gateway's record: 400 without one.
Always(s) == TRUE
RepoKnown(s) == known[s] # NoRepo

EditTag(s, t) ==
    /\ RepoKnown(s)
    /\ Queue(s, TagPatch(<<known[s], t>>), TRUE)

\* What the gateway keeps of a heartbeat.
KeptOnce(old, new) == IF old = NoRepo THEN new ELSE old
Kept(old, new) == new

\* The file is read for the heartbeat; the response brings the edits.
Heartbeat ==
    /\ batch = <<>>
    /\ known' = [s \in Sections |-> Kept(known[s], Reported(s))]
    /\ reported' = done
    /\ batch' = pending
    /\ pending' = <<>>
    /\ UNCHANGED <<preset, made, done, moved>>

Takes(e) == Valid(e.patch) /\ Has(preset, e.section)

\* The oldest edit is applied, or refused; the file is replaced as a whole.
Apply ==
    LET e == Head(batch)
    IN  /\ batch # <<>>
        /\ batch' = Tail(batch)
        /\ done' = done + 1
        /\ IF Takes(e)
           THEN /\ preset' = Patched(preset, e.section, Validated(e.patch))
                /\ moved' = IF HfRepo \in DOMAIN e.patch
                            THEN [moved EXCEPT ![e.section] = done'] ELSE moved
           ELSE UNCHANGED <<preset, moved>>
        /\ UNCHANGED <<known, pending, made, reported>>

EditsNext ==
    \/ \E s \in Sections, patch \in Edited : EditKeys(s, patch)
    \/ \E s \in Sections, t \in QuantTags \union {NoTag} : EditTag(s, t)
    \/ Heartbeat
    \/ Apply

EditsSpec == EditsInit /\ [][EditsNext]_editVars

-----------------------------------------------------------------------------
(* Properties *)

AskedEdits(queue) ==
    [i \in DOMAIN queue |-> [section |-> queue[i].section,
                             patch |-> Validated(queue[i].patch)]]

KeyStore == INSTANCE PresetStore WITH
    Keys <- PresetKeys,
    Patches <- {Validated(patch) : patch \in Patches},
    conf <- [s \in Sections |-> [k \in PresetKeys |-> IniGet(preset, s, k)]],
    there <- {s \in Sections : Has(preset, s)},
    todo <- AskedEdits(batch \o pending)

\* apply_preset_patch.py:13, "missing keys are left alone": whatever the layout of
\* the file, with keys and sections given twice or not at all, an edit changes the
\* values bin/llm reads as an edit of PresetStore does, and has no effect only if
\* validate refuses one of its values or the section is not there.
ImplementsStore == KeyStore!StoreSpec

\* bin/llm reads the first line of a key and the report to the gateway the last
\* one: they agree on every key once it has been edited.
ReadersAgree ==
    [][\A k \in PresetKeys :
         (Apply /\ Takes(Head(batch)) /\ k \in DOMAIN Head(batch).patch) =>
            LET s == Head(batch).section
            IN  IniGet(preset', s, k) = Parsed(preset', s, k)]_editVars

\* apply_preset_patch.py:3, "load-bearing `; match:` lines": no edit drops, adds or
\* moves a comment or a header, or carries one into another section.
WithText(out, l) == IF l.kind = "key" THEN out ELSE Append(out, l)
Unkeyed(lines) ==
    LET upTo[n \in 0 .. Len(lines)] ==
            IF n = 0 THEN <<>> ELSE WithText(upTo[n - 1], lines[n])
    IN  upTo[Len(lines)]
TextKept == [][Unkeyed(preset') = Unkeyed(preset)]_editVars

\* Setting the tag alone keeps the repo, unless an edit of the repo was still on
\* its way to the machine, or back, when the tag was set.
TagKeepsRepo ==
    [][LET e == Head(batch)
       IN  (Apply /\ Takes(e) /\ e.byTag) =>
             \/ Reported(e.section) = e.patch[HfRepo][1]
             \/ moved[e.section] > e.from]_editVars

=============================================================================
