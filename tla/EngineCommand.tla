---------------------------- MODULE EngineCommand ----------------------------
(***************************************************************************)
(* How `llm up` starts a model that llama.cpp does not serve: the fields   *)
(* of its preset section and the entry of its engine in                    *)
(* catalog/backends.yaml become one shell command                          *)
(* (scripts/render_backend_cmd.py), which engine_up of bin/llm hands to    *)
(* the engine's adapter.  A field is told apart by its name; of hf-repo it *)
(* matters whether it has a quant tag, whether that looks like one of      *)
(* GGUF, and whether the repo has a projector; of a note of the catalogue, *)
(* how it begins and which words it has.                                   *)
(***************************************************************************)
CONSTANTS
    Catalog,    \* the engines: what each supports, and the variables of its cmd
    Sections    \* the sections `llm up` is asked for: a backend of it, and fields

\* The spec-draft-* fields of the shipped presets.
SpecDraftFields == {"spec-draft-hf", "spec-draft-model", "spec-draft-n-max", "spec-draft-ngl"}

\* The typed fields of a section, and what its hf-repo is like.
Fields ==
    SpecDraftFields \union
    {"hf-repo", "quant", "gguf quant", "vision repo", "device", "ctx-size", "parallel",
     "mmproj", "no-mmproj", "model-draft", "spec-type", "extra-args"}

VARIABLES
    section,    \* what is brought up
    at,         \* where the command is
    carried     \* the fields that are in the engine's command or environment

engineVars == <<section, at, carried>>

EngineTypeOK ==
    /\ section \in Sections
    /\ at \in {"render", "refused", "start", "adapter", "died"}
    /\ carried \subseteq Fields

EngineInit ==
    /\ section \in Sections
    /\ at = "render"
    /\ carried = {}

Given(f) == f \in section.fields
Engine == Catalog[section.backend]

-----------------------------------------------------------------------------
(* render_backend_cmd.py *)

\* What the catalogue says of a capability begins with one of these, or nothing is said.
Unsupported(cap) == Engine.supports[cap] \in {"", "unknown", "unsupported"}

NoRepo == ~Given("hf-repo")
NoGguf == Given("gguf quant") /\ Engine.noGguf
SpecModel == Given("spec-draft-model") \/ Given("model-draft")
NoSpeculation == SpecModel /\ Unsupported("speculative")
NoProjector == Given("mmproj") /\ Unsupported("mmproj")
NoDevice == ~Given("device")
NoTemplate == Engine.cmd = {}

\* The fields each variable of a cmd template, or of env, stands for.
FieldsOf == [repo |-> {"hf-repo"},
             model_path |-> {"hf-repo", "quant", "gguf quant"},
             gpu_ids |-> {"device"},
             ctx_size |-> {"ctx-size"},
             parallel |-> {"parallel"},
             mmproj_path |-> {"mmproj"},
             spec_flag |-> {"spec-draft-model", "model-draft"},
             extra_args |-> {"extra-args"}]

\* The router serves it itself; and the checks, in their order.  One that fails ends
\* `up`.  (An engine or a section that does not exist ends it too.)
Refuses ==
    \/ section.backend = "llamacpp"
    \/ NoRepo \/ NoGguf \/ NoSpeculation \/ NoProjector \/ NoDevice \/ NoTemplate

RenderRefuses ==
    /\ at = "render" /\ Refuses
    /\ at' = "refused"
    /\ UNCHANGED <<section, carried>>

\* Every field a variable of the template stands for goes in, and no other.
Render ==
    /\ at = "render" /\ ~Refuses
    /\ at' = "start"
    /\ carried' = section.fields \intersect
                    UNION {FieldsOf[v] : v \in (Engine.cmd \union Engine.env) \intersect DOMAIN FieldsOf}
    /\ UNCHANGED section

-----------------------------------------------------------------------------
(* engine_up *)

\* The command is put between single quotes, and spec_flag has some of its own: the
\* adapter is given words it does not know, and exits.
Quoted == "spec_flag" \in Engine.cmd /\ SpecModel

Start ==
    /\ at = "start"
    /\ at' = IF Quoted THEN "died" ELSE "adapter"
    /\ UNCHANGED <<section, carried>>

-----------------------------------------------------------------------------
EngineNext == RenderRefuses \/ Render \/ Start

EngineSpec == EngineInit /\ [][EngineNext]_engineVars

-----------------------------------------------------------------------------
(* Properties *)

\* The projector is a field of its own, or that of the repo.
HasProjector == Given("mmproj") \/ (Given("vision repo") /\ ~Given("no-mmproj"))

\* catalog/backends.yaml:129-132, "Reject-at-launch rules": no engine is started for a
\* section with a spec-draft-* field, a projector (its own "or hf-repo implies one") or a
\* GGUF tag the engine's entry does not know what to do with.
RulesEnforced ==
    at = "adapter" =>
        /\ Unsupported("speculative") => \A f \in SpecDraftFields : ~Given(f)
        /\ Engine.supports["mmproj"] \in {"", "unsupported"} => ~HasProjector
        /\ Engine.noGguf => ~Given("gguf quant")

=============================================================================
