--------------------------- MODULE MCEngineCommand ---------------------------
(***************************************************************************)
(* EngineCommand with the engines of catalog/backends.yaml.                *)
(***************************************************************************)
EXTENDS EngineCommand, TLC

MCCatalog ==
    [llamacpp |-> [supports |-> [speculative |-> "flags", mmproj |-> "auto"],
                   noGguf |-> FALSE, cmd |-> {}, env |-> {}],
     vllm |-> [supports |-> [speculative |-> "flag", mmproj |-> "none"],
               noGguf |-> TRUE,
               cmd |-> {"venv", "repo", "port", "model_id", "ctx_size", "gpu_mem_util",
                        "tp_flag", "spec_flag", "extra_args"},
               env |-> {"gpu_ids"}],
     dwarfstar |-> [supports |-> [speculative |-> "unknown", mmproj |-> "unsupported"],
                    noGguf |-> FALSE,
                    cmd |-> {"bin", "model_path", "port", "ctx_size", "extra_args"},
                    env |-> {"gpu_ids"}]]

MCSections ==
    [backend : DOMAIN MCCatalog, fields : SUBSET Fields]
=============================================================================
